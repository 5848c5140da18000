CONSTANTS
    NSeqs = 2
    VocabSize = 3
    MaxBatchSize = 2
    Prompts <- MCPrompts
    Eog <- MCEog
SPECIFICATION Spec
INVARIANT EverySequenceHasBatch
