CONSTANTS
    NSeqs = 3
    VocabSize = 3
    MaxBatchSize = 2
    Prompts <- MCPrompts
    Eog <- MCEog
SPECIFICATION Spec
INVARIANT TypeOK
INVARIANT PromptsCovered
INVARIANT PrefixComputedOnce
INVARIANT SplitsKeepOrder
