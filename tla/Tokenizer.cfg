CONSTANTS
    a = a
    b = b
    Chars = {a, b}
    Wide = {b}
    Texts <- MCTexts
    Tables <- MCTables
    Vocab <- MCVocab
SPECIFICATION FairSpec
INVARIANT TypeOK
INVARIANT LinksSound
INVARIANT QueueExact
INVARIANT TokensSpell
PROPERTY ImplementsBPE
PROPERTY TokenizeReturns
