CONSTANTS
    Nodes = {a, b, c}
    MaxInputs = 2
    MaxOutputs = 1
SPECIFICATION FairSpec
INVARIANT TypeOK
INVARIANT InputsFirst
INVARIANT OnlyReached
INVARIANT ReadersListed
PROPERTY BuildReturns
