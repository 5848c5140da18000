CONSTANTS
    Nodes <- MCNodes
    Inputs <- MCInputs
    Device <- MCDevice
    Copies <- MCCopies
    Out <- MCOut
    Workers = 2
    Runs = 2
SPECIFICATION FairSpec
INVARIANT TypeOK
INVARIANT InputsReady
INVARIANT RunIsComplete
PROPERTY RunReturns
