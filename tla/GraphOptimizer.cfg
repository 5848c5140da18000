CONSTANTS
    NLayers = 3
    MaxInputs = 5
    MaxOutputs = 0
    Nodes <- MCNodes
    Frees <- GPUs
SPECIFICATION OptSpec
INVARIANT MeaningKept
INVARIANT ReadsOrdered
INVARIANT StoreDevices
INVARIANT OperandsAtHand
INVARIANT ReclaimSafe
INVARIANT HandedOnInPlace
INVARIANT InputsFirst
CHECK_DEADLOCK FALSE
