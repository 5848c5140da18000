CONSTANTS
    Ids = {t1, t2, t3}
    Sizes = {1, 3}
    SeedBytes = 4
    Alignment = 2
    Capacity = 8
    MaxUses = 2
    MaxRef = 1
    MaxHeap = 2
    MaxCalls = 4
SPECIFICATION FairSpec
INVARIANT TypeOK
INVARIANT ResidentSafe
INVARIANT InsideRange
PROPERTY AllocationReturns
CHECK_DEADLOCK FALSE
