CONSTANTS
    Seqs = {s1, s2}
    NLayers = 2
    TotalPages = 3
    PageSize = 2
    MaxArg = 2
SPECIFICATION FairSpec
INVARIANT TypeOK
INVARIANT FreeListExact
INVARIANT PageHasOneOwner
INVARIANT TokensFitPages
PROPERTY ImplementsTokenStore
PROPERTY CallsReturn
