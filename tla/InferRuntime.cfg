CONSTANTS
    NSeqs = 1
    PromptLengths = {2, 3, 4, 5, 6, 7}
    NPredict = 5
    NLayers = 3
    TotalPages = 18
    PageSize = 3
SPECIFICATION FairSpec
INVARIANT TypeOK
INVARIANT AttentionSeesContext
PROPERTY DecodeAddsToken
PROPERTY InferReturns
