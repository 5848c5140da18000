CONSTANTS
    NSeqs = 1
    PromptLengths = {1}
    NPredict = 4
    NLayers = 2
    TotalPages = 12
    PageSize = 2
SPECIFICATION Spec
PROPERTY DecodeAddsToken
