CONSTANTS
    NSeqs = 2
    PromptLengths = {2, 3}
    NPredict = 2
    NLayers = 2
    TotalPages = 16
    PageSize = 2
SPECIFICATION Spec
INVARIANT AttentionSeesContext
