CONSTANTS
    Retrievers = {a, b}
    d1 = d1
    d2 = d2
    d3 = d3
    Docs = {d1, d2, d3}
    Dim <- MCDim
    Selected = {d1}
    Hybrid = TRUE
    WordLengths = {1, 2, 4, 7}
    DocLengths = {0, 3, 5, 9}
    ChunkSize = 6
    Overlap = 3
    Texts <- MCTexts
    Budget = 8
    Contexts <- MCContexts
SPECIFICATION RagSpec
INVARIANT ChunksFit
CHECK_DEADLOCK FALSE
