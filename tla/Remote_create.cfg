SPECIFICATION Spec
CONSTANTS
    Workers = {w1, w2}
    Operators = {op}
    Curated = {FALSE}
    ByHand = FALSE
    Republish = TRUE
    Late = {"create"}
    MaxGeneration = 1
    MaxRequests = 2
    MaxArticles = 2
    MaxSubmissions = 1
    MaxVersion = 1
    MaxStops = 1
SYMMETRY Symmetry
INVARIANTS
    TypeOK
    OneArticle
CHECK_DEADLOCK FALSE
