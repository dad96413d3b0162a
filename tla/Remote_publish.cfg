SPECIFICATION Spec
CONSTANTS
    Workers = {w1}
    Operators = {op}
    Curated = {TRUE, FALSE}
    ByHand = TRUE
    Republish = TRUE
    Late = {"publish"}
    MaxGeneration = 2
    MaxRequests = 2
    MaxArticles = 1
    MaxSubmissions = 2
    MaxVersion = 2
    MaxStops = 1
INVARIANTS
    NeverResubmitted
    ObservedIsPublic
    CheckpointIsAtFigshare
CHECK_DEADLOCK FALSE
