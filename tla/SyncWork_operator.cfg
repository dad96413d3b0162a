SPECIFICATION Spec
CONSTANTS
    Workers = {w1}
    Operators = {op}
    MaxAttempts = 1
    SourceKinds = {"sync", "cleanup"}
    Hosting = {TRUE}
    Categories = {"repair"}
    MaxGeneration = 1
    MaxRequests = 2
    MaxJobs = 1
    MaxStops = 1
INVARIANTS
    NoRequestSwallowed
CHECK_DEADLOCK FALSE
