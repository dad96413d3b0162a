SPECIFICATION Spec
CONSTANTS
    Workers = {w1, w2}
    Operators = {}
    MaxAttempts = 1
    SourceKinds = {"sync"}
    Hosting = {FALSE}
    Categories = {}
    MaxGeneration = 2
    MaxRequests = 2
    MaxJobs = 1
    MaxStops = 1
SYMMETRY Symmetry
INVARIANTS
    TypeOK
    NoRequestSwallowed
    SettledMeansCurrent
CHECK_DEADLOCK FALSE
