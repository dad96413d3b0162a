SPECIFICATION ScheduledSpec
CONSTANTS
    Workers = {w1, w2}
    Operators = {}
    MaxAttempts = 2
    SourceKinds = {"sync"}
    Hosting = {FALSE}
    Categories = {"transient"}
    MaxGeneration = 1
    MaxRequests = 1
    MaxJobs = 1
    MaxStops = 1
PROPERTIES
    OwedSyncIsAttempted
    OwedSyncSettles
CHECK_DEADLOCK FALSE
