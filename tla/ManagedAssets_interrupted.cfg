SPECIFICATION FairSpec
CONSTANTS
    Workers = {w1, w2}
    Keys = {k1, k2, l}
    Links = {l}
    Selections <- MCSelections
    FirstSelection = {k1}
    FileIds = {1, 2, 3}
    NoWorker = NoWorker
    NoKey = NoKey
    NoFile = 0
    MaxSaves = 0
    MaxFaults = 1
PROPERTY InterruptedIsReported
CHECK_DEADLOCK FALSE
