SPECIFICATION OperatedSpec
CONSTANTS
    Workers = {w1, w2}
    Keys = {k1, k2, l}
    Links = {l}
    Selections <- MCSelections
    FirstSelection = {k1}
    FileIds = {1, 2, 3}
    NoWorker = NoWorker
    NoKey = NoKey
    NoFile = 0
    MaxSaves = 2
    MaxFaults = 2
INVARIANTS
    TypeOK
    UploadersAreAlone
    OneFilePerKey
    DoneIsMirrored
PROPERTIES
    DeletesAreDeselected
    MirrorSettles
CHECK_DEADLOCK FALSE
