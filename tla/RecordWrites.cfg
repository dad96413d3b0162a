SPECIFICATION FairSpec
CONSTANTS
    Saves = {s1, s2}
    Workers = {w1, w2}
    NoSave = NoSave
    NoWorker = NoWorker
    Hooks = TRUE
    Attempts = 2
    MaxLapses = 1
INVARIANTS TypeOK
PROPERTIES
    BackgroundKeepsRecord
    TransitionsSeeNewerSaves
    LastSaveIsMirrored
CHECK_DEADLOCK FALSE
