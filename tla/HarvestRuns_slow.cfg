SPECIFICATION Spec
CONSTANTS
    Submissions = {s1, s2}
    Chunks <- MCChunks
    InitialStore <- MCStore
    Final <- MCFinal
    SlowAttempts = TRUE
    MaxAttempts = 3
    MaxDuplicates = 1
    MaxFaults = 0
INVARIANT ChunkIsCountedOnce
CHECK_DEADLOCK FALSE
