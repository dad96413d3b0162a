SPECIFICATION FairSpec
CONSTANTS
    Submissions = {s1, s2}
    Chunks <- MCChunks
    InitialStore <- MCStore
    Final <- MCFinal
    SlowAttempts = FALSE
    MaxAttempts = 3
    MaxDuplicates = 1
    MaxFaults = 2
INVARIANTS
    TypeOK
    OneAttemptStands
    EveryRecordReportedOnce
    ReportedIsStored
    StoredIsReported
    NoSecondRecord
    RunCountsReported
    CompletedIsClean
PROPERTY
    EveryChunkIsProcessed
CHECK_DEADLOCK FALSE
