SPECIFICATION Spec
CONSTANTS
    a1 = a1 a2 = a2 a3 = a3 t1 = t1 t2 = t2 s1 = s1 s2 = s2 f1 = f1
    Address = {a1, a2}
    Thread = {t1}
    StackTrace = {s1}
    Fingerprint = {f1}
    NULL = NULL
    NoRecord = NoRecord
    Size = {1}
    FingerprintOf <- CollidingFingerprints
    PageSize = 2
    UIntModulus = 8
    TimeForAllocationToBecomeSuspicious = 1
    CloselyWatchedAllocationsAccessMaxInterval = 1
    LeakReportInterval = 1
    EnoughSamplesToProveNoLeak = 1
    MaxLiveCloselyWatchedAllocationsPerTrace = 1
    GlobalMaxLiveCloselyWatchedAllocations = 1
    AutoStart = FALSE
    OtherProcesses = TRUE
    MaxCalls = 3
    Horizon = 0
PROPERTY LeaksAreOldLiveBlocks
