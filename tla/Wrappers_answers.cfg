SPECIFICATION Spec
CONSTANTS
    a1 = a1 a2 = a2 t1 = t1 t2 = t2 s1 = s1 f1 = f1
    Address = {a1, a2}
    Thread = {t1, t2}
    StackTrace = {s1}
    Fingerprint = {f1}
    NULL = NULL
    NoRecord = NoRecord
    Size <- SixteenSizes
    FingerprintOf <- OneFingerprint
    PageSize = 2
    UIntModulus = 8
    SizeModulus = 16
    Count = {0, 2, 4, 6}
    TimeForAllocationToBecomeSuspicious = 1
    CloselyWatchedAllocationsAccessMaxInterval = 1
    EnoughSamplesToProveNoLeak = 1
    MaxLiveCloselyWatchedAllocationsPerTrace = 1
    GlobalMaxLiveCloselyWatchedAllocations = 1
    MaxCalls = 3
SYMMETRY AddressAndThreadSymmetry
INVARIANTS TypeOK NullMeansRefused HeldBlocksAreWhole AnswersAreWhole
PROPERTY FreedSamplesAreReleased
