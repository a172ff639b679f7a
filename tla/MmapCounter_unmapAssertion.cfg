SPECIFICATION Spec
CONSTANTS
    t1 = t1 t2 = t2 s1 = s1 s2 = s2
    Thread = {t1, t2}
    StackTrace = {s1, s2}
    PageSize = 2
    LowestPage = 8
    PageCount = 4
    Size = {1, 4}
    UIntModulus = 8
    Top = 99
    StackFilter = {1}
    MaxCalls = 4
SYMMETRY ThreadAndTraceSymmetry
INVARIANT LoggedUnmapAlwaysErases
