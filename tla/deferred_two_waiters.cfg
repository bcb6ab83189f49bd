SPECIFICATION Spec
CONSTANTS
    MAX_ONGOING_JOBS = 2
    o1 = o1
    o2 = o2
    o3 = o3
    Objects = {o1, o2}
    RawYuv = FALSE
    MayFail = FALSE
    PastTheEnd = FALSE
PROPERTY WaitReturns
CHECK_DEADLOCK FALSE
