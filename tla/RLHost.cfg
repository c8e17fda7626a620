CONSTANTS
    Users = {u1, u2}
    Admins = {u1, u2}
    Conns = {c1, c2}
    Kernels = {k1, k2}
    None = None
    Platforms = {"helper", "svc"}
    MaxOps = 3
    MaxEvents = 2
SPECIFICATION FairSpec
INVARIANTS LiveKernelIsHeld OwnKernelOnly
PROPERTIES StopEndsItsKernel CallsEnd
CHECK_DEADLOCK FALSE
