CONSTANTS
    MaxSpawns = 3
    Client = "serial"
SPECIFICATION FairSpec
INVARIANTS KernelsAreOwned
PROPERTIES StopReachesItsKernel CrashIsReported
CHECK_DEADLOCK FALSE
