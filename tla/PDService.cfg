CONSTANTS
    Conns = {c1, c2}
    Kernels = {k1, k2, k3}
    NoKernel = NoKernel
    Daemon = "svc"
    Clients = {"patient", "impatient"}
    MayStop = TRUE
SPECIFICATION FairSpec
INVARIANTS NoKernelIsLost NoKernelOutlivesDaemon HandoverIsClean
PROPERTIES EveryRequestEnds
CHECK_DEADLOCK FALSE
