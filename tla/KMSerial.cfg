CONSTANTS
    Calls = {c1}
    MaxGen = 3
    TerminalMisses = 2
    Launcher = "direct"
    GuardSettings = {FALSE}
    Client = "serial"
SPECIFICATION FairSpec
INVARIANTS ProxyReleased KernelHasOwner ConnectedIsKept
PROPERTIES ImplementsLifecycle CrashIsNoticed DeadPortIsReleased ConnectSettles

