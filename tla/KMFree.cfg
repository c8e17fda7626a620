CONSTANTS
    Calls = {c1, c2}
    MaxGen = 2
    TerminalMisses = 2
    Launcher = "remote"
    GuardSettings = {TRUE, FALSE}
    Client = "free"
SPECIFICATION Spec
INVARIANTS HandleHeldOnce
PROPERTIES GuardStaysInConnected
SYMMETRY CallSymmetry

