CONSTANTS
    Accounts = {a, b}
    Calls = {c1, c2}
    None = None
    Users = {"patient"}
    MaxTuns = 2
    MaxTaps = 3
    MaxFaults = 1
    MaxLaunches = 2
SYMMETRY Symmetry
SPECIFICATION Spec
INVARIANT NoStrandedTunnel
CHECK_DEADLOCK FALSE
