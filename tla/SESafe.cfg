CONSTANTS
    Accounts = {a, b}
    Cmds = {c1}
    None = None
    Users = {"careful"}
    MaxSignins = 2
    MaxLaunches = 3
SPECIFICATION FairSpec
INVARIANTS SessionIsBacked LaunchRestoresSession
PROPERTIES DroppedStaysDropped BootEnds
