CONSTANTS
    Nodes = {n1, n2}
    Default = n1
    None = None
    TrafficFails = 2
    HeartbeatFails = 2
    TerminalMisses = 3
    MaxEvents = 4
SPECIFICATION FairSpec
INVARIANTS TypeOK ScreenIsTrue ChoiceHolds
PROPERTIES BannerComesDown
CHECK_DEADLOCK FALSE
