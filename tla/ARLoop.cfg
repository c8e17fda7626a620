CONSTANTS
    Calls = {c1,c2}
    Visits = {h1}
    MaxOps = 2
    MaxCrashes = 2
    MaxVisits = 2
SPECIFICATION FairLoop
INVARIANTS ReconnectsAreBounded
PROPERTIES ReconnectNeedsCrash LoopEnds
CHECK_DEADLOCK FALSE
