CONSTANTS
    c1 = c1
    c2 = c2
    a = a
    b = b
    NoName = NoName
    Calls = {c1, c2}
    Accounts = {a, b}
    MaxRetries = 1
    Scenarios <- Scenarios1
SPECIFICATION Spec
INVARIANTS ProfileIsGranted CacheIsNotEmptied MihomoConfigIsRight SingboxConfigIsRight
PROPERTIES RunsOwnConfig
