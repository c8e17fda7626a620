CONSTANTS
    Users = {u1}
    Admins = {u1}
    Conns = {c1}
    Kernels = {k1, k2}
    None = None
    Platforms = {"helper"}
    MaxOps = 5
    MaxEvents = 0
SPECIFICATION Spec
PROPERTIES RestartIsServed
CHECK_DEADLOCK FALSE
