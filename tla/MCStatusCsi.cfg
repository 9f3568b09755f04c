CONSTANTS
    c1 = c1  c2 = c2  own = own  other = other  None = None
    Cluster = {c1}
    Namespace = {own, other}
    OwnNamespace = own
    MayMiss = {}
    UserOps = {"deleteCr"}
    MaxOps = 1
    MaxFaults = 0
SPECIFICATION Spec
INVARIANTS DriverLaunched
CHECK_DEADLOCK FALSE
