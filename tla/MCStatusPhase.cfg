CONSTANTS
    c1 = c1  c2 = c2  own = own  other = other  None = None
    Cluster = {c1}
    Namespace = {own, other}
    OwnNamespace = own
    MayMiss = {}
    UserOps = {"exporter", "deleteCr"}
    MaxOps = 2
    MaxFaults = 1
SPECIFICATION Spec
INVARIANTS ReadyMeansProvisioned
CHECK_DEADLOCK FALSE
