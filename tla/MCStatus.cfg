CONSTANTS
    c1 = c1  c2 = c2  own = own  other = other  None = None
    Cluster = {c1, c2}
    Namespace = {own, other}
    OwnNamespace = own
    MayMiss = {c2}
    UserOps = {"createFsc", "deleteFsc", "createCr", "deleteCr", "exporter", "restart"}
    MaxOps = 2
    MaxFaults = 1
SPECIFICATION FairSpec
INVARIANTS TypeOK PhaseSettled FlagSettled
PROPERTIES ReportsKept StatusConverges StatusRests
CHECK_DEADLOCK FALSE
