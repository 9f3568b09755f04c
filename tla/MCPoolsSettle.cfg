CONSTANTS
    c1 = c1  c2 = c2  s1 = s1  x1 = x1  x2 = x2  y = y
    a1 = a1  a2 = a2  i1 = i1  i2 = i2  p1 = p1  p2 = p2
    None = None  NoAddr = NoAddr  EmptyPool = EmptyPool  InheritPool = InheritPool
    Error = Error  PoolsKey = PoolsKey
    Cluster = {c1, c2}
    StorageClass = {s1}
    Secret = {x1, x2, y}
    FscSecretName = {x1, x2}
    Addr = {a1, a2}
    MgmtId = {}
    Pool = {p1}
    LegacyPools = {}
    FscSecrets <- OwnSecret
    ScParams <- MovingClass
    SecretDatas <- MovingSecrets
    DefaultClass <- DefaultOfC1
    MayMiss = {c2}
    UserOps = {"createFsc", "deleteFsc", "terminateSc", "deleteSc", "setSecret", "deleteCm"}
    NameReuse = FALSE
    MaxOps = 2
    MaxFaults = 0
SPECIFICATION Spec
INVARIANTS LiveScRecorded DeadScForgotten LiveFscListed DeadFscForgotten
PROPERTIES EntryKept
CHECK_DEADLOCK FALSE
