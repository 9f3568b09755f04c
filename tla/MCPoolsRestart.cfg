CONSTANTS
    c1 = c1  c2 = c2  s1 = s1  x1 = x1  x2 = x2  y = y
    a1 = a1  a2 = a2  i1 = i1  i2 = i2  p1 = p1  p2 = p2
    None = None  NoAddr = NoAddr  EmptyPool = EmptyPool  InheritPool = InheritPool
    Error = Error  PoolsKey = PoolsKey
    Cluster = {c1, c2}
    StorageClass = {s1}
    Secret = {x1, x2, y}
    FscSecretName = {x1, x2}
    Addr = {a1, a2}
    MgmtId = {i1, i2}
    Pool = {p1, p2}
    LegacyPools = {}
    FscSecrets <- OwnSecret
    ScParams <- TopologyClass
    SecretDatas <- TopologySecrets
    DefaultClass <- DefaultOfC1
    MayMiss = {}
    UserOps = {"setSecret", "restart"}
    NameReuse = FALSE
    MaxOps = 2
    MaxFaults = 1
SPECIFICATION Spec
INVARIANTS LiveScRecorded LiveFscListed
CHECK_DEADLOCK FALSE
