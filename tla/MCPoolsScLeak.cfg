CONSTANTS
    c1 = c1  c2 = c2  s1 = s1  x1 = x1  x2 = x2  y = y
    a1 = a1  a2 = a2  i1 = i1  i2 = i2  p1 = p1  p2 = p2
    None = None  NoAddr = NoAddr  EmptyPool = EmptyPool  InheritPool = InheritPool
    Error = Error  PoolsKey = PoolsKey
    Cluster = {c1}
    StorageClass = {s1}
    Secret = {x1}
    FscSecretName = {x1}
    Addr = {a1}
    MgmtId = {}
    Pool = {p1}
    LegacyPools = {}
    FscSecrets <- OwnSecret
    ScParams <- OneClass
    SecretDatas <- OwnAddress
    DefaultClass <- DefaultOfC1
    MayMiss = {}
    UserOps = {"deleteSc", "restart"}
    NameReuse = FALSE
    MaxOps = 2
    MaxFaults = 0
SPECIFICATION Spec
INVARIANTS DeadScForgotten
CHECK_DEADLOCK FALSE
