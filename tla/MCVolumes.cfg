CONSTANTS
    c1 = c1  c2 = c2  v1 = v1  v2 = v2  s1 = s1  s2 = s2  x1 = x1  x2 = x2  y = y
    a1 = a1  a2 = a2  i1 = i1  i2 = i2  p1 = p1
    None = None  NoAddr = NoAddr  EmptyPool = EmptyPool  InheritPool = InheritPool  Error = Error
    Cluster = {c1, c2}
    Volume = {v1, v2}
    StorageClass = {s1, s2}
    Secret = {x1, x2, y}
    FscSecretName = {x1, x2}
    Addr = {a1, a2}
    MgmtId = {i1, i2}
    Pool = {p1}
    ClassOf <- OneClassEach
    IdOf <- SecondId
    ScParams <- Classes
    FscSecrets <- Secrets
    SecretDatas <- Moving
    MayMiss = {c2}
    UserOps = {"createPv", "deletePv", "relabelPv", "bindPv", "createFsc", "updateFsc", "deleteFsc", "setSecret", "deleteSecret", "deleteClaim", "createClass", "deleteClass", "restart", "fault"}
    MaxOps = 2
SPECIFICATION FairSpec
INVARIANTS TypeOK LabelSettled
PROPERTIES VolumesKept LabelsConverge
CHECK_DEADLOCK FALSE
