CONSTANTS
    c1 = c1  c2 = c2  shared = shared  gold = gold  p1 = p1  p2 = p2  None = None
    Cluster = {c1, c2}
    Secret = {shared}
    SecretOf <- OneSecret
    ClassName = {gold}
    Pool = {p1, p2}
    UserClasses <- Foreign
    DefaultPools <- OneName
    Present = {c1}
    Kind = {"deployment", "monitor"}
    OldKinds = {"monitor"}
    UserOps = {"createFsc", "deleteFsc", "createSecret", "deleteSecret", "editObject", "deleteObject", "createClass", "deleteClass", "editRule", "deleteRule", "restart", "fault"}
    MaxOps = 2
SPECIFICATION Spec
INVARIANTS TypeOK ExporterSettled SecretSettled DefaultClassSettled RuleSettled
PROPERTIES OwnersKept
CHECK_DEADLOCK FALSE
