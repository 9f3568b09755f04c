CONSTANTS
    ours = ours
    other = other
    Plugin = ours
    Other = {other}
    UserOps = {"deploy", "version", "touch", "deleteService", "deletePlugin", "list", "stop", "crash", "fault"}
    MaxOps = 3
SPECIFICATION FairSpec
INVARIANTS TypeOK ConsoleSettled
PROPERTIES PluginsKept ConsoleConverges
CHECK_DEADLOCK FALSE
