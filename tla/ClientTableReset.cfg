SPECIFICATION Spec
CONSTANTS
    MaxClients = 4
    Modes = {"destroy", "permanent"}
    MaxLost = 0
    Requests = {"reset"}
    AtReset = {"reset"}
INVARIANT MinFree
CHECK_DEADLOCK FALSE
