SPECIFICATION Spec
CONSTANTS
    MaxClients = 4
    Modes = {"destroy", "permanent"}
    MaxLost = 1
    Requests = {}
    AtReset = {"reset"}
INVARIANT UncountedStayOut
CHECK_DEADLOCK FALSE
