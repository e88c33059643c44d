SPECIFICATION FairSpec
CONSTANTS
    MaxClients = 4
    Modes = {"destroy", "temporary", "permanent"}
    MaxLost = 1
    Requests = {"terminate"}
    AtReset = {"reset"}
INVARIANTS TableInv NothingSurvives
PROPERTIES NoTakeover LastOneResets ResetComes
CHECK_DEADLOCK FALSE
