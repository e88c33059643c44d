SPECIFICATION FairSpec
CONSTANTS
    Clients = {1, 2}
    Connected = {1, 2}
    Exempt = {}
    Comers = {1, 2}
    Fragile = {1, 2}
    Ops <- ControlOps
    Backlog = 1
    Priorities = {0}
    Smart = FALSE
    WordBits = 2
PROPERTY ExemptGetTurnsToo
