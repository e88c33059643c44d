SPECIFICATION FairSpec
CONSTANTS
    Clients = {1, 2}
    Connected = {1, 2}
    Exempt = {}
    Comers = {1, 2}
    Fragile = {}
    Ops <- RoundsOps
    Backlog = 1
    Priorities = {0, 1}
    Smart = FALSE
    WordBits = 2
INVARIANTS TypeOK GrabInv
PROPERTY AllGetTurns
