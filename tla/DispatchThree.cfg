SPECIFICATION Spec
CONSTANTS
    Clients = {1, 2, 3}
    Connected = {1, 2}
    Exempt = {}
    Comers = {1, 2, 3}
    Fragile = {2}
    Ops <- HoldOps
    Backlog = 1
    Priorities = {0}
    Smart = TRUE
    WordBits = 2
PROPERTY KeepsPromise
