SPECIFICATION Spec
CONSTANTS
    Clients = {1, 2, 3}
    Connected = {1, 2, 3}
    Exempt = {2, 3}
    Comers = {1, 2, 3}
    Fragile = {1, 2, 3}
    Ops <- KillOps
    Backlog = 1
    Priorities = {0}
    Smart = TRUE
    WordBits = 2
INVARIANT WaitersHaveHope
