SPECIFICATION Spec
CONSTANTS
    Clients = {1, 2}
    Connected = {1, 2}
    Exempt = {1}
    Comers = {1, 2}
    Fragile = {1, 2}
    Ops <- GrabOps
    Backlog = 1
    Priorities = {0}
    Smart = TRUE
    WordBits = 2
PROPERTY OnlyHolderReleases
