SPECIFICATION Spec
CONSTANTS
    Clients = {1, 2}
    Connected = {1}
    Exempt = {}
    Comers = {1, 2}
    Fragile = {1, 2}
    Ops <- SmartOps
    Backlog = 2
    Priorities = {0}
    Smart = TRUE
    WordBits = 2
INVARIANTS AsideIgnored OthersHeard BufferedKnown ClosedForgotten
PROPERTY KeepsPromise
