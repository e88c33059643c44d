\* Two clients, which may draw into the same window or into two.
SPECIFICATION FairSpec
CONSTANTS
    Procs = {server, c1, c2}
    Server = server
    None = None
    Windows = {w1, w2}
    Entries = 2
    MaxChanges = 2
    Rebinds = FALSE
    Patient = TRUE
INVARIANTS NoStaleDrawing LocksAgree AwayKeepsLock
PROPERTY ServerGoesOn
