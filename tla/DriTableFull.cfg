\* More windows than entries.
SPECIFICATION Spec
CONSTANTS
    Procs = {server, c1, c2}
    Server = server
    None = None
    Windows = {w1, w2}
    Entries = 1
    MaxChanges = 2
    Rebinds = FALSE
    Patient = TRUE
INVARIANT EntryClaimed
