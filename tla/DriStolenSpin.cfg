\* A client stopped while it holds the spin lock has it stolen.
SPECIFICATION FairSpec
CONSTANTS
    Procs = {server, c1, c2}
    Server = server
    None = None
    Windows = {w1}
    Entries = 2
    MaxChanges = 1
    Rebinds = FALSE
    Patient = FALSE
\* The server's loop on the lock that was freed under it is its last step.
CHECK_DEADLOCK FALSE
PROPERTY ServerGoesOn
