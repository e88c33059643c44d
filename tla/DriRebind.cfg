\* A client that makes one window current, then the other, then the first.
SPECIFICATION Spec
CONSTANTS
    Procs = {server, c1}
    Server = server
    None = None
    Windows = {w1, w2}
    Entries = 2
    MaxChanges = 2
    Rebinds = TRUE
    Patient = TRUE
INVARIANT NoStaleDrawing
