\* Four processes (one of them the server, which locks like the others):
\* a holder, two sleepers and one that takes the lock
\* between them.
SPECIFICATION FairSpec
CONSTANTS
    Procs = {p1, p2, p3, p4}
    Server = p1
    None = None
INVARIANTS HeldOnce OwnerIsKnown NoLostWakeup
PROPERTIES SleeperWakes ImplementsHwLock
