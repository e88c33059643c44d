SPECIFICATION FairSpec
CONSTANTS
    MaxSessions = 2
    Capacity = 2
    XDM_RTX_LIMIT = 3
    XDM_KA_RTX_LIMIT = 2
\* The display may exit.
CHECK_DEADLOCK FALSE
INVARIANTS TimerRuns SessionHasSocket StartedOnce
PROPERTY AgreementReached
