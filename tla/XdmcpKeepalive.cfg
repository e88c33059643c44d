\* MANAGE is sent again before the session begins.
SPECIFICATION Spec
CONSTANTS
    MaxSessions = 2
    Capacity = 2
    XDM_RTX_LIMIT = 3
    XDM_KA_RTX_LIMIT = 2
CHECK_DEADLOCK FALSE
INVARIANT KeepalivesStartFresh
