\* Three clients; safety only.
SPECIFICATION Spec
CONSTANTS
    Clients = {1, 2, 3}
    Users = {3}
    Penalties = 1
    MaxPriority = 1
    Interval = 1
    MaxSlice = 1
    Long = 0
INVARIANTS TypeOK NotOvertaken
