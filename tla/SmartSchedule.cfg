\* Two clients, one of which the user works with.
SPECIFICATION FairSpec
CONSTANTS
    Clients = {1, 2}
    Users = {1}
    Penalties = 1
    MaxPriority = 1
    Interval = 1
    MaxSlice = 2
    Long = 1
INVARIANTS TypeOK NotOvertaken
PROPERTY NormalServed
