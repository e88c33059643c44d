\* Timers wait for as long as buffers hold whole requests.
SPECIFICATION FairSpec
CONSTANTS
    Clients = {1, 2}
    Users = {1}
    Penalties = 1
    MaxPriority = 1
    Interval = 1
    MaxSlice = 2
    Long = 1
PROPERTY TimersRun
