SPECIFICATION FairSpec
CONSTANTS
    s0 = s0
    QSize = 3
    Screens = {s0}
    FirstScreen = s0
    Times = {1}
    BootTime = 1
    Window = 10
    MaxPosts = 5
    HasTimeout = TRUE
INVARIANT KeysKept
PROPERTIES RefinesStream KeyReachesDevice
