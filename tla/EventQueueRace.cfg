SPECIFICATION Spec
CONSTANTS
    s0 = s0
    QSize = 4
    Screens = {s0}
    FirstScreen = s0
    Times = {1}
    BootTime = 1
    Window = 10
    MaxPosts = 3
    HasTimeout = FALSE
INVARIANT PointerFollowed
