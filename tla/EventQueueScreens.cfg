SPECIFICATION Spec
CONSTANTS
    s1 = s1
    s0 = s0
    QSize = 3
    Screens = {s0, s1}
    FirstScreen = s0
    Times = {1}
    BootTime = 1
    Window = 10
    MaxPosts = 4
    HasTimeout = FALSE
INVARIANT QueueInv
PROPERTY DeliveredInOrder
