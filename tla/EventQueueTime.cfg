SPECIFICATION Spec
CONSTANTS
    s0 = s0
    QSize = 3
    Screens = {s0}
    FirstScreen = s0
    Times = {2, 3}
    BootTime = 1
    Window = 10
    MaxPosts = 3
    HasTimeout = FALSE
PROPERTY TimesForward
