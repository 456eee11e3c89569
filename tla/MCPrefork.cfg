SPECIFICATION ServerFairSpec
CONSTANTS
    Pid = {1, 2, 3}
    NoPid = 0
    HttpEnable = TRUE
    Population = 1
    MaxCron = 1
    Watched = {"http"}
    QueueLimit = 5
    UserSignals = {"TERM", "HUP", "TTOU"}
    MaxSignals = 2
INVARIANT ChildrenAreKnown
PROPERTIES  WorkersEnd
CHECK_DEADLOCK FALSE
