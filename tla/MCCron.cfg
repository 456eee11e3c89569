SPECIFICATION FairSpec
CONSTANTS
    w1 = w1 w2 = w2 all = all one = one
    Worker <- TwoWorkers
    Job <- OneJob
    NoOne = NoOne
    Priority <- MCPriority
    MayDoAll <- MCDoAll
    Number <- Unlimited
    MaxFail = 1
    MaxTime = 3
    MaxCrashes = 1
    MaxToggles = 2
    MaxOps = 1
INVARIANTS OneRunner InactiveNeverRuns 
PROPERTIES DueIsServed
CHECK_DEADLOCK FALSE
