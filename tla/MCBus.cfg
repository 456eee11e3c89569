SPECIFICATION FairSpec
CONSTANTS
    c1 = c1
    r1 = r1
    r2 = r2
    s1 = s1
    s2 = s2
    a = a
    b = b
    NoOne = NoOne
    Nothing = Nothing
    Orphan = Orphan
    Client <- OneClient
    Request <- TwoRequests
    Sender <- OneSender
    Channel <- TwoChannels
    channelsOf <- AllChannels
    MaxId = 2
    MaxFaults = 1
INVARIANTS Awakened NothingLeaks Unread
PROPERTY CatchesUp
