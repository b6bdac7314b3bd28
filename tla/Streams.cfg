SPECIFICATION StreamsSpec
CONSTANTS
    s1 = s1
    s2 = s2
    r1 = r1
    r2 = r2
    r3 = r3
    t1 = t1
    t2 = t2
    NoOne = NoOne
    Failed = Failed
    Inputs <- OrdinaryPlaylists
    Workers = {w1, w2}
    QueueCap = 2
    ResultCap = 2
    Plans <- MCPlans
    PipeCap = 2
    Sessions <- MCSessions
    Scenarios <- MCScenarios
    Fetchers = {1, 2}
    Ahead = 2
    Requests <- MCRequests
    Tracks <- MCTracks
    Wanted <- MCWanted
    Switches = 1
INVARIANTS DeliveredInOrder SentInOrder  RightStream
PROPERTIES KeepsPromise SilentAfterReturn CallsReturn
CHECK_DEADLOCK FALSE
