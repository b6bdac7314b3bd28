CONSTANTS
    r1 = r1
    r2 = r2
    r3 = r3
    t1 = t1
    t2 = t2
    Requests <- MCRequests
    Tracks <- MCTracks
    Wanted <- MCWanted
    NoOne = NoOne
    Failed = Failed
    Switches = 1
SPECIFICATION Spec
INVARIANT RightStreamAlways
CHECK_DEADLOCK FALSE
