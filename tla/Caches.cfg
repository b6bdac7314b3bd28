SPECIFICATION MCSpec
CONSTANTS
    Keys = {k1, k2, k3}
    Values = {v1, v2}
    Clients = {c1}
    Zero = none
    MaxSize = 2
    MaxTTL = 1
    DefaultTTL = 1
    t1 = t1
    a1 = a1
    Tracks = {t1}
    Albums = {a1}
    Requests <- MCRequests
    MaxVersion = 1
    MaxFetches = 2
    MaxClears = 1
    MayFail = TRUE
    MayForget = TRUE
INVARIANTS ListMatchesMap NothingBufferedIsLost 
PROPERTIES KeepsPromise ExpiredEntriesLeave BufferReachesDisk
