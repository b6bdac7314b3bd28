SPECIFICATION Spec
CONSTANTS
    r1 = r1
    r2 = r2
    r3 = r3
    ann = ann
    bob = bob
    NoOne = NoOne
    Providers = {"td", "dz", "yt"}
    PageSize = 2
    Users <- MCUsers
    Requests <- MCRequests
    Plans <- MCShared
INVARIANT StarsAreYours
CHECK_DEADLOCK FALSE
