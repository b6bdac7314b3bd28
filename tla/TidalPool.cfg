SPECIFICATION Spec
CONSTANTS
    r1 = r1
    r2 = r2
    Accounts <- MCAccounts
    Changing <- MCChanging
    Requests <- MCRequests
    Scenarios <- MCScenarios
    Sizes <- MCSizes
    BatchSize = 2
    GatherLimit = 2
    Tries = 2
INVARIANTS
    NoGoodAccountOverlooked
    PaidStaysPaid
    NoAnswerLost
PROPERTIES
    
    TierFollowsPlan
CHECK_DEADLOCK FALSE
