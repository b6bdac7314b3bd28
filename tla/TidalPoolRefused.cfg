SPECIFICATION Spec
CONSTANTS
    r1 = r1
    r2 = r2
    Accounts <- MCAccounts
    Changing <- MCChanging
    Requests <- MCRequests
    Scenarios <- MCRefused
    Sizes <- MCSizes
    BatchSize = 2
    GatherLimit = 2
    Tries = 2
PROPERTY RefusedAccountsLeave
CHECK_DEADLOCK FALSE
