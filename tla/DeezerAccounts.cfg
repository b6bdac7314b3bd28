SPECIFICATION FairSpec
CONSTANTS
    None = None
    Accounts = {a1, a2}
    Requests = {r1}
    Managed = {a1}
    Wants = {"lossless"}
    MaxChanges = 1
    MaxEdits = 1
 
PROPERTIES DeactivationSticks LostAccountLeaves PoolFollowsTable 
CHECK_DEADLOCK FALSE
