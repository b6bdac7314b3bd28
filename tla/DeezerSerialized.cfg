SPECIFICATION Spec
CONSTANTS
    None = None
    Accounts = {a1}
    Requests = {r1, r2, r3}
    Managed = {a1}
    Wants = {"lossless", "lossy"}
    MaxChanges = 1
    MaxEdits = 0
INVARIANT DownloadsSerialized
CHECK_DEADLOCK FALSE
