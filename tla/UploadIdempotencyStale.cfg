\* The same program when a request may outlive its claim.
CONSTANTS
    Keys = {k1}
    Users = {alice}
    Requests = {r1, r2}
    Stale = 1
    Ttl = 2
    MaxCopies = 2
    MaxCrashes = 0
    HolderOutlivesClaim = TRUE
    NoRow = NoRow
    NoReq = NoReq
    NoResp = NoResp
    Unreadable = Unreadable
SPECIFICATION Spec
INVARIANT StoredOnce
CHECK_DEADLOCK FALSE
