\* Two keys' worth of interference is in the two users of one key; the requests
\* are three so that a retry can overlap a request and its own retry.
CONSTANTS
    Keys = {k1}
    Users = {alice, bob}
    Requests = {r1, r2, r3}
    Stale = 2
    Ttl = 3
    MaxCopies = 3
    MaxCrashes = 2
    HolderOutlivesClaim = FALSE
    NoRow = NoRow
    NoReq = NoReq
    NoResp = NoResp
    Unreadable = Unreadable
SPECIFICATION FairSpec
INVARIANTS OneWorker AnswersHold StoredOnce
PROPERTIES OrphanRecovers ImplementsClaim
