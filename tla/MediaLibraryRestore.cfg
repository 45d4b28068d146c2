\* Two uploads, a delete and a restore.
CONSTANTS
    x = x
    y = y
    Contents = {x, y}
    Stock <- MCStock
    Uploads = {u1, u2}
    Calls = {"delete", "restore"}
    MaxCalls = 2
    MaxItems = 1
    Quota = 1
    Absent = Absent
    NoEntry = NoEntry
SPECIFICATION Spec
PROPERTY RestoreOnlyAdds
CHECK_DEADLOCK FALSE
