\* A library of one file, one upload that may be of the same bytes, and any two
\* calls of clients, changes over SMB or crashes, beside any number of passes.
CONSTANTS
    x = x
    y = y
    Contents = {x, y}
    Stock <- MCStock
    Uploads = {u1}
    Calls = {"delete", "delete_folder", "rename", "restore", "erase", "smb", "crash"}
    MaxCalls = 2
    MaxItems = 2
    Quota = 1
    Absent = Absent
    NoEntry = NoEntry
SPECIFICATION Spec
INVARIANTS BytesListed NothingLost UploadedIsLive DeletedIsHidden CaughtUp
CHECK_DEADLOCK FALSE
