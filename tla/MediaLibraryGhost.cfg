\* A folder is deleted through the app; one of its files is uploaded again.
CONSTANTS
    x = x
    y = y
    Contents = {x, y}
    Stock <- MCStock
    Uploads = {u1}
    Calls = {"delete_folder"}
    MaxCalls = 1
    MaxItems = 2
    Quota = 1
    Absent = Absent
    NoEntry = NoEntry
SPECIFICATION Spec
PROPERTY DuplicateIsThere
CHECK_DEADLOCK FALSE
