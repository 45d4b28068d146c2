\* Writers come back for any number of slots, and a repair may begin at any time.
CONSTANTS
    Writers = {w1, w2}
    FileNames = {f1, f2, f3}
    Limit = 1
    MaxParts = 2
    Allow = {"repair_races"}
SPECIFICATION BucketSpec
INVARIANT LimitDespiteRepair
CHECK_DEADLOCK FALSE
