\* The same program when two uploads of one name may be in flight together.
CONSTANTS
    Writers = {u1, u2}
    FileNames <- MCFileNames
    Limit = 2
    MaxParts = 2
    Allow = {}
    Contents = {"x", "y"}
    Offers <- MCColliding
    Chunks = 1
    Overlap = TRUE
    MaxPowerLosses = 0
    Nothing = Nothing
    Hole = Hole
SPECIFICATION Spec
INVARIANT AckedIntact
CHECK_DEADLOCK FALSE
