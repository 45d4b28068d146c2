\* Three uploads whose names, contents and modes may collide, with deletes, repairs
\* and one power loss: enough to fill a part and to open the next.
CONSTANTS
    Writers = {u1, u2, u3}
    FileNames <- MCFileNames
    Limit = 2
    MaxParts = 2
    Allow = {}
    Contents = {"x", "y"}
    Offers <- MCOffers
    Chunks = 1
    Overlap = FALSE
    MaxPowerLosses = 1
    Nothing = Nothing
    Hole = Hole
SPECIFICATION Spec
INVARIANTS AckedIntact IndexTruth NoLateDuplicate DirWithinLimit CountCovers
SYMMETRY MCSymmetry
CHECK_DEADLOCK FALSE
