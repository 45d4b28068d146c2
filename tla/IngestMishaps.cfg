\* Two uploads, with everything that can go wrong around them.
CONSTANTS
    Writers = {u1, u2}
    FileNames <- MCFileNames
    Limit = 1
    MaxParts = 2
    Allow = {"repair_races", "index_fails", "out_of_band"}
    Contents = {"x", "y"}
    Offers <- MCMoreOffers
    Chunks = 2
    Overlap = TRUE
    MaxPowerLosses = 1
    Nothing = Nothing
    Hole = Hole
SPECIFICATION Spec
INVARIANT AckedIntactApart
SYMMETRY MCSymmetry
CHECK_DEADLOCK FALSE
