SPECIFICATION FairSpec
CONSTANTS
    d1 = d1
    d2 = d2
    p1 = p1
    p2 = p2
    p3 = p3
    Disks = {d1, d2}
    Parts = {p1, p2, p3}
    DiskOf <- MCDiskOf
    FirstPart <- MCFirstPart
    Requests = {1, 2}
    Calls = {"format", "activate", "erase", "mount", "unmount", "eject", "recover", "backup_mount", "backup_unmount"}
    InitFs <- MCInitFs
    InitMarked = {p1}
    Mishaps = {"slow", "fail", "stall", "crash", "power"}
    MaxCrashes = 1
    Nobody = Nobody
INVARIANTS
    OneFormatter
    NothingWipedInUse
    StateAgrees
    StrangersNotServed
PROPERTIES
    JobsEnd
CHECK_DEADLOCK FALSE
