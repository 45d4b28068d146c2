------------------------------- MODULE StorageMC -------------------------------
\* A drive that was used before, one of a stranger, and a second partition on it.
EXTENDS Storage

CONSTANTS d1, d2, p1, p2, p3

MCDiskOf == p1 :> d1 @@ p2 :> d2 @@ p3 :> d2
MCFirstPart == d1 :> p1 @@ d2 :> p2
MCInitFs == p1 :> "ext4" @@ p2 :> "ext4" @@ p3 :> "other"
=============================================================================
