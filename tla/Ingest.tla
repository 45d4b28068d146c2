------------------------------- MODULE Ingest --------------------------------
(***************************************************************************)
(* The writer every upload goes through: ingest() and stream_to_temp() of  *)
(* ingest.py, with _unique_dest() and _sort_file() of file_sorter.py, the  *)
(* dedup lookup and record_entry() of media_index.py, and the allocator of *)
(* BucketAllocator, whose writers the uploads are.                         *)
(*                                                                         *)
(* Handlers are coroutines of one event loop: a step is what runs between  *)
(* two awaits, or the work of one executor thread.  An inode is named by   *)
(* the upload that created it; its data is one value per chunk, so that    *)
(* two uploads that write to the same inode can be told apart.  All files  *)
(* are of one scope and owner, the extent of a dedup lookup, and of one    *)
(* category and month, the extent of the allocator.                        *)
(***************************************************************************)
EXTENDS BucketAllocator

CONSTANTS
    Contents,       \* what a file can contain (equal hashes are equal contents)
    Offers,         \* the uploads that may be made
    Chunks,         \* number of chunks of a file
    Overlap,        \* may two uploads in flight have names of one stem?
    MaxPowerLosses  \* bound

CONSTANTS Nothing, Hole     \* no inode, no hash, no path; bytes never written

\* Directories: those of the parts, the category's own, which an automatic
\* upload streams to, the inbox, and one a user may name as the destination.
Category == 0
Inbox == MaxParts + 1
Manual == MaxParts + 2
Dirs == 0..MaxParts + 2
Paths == Dirs \X FileNames

\* A name "a.jpg" is a stem and the suffixes _unique_dest put behind it.
Modes == {"sorted", "mirror", "inbox"}
OfferType == [name : FileNames, content : Contents, mode : Modes, dir : Dirs]

\* _unique_dest() may put one suffix more behind the name of any upload.
Suffixed(n, k) == [n EXCEPT !.tail = Append(@, k)]

ASSUME IngestAssumption ==
    /\ FileNames \subseteq [stem : {n.stem : n \in FileNames}, tail : Seq(Nat)]
    /\ Offers \subseteq OfferType
    /\ \A o \in Offers, k \in 2..Cardinality(Writers) + 1 : Suffixed(o.name, k) \in FileNames
    /\ Nothing \notin Writers
    /\ \A o \in Offers : CASE o.mode = "sorted" -> o.dir = Category
                           [] o.mode = "inbox" -> o.dir = Inbox
                           [] OTHER -> o.dir \in Parts => "out_of_band" \in Allow
    /\ Chunks \in Nat \ {0} /\ MaxPowerLosses \in Nat /\ Overlap \in BOOLEAN

VARIABLES
    pc,       \* where each upload is
    offer,    \* what it uploads
    fd,       \* the inode it writes to
    pos,      \* how many chunks it has written
    dest,     \* the path chosen for it, or found by the dedup lookup
    temp,     \* "<path>.uploading", and the files of the inbox: path -> inode
    file,     \* every other file that exists: path -> inode
    data,     \* the chunks of each inode
    synced,   \* the inodes that survive a power loss
    index,    \* media_index, the live entries: path -> hash
    acked,    \* uploads answered with 201 as stored at dest
    marks,    \* paths a delete has yet to mark in the index
    unmarked, \* paths of entries whose file was taken away since: see IndexTruth
    deleted,  \* uploads whose stored file somebody has taken away
    known,    \* what the index has had since an upload began: see NoLateDuplicate
    overlap,  \* have two uploads in flight had names of one stem?
    losses

vars == <<bucketVars, pc, offer, fd, pos, dest, temp, file, data, synced,
          index, acked, known, marks, unmarked, deleted, overlap, losses>>

\* What only a delete, a mark and the end of an upload change.
removals == <<marks, unmarked, deleted>>

Empty == [k \in 1..Chunks |-> Hole]

Init == /\ BucketInit
        /\ pc = [u \in Writers |-> "new"]
        /\ offer = [u \in Writers |-> Nothing]
        /\ fd = [u \in Writers |-> Nothing]
        /\ pos = [u \in Writers |-> 0]
        /\ dest = [u \in Writers |-> Nothing]
        /\ temp = <<>>
        /\ file = <<>>
        /\ data = [u \in Writers |-> Empty]
        /\ synced = {}
        /\ index = <<>>
        /\ acked = {}
        /\ known = [u \in Writers |-> {}]
        /\ marks = {}
        /\ unmarked = {}
        /\ deleted = {}
        /\ overlap = FALSE
        /\ losses = 0

\* Maps from some of the paths.
At(f, p) == IF p \in DOMAIN f THEN f[p] ELSE Nothing
Put(f, p, x) == [q \in DOMAIN f \cup {p} |-> IF q = p THEN x ELSE f[q]]
Drop(f, p) == [q \in DOMAIN f \ {p} |-> f[q]]

TempPath(u) == <<offer[u].dir, offer[u].name>>
InFlight(u) == pc[u] \notin {"new", "done"}
Holds(i, c) == i # Nothing /\ \A k \in 1..Chunks : data[i][k] = c
InIndex == {index[p] : p \in DOMAIN index}

------------------------------------------------------------------------------
\* Wrong versions of definitions below; the runs' mutants put them in place.

NameAsGiven(d, n) == n
NoHits(u) == {}
NoFsync(i) == synced
RecordBeforeMove == {"picked", "moved"}

------------------------------------------------------------------------------
\* stream_to_temp().  The checks ahead of it (mount, name, path, permission,
\* free space) refuse an upload before anything changes.

Apart(o) == \A v \in Writers : InFlight(v) => offer[v].name.stem # o.name.stem

Start(u, o) == /\ pc[u] = "new"
               /\ Overlap \/ Apart(o)
               /\ overlap' = (overlap \/ ~Apart(o))
               /\ offer' = [offer EXCEPT ![u] = o]
               /\ known' = [known EXCEPT ![u] = InIndex]

\* open(temp_path, "wb") creates the file or truncates the one that is there.
Open(u, o) ==
    /\ Start(u, o) /\ o.mode # "inbox"
    /\ LET tp == <<o.dir, o.name>>
           i == IF tp \in DOMAIN temp THEN temp[tp] ELSE u
       IN  /\ temp' = Put(temp, tp, i)
           /\ fd' = [fd EXCEPT ![u] = i]
           /\ data' = [data EXCEPT ![i] = Empty]
           /\ synced' = synced \ {i}
    /\ pc' = [pc EXCEPT ![u] = "streaming"]
    /\ UNCHANGED <<bucketVars, pos, dest, file, index, acked, removals, losses>>

WriteChunk(u) ==
    /\ pc[u] = "streaming" /\ pos[u] < Chunks
    /\ data' = [data EXCEPT ![fd[u]][pos[u] + 1] = offer[u].content]
    /\ pos' = [pos EXCEPT ![u] = @ + 1]
    /\ synced' = synced \ {fd[u]}
    /\ UNCHANGED <<bucketVars, pc, offer, fd, dest, temp, file, index, acked, known, removals, overlap, losses>>

AfterFsync(i) == synced \cup {i}

StreamEnds(u) ==
    /\ pc[u] = "streaming" /\ pos[u] = Chunks
    /\ synced' = AfterFsync(fd[u])
    /\ pc' = [pc EXCEPT ![u] = "hashed"]
    /\ UNCHANGED <<bucketVars, offer, fd, pos, dest, temp, file, data, index, acked, known, removals, overlap, losses>>

WithoutTemp(u) == Drop(temp, TempPath(u))

\* A stall, too many bytes or a full disk: ingest() unlinks the temp file.
StreamFails(u) ==
    /\ pc[u] = "streaming"
    /\ temp' = WithoutTemp(u)
    /\ pc' = [pc EXCEPT ![u] = "done"]
    /\ UNCHANGED <<bucketVars, offer, fd, pos, dest, file, data, synced, index, acked, known, removals, overlap, losses>>

------------------------------------------------------------------------------
\* The rest of ingest(), and _sort_file() from "placing" on.

Hits(u) == {p \in DOMAIN index : index[p] = offer[u].content}

\* find_live_by_hash(), in an executor thread; without an index, no hit.
Lookup(u) ==
    /\ pc[u] = "hashed"
    /\ \/ \E p \in Hits(u) : /\ dest' = [dest EXCEPT ![u] = p]
                             /\ pc' = [pc EXCEPT ![u] = "hit"]
                             /\ UNCHANGED bucketVars
       \/ /\ IF Hits(u) = {} THEN UNCHANGED bucketVars ELSE IndexFails
          /\ pc' = [pc EXCEPT ![u] = "placing"]
          /\ UNCHANGED dest
    /\ UNCHANGED <<offer, fd, pos, temp, file, data, synced, index, acked, known, removals, overlap, losses>>

\* A duplicate: the answer names the file that is there already.
Duplicate(u) ==
    /\ pc[u] = "hit"
    /\ temp' = WithoutTemp(u)
    /\ pc' = [pc EXCEPT ![u] = "done"]
    /\ UNCHANGED <<bucketVars, offer, fd, pos, dest, file, data, synced, index, acked, known, removals, overlap, losses>>

\* _date_bucket_dir(), in an executor thread.
ReserveDir(u) ==
    /\ pc[u] = "placing" /\ offer[u].mode # "mirror"
    /\ Reserve(u) \/ ReserveFails(u)
    /\ pc' = [pc EXCEPT ![u] = "reserved"]
    /\ UNCHANGED <<offer, fd, pos, dest, temp, file, data, synced, index, acked, known, removals, overlap, losses>>

\* _unique_dest(): the name itself or the first of name_2, name_3, ... free.
FreeIn(d, n) == <<d, n>> \notin DOMAIN file
UniqueName(d, n) ==
    IF FreeIn(d, n) THEN n
    ELSE Suffixed(n, CHOOSE k \in 2..Cardinality(Writers) + 1 :
                        /\ FreeIn(d, Suffixed(n, k))
                        /\ \A j \in 2..k - 1 : ~FreeIn(d, Suffixed(n, j)))

FinalDir(u) == IF offer[u].mode = "mirror" THEN offer[u].dir ELSE slot[u]

Pick(u) ==
    /\ \/ pc[u] = "reserved"
       \/ pc[u] = "placing" /\ offer[u].mode = "mirror"
    /\ dest' = [dest EXCEPT ![u] = <<FinalDir(u), UniqueName(FinalDir(u), offer[u].name)>>]
    /\ pc' = [pc EXCEPT ![u] = "picked"]
    /\ UNCHANGED <<bucketVars, offer, fd, pos, temp, file, data, synced, index, acked, known, removals, overlap, losses>>

\* The rename, in an executor thread: it replaces what is at dest by now.
Move(u) ==
    /\ pc[u] = "picked" /\ TempPath(u) \in DOMAIN temp
    /\ file' = Put(file, dest[u], temp[TempPath(u)])
    /\ temp' = WithoutTemp(u)
    /\ IF slot[u] # 0 THEN Place(u, dest[u][2])
       ELSE IF dest[u][1] \in Parts THEN DropIn(dest[u][1], dest[u][2])
       ELSE UNCHANGED bucketVars
    /\ pc' = [pc EXCEPT ![u] = IF offer[u].mode = "inbox" THEN "done" ELSE "moved"]
    /\ UNCHANGED <<offer, fd, pos, dest, data, synced, index, acked, known, removals, overlap, losses>>

\* Anything else that can end an upload, at any step: the rename finds no temp
\* file any more or raises, a directory cannot be made, the work of an executor
\* thread fails, the request is cancelled.  The temp file stays where it is, the
\* reserved slot stays counted, and a file that was moved stays unrecorded.  An
\* upload that was cancelled is over when the thread it waited for is done.
Fail(u) ==
    /\ InFlight(u)
    /\ Release({u}) /\ UNCHANGED repair
    /\ pc' = [pc EXCEPT ![u] = "done"]
    /\ UNCHANGED <<offer, fd, pos, dest, temp, file, data, synced, index, acked, known, removals, overlap, losses>>

\* What an upload knows is what the index has had since it began.
StillKnown == [u \in Writers |-> known[u] \cap InIndex']

\* record_entry() with the hash of the stream, then the answer.
MayRecord == {"moved"}

Record(u) ==
    /\ pc[u] \in MayRecord
    /\ \/ /\ index' = Put(index, dest[u], offer[u].content)
          /\ unmarked' = IF u \in deleted THEN unmarked \cup {dest[u]} ELSE unmarked \ {dest[u]}
          /\ UNCHANGED bucketVars
       \/ UNCHANGED <<index, unmarked>> /\ IndexFails
    /\ known' = StillKnown
    /\ acked' = acked \cup {u}
    /\ pc' = [pc EXCEPT ![u] = "done"]
    /\ UNCHANGED <<offer, fd, pos, dest, temp, file, data, synced, marks, deleted, overlap, losses>>

------------------------------------------------------------------------------
\* The world around it.

\* A file is put into the inbox; the sorter takes it from there.
IntoInbox(u, o) ==
    /\ Start(u, o) /\ o.mode = "inbox"
    /\ <<Inbox, o.name>> \notin DOMAIN temp
    /\ temp' = Put(temp, <<Inbox, o.name>>, u)
    /\ data' = [data EXCEPT ![u] = [k \in 1..Chunks |-> o.content]]
    /\ pc' = [pc EXCEPT ![u] = "placing"]
    /\ UNCHANGED <<bucketVars, fd, pos, dest, file, synced, index, acked, removals, losses>>

\* A stored file is taken away.  A delete of the file itself will mark its path;
\* a delete or a rename of a folder above it, or a client over SMB, never does.
TakeAway(p) ==
    /\ file' = Drop(file, p)
    /\ marks' \in {marks, marks \cup {p}}
    /\ unmarked' = unmarked \cup ({p} \cap DOMAIN index)
    /\ deleted' = deleted \cup {u \in Writers : dest[u] = p /\ (pc[u] = "moved" \/ u \in acked)}
    /\ IF p[1] \in Parts THEN Remove(p[1], p[2]) ELSE UNCHANGED bucketVars
    /\ UNCHANGED <<pc, offer, fd, pos, dest, temp, data, synced, index, acked, known, overlap, losses>>

\* mark_deleted_by_path(): the entry the path has by now.
Mark(p) ==
    /\ p \in marks
    /\ marks' = marks \ {p}
    /\ index' = Drop(index, p)
    /\ unmarked' = unmarked \ {p}
    /\ known' = StillKnown
    /\ UNCHANGED <<bucketVars, pc, offer, fd, pos, dest, temp, file, data, synced, acked, deleted, overlap, losses>>

\* What was not synced is lost, and every request with it; temp files stay.
PowerLoss ==
    /\ losses < MaxPowerLosses
    /\ losses' = losses + 1
    /\ data' = [i \in Writers |-> IF i \in synced THEN data[i] ELSE Empty]
    /\ pc' = [u \in Writers |-> IF InFlight(u) THEN "done" ELSE pc[u]]
    /\ Release(Writers) /\ repair' = Idle
    /\ marks' = {}
    /\ UNCHANGED <<offer, fd, pos, dest, temp, file, synced, index, acked, known, unmarked, deleted, overlap>>

RepairStep == Repair /\ UNCHANGED <<pc, offer, fd, pos, dest, temp, file, data, synced,
                                    index, acked, known, removals, overlap, losses>>

Upload(u) == \/ \E o \in Offers : Open(u, o) \/ IntoInbox(u, o)
             \/ WriteChunk(u) \/ StreamEnds(u) \/ StreamFails(u)
             \/ Lookup(u) \/ Duplicate(u)
             \/ ReserveDir(u) \/ Pick(u) \/ Move(u) \/ Record(u) \/ Fail(u)

Next == \/ \E u \in Writers : Upload(u)
        \/ \E p \in DOMAIN file : TakeAway(p)
        \/ \E p \in marks : Mark(p)
        \/ PowerLoss
        \/ RepairStep

Spec == Init /\ [][Next]_vars

------------------------------------------------------------------------------
\* The types of the variables.
TypeOK ==
    /\ BucketTypeOK
    /\ pc \in [Writers -> {"new", "streaming", "hashed", "hit", "placing", "reserved",
                           "picked", "moved", "done"}]
    /\ offer \in [Writers -> Offers \cup {Nothing}]
    /\ fd \in [Writers -> Writers \cup {Nothing}]
    /\ pos \in [Writers -> 0..Chunks]
    /\ dest \in [Writers -> Paths \cup {Nothing}]
    /\ temp \in [DOMAIN temp -> Writers] /\ DOMAIN temp \subseteq Paths
    /\ file \in [DOMAIN file -> Writers] /\ DOMAIN file \subseteq Paths
    /\ data \in [Writers -> [1..Chunks -> Contents \cup {Hole}]]
    /\ synced \subseteq Writers
    /\ index \in [DOMAIN index -> Contents] /\ DOMAIN index \subseteq Paths
    /\ acked \subseteq Writers
    /\ known \in [Writers -> SUBSET Contents]
    /\ marks \subseteq Paths /\ unmarked \subseteq Paths /\ deleted \subseteq Writers
    /\ overlap \in BOOLEAN
    /\ losses \in 0..MaxPowerLosses

\* An upload that was answered with 201 is there, byte for byte, until somebody
\* takes it away: no other upload writes over it, and no power loss takes it.
AckedIntact == \A u \in acked \ deleted : Holds(At(file, dest[u]), offer[u].content)

\* That holds as long as no two uploads in flight have had names of one stem.
AckedIntactApart == ~overlap => AckedIntact

\* What the index says of a path is true of the file there, unless the file it
\* was said of has been taken away and nobody has said so, or said anything
\* about a file that came after it: every other live entry holds, through
\* failures, late marks, records that fail and a power loss.
IndexTruth == ~overlap => \A p \in DOMAIN index \ unmarked : Holds(At(file, p), index[p])

\* Bytes the index had when an upload began, and has ever since, are not
\* stored a second time, unless the index has failed to answer or to record.
NoLateDuplicate == "index_fails" \notin drift => \A u \in Writers :
    pc[u] \in {"placing", "reserved", "picked", "moved"} /\ offer[u].mode # "inbox"
        => offer[u].content \notin known[u]
==============================================================================
