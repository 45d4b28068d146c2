--------------------------- MODULE BucketAllocator ---------------------------
(***************************************************************************)
(* The bucket allocator of media_index.py for one bucket key, a month of a *)
(* category: the rows (part, count) of the table "buckets", the leaf       *)
(* directories "07", "07-b2", ... they stand for, the writers that reserve *)
(* a slot and later put a file there, and the nightly repair of the counts.*)
(*                                                                         *)
(* A slot is reserved in a transaction of its own; the file is renamed     *)
(* into the directory some awaits later, and the repair takes what it sees *)
(* on disk for the truth.  What the allocator promises, at most Limit      *)
(* files in a directory, holds until the first departure from discipline;  *)
(* the departures there have been are remembered in drift.                 *)
(***************************************************************************)
EXTENDS Integers, Sequences, FiniteSets

CONSTANTS
    Writers,     \* uploads and sorter moves
    FileNames,   \* names a file can have in a leaf directory
    Limit,       \* BUCKET_LIMIT
    MaxParts,    \* bound: number of parts
    Allow        \* the departures from discipline that may happen

Departures == {"repair_races",      \* a repair runs while a slot is reserved
               "index_fails",       \* media.db fails: part 1 uncounted, no dedup
               "out_of_band"}       \* files arrive without a slot: over SMB, by a
                                    \* restore, by an upload into the directory

ASSUME BucketAssumption == /\ IsFiniteSet(Writers) /\ IsFiniteSet(FileNames)
                           /\ Limit \in Nat \ {0} /\ MaxParts \in Nat \ {0}
                           /\ Allow \subseteq Departures

Parts == 1..MaxParts

VARIABLES
    count,    \* count[p] of the rows; the rows are the parts 1 .. Len(count)
    slot,     \* the part a writer has a slot in, or 0
    leaf,     \* the files in the directory of each part
    repair,   \* the repair: the part it is at (0: idle), what its SELECT saw,
              \* what its scans saw, and the parts its transaction has updated
    drift     \* the departures there have been

bucketVars == <<count, slot, leaf, repair, drift>>

Depart(d) == d \in Allow /\ drift' = drift \cup {d}

Idle == [at |-> 0, scanned |-> FALSE, seen |-> <<>>, fix |-> <<>>, dirty |-> {}]

BucketInit == /\ count = <<>>
              /\ slot = [w \in Writers |-> 0]
              /\ leaf = [p \in Parts |-> {}]
              /\ repair = Idle
              /\ drift = {}

------------------------------------------------------------------------------
\* Wrong versions of definitions below; the runs' mutants put them in place.

RoomUpToLimit(p) == count[p] <= Limit
FilesInFirst(p) == Cardinality(leaf[1])

------------------------------------------------------------------------------
\* allocate_bucket_sync()

HasRoom(p) == count[p] < Limit
Preferred(p, S) == \A q \in S : p <= q
WithRoom == {p \in 1..Len(count) : HasRoom(p)}

Reserve(w) ==
    /\ slot[w] = 0
    /\ repair.dirty = {}                     \* BEGIN IMMEDIATE waits for it
    /\ IF repair.at = 0 THEN UNCHANGED drift ELSE Depart("repair_races")
    /\ \/ \E p \in WithRoom : /\ Preferred(p, WithRoom)
                               /\ count' = [count EXCEPT ![p] = @ + 1]
                               /\ slot' = [slot EXCEPT ![w] = p]
       \/ /\ WithRoom = {}
          /\ Len(count) < MaxParts
          /\ count' = Append(count, 1)
          /\ slot' = [slot EXCEPT ![w] = Len(count) + 1]
    /\ UNCHANGED <<leaf, repair>>

\* _date_bucket_dir() falls back to part 1 when the allocator raises.
ReserveFails(w) ==
    /\ Depart("index_fails")
    /\ slot[w] = 0
    /\ slot' = [slot EXCEPT ![w] = 1]
    /\ UNCHANGED <<count, leaf, repair>>

\* Another call to media.db fails.
IndexFails == Depart("index_fails") /\ UNCHANGED <<count, slot, leaf, repair>>

\* The writer's file is renamed into the directory.
Place(w, n) ==
    /\ slot[w] # 0
    /\ leaf' = [leaf EXCEPT ![slot[w]] = @ \cup {n}]
    /\ slot' = [slot EXCEPT ![w] = 0]
    /\ UNCHANGED <<count, repair, drift>>

\* Writers fail, or die with the process: their slots stay counted.
Release(W) ==
    /\ slot' = [w \in Writers |-> IF w \in W THEN 0 ELSE slot[w]]
    /\ UNCHANGED <<count, leaf, drift>>

\* A file leaves the directory: to the trash, by a rename, over SMB.
Remove(p, n) ==
    /\ n \in leaf[p]
    /\ leaf' = [leaf EXCEPT ![p] = @ \ {n}]
    /\ UNCHANGED <<count, slot, repair, drift>>

DropIn(p, n) ==
    /\ Depart("out_of_band")
    /\ p = 1 \/ p <= Len(count)
    /\ leaf' = [leaf EXCEPT ![p] = @ \cup {n}]
    /\ UNCHANGED <<count, slot, repair>>

------------------------------------------------------------------------------
\* repair_bucket_counts(): reads every row, then for each scans the directory
\* and, if the count differs, sets it; the first update holds the database
\* until the commit.

Quiet == \A w \in Writers : slot[w] = 0

RepairRead ==
    /\ repair.at = 0 /\ count # <<>>
    /\ IF Quiet THEN UNCHANGED drift ELSE Depart("repair_races")
    /\ repair' = [Idle EXCEPT !.at = 1, !.seen = count, !.fix = count]
    /\ UNCHANGED <<count, slot, leaf>>

FilesIn(p) == Cardinality(leaf[p])

RepairScan ==
    /\ repair.at # 0 /\ ~repair.scanned
    /\ repair' = [repair EXCEPT !.scanned = TRUE, !.fix[repair.at] = FilesIn(repair.at)]
    /\ UNCHANGED <<count, slot, leaf, drift>>

\* The parts updated so far, with the one just scanned.
Dirty == repair.dirty \cup {p \in {repair.at} : repair.fix[p] # repair.seen[p]}

RepairUpdate ==
    /\ repair.at # 0 /\ repair.scanned /\ repair.at < Len(repair.seen)
    /\ repair' = [repair EXCEPT !.at = @ + 1, !.scanned = FALSE, !.dirty = Dirty]
    /\ UNCHANGED <<count, slot, leaf, drift>>

RepairCommit ==
    /\ repair.at # 0 /\ repair.scanned /\ repair.at = Len(repair.seen)
    /\ count' = [p \in DOMAIN count |-> IF p \in Dirty THEN repair.fix[p] ELSE count[p]]
    /\ repair' = Idle
    /\ UNCHANGED <<slot, leaf, drift>>

Repair == RepairRead \/ RepairScan \/ RepairUpdate \/ RepairCommit

------------------------------------------------------------------------------
BucketNext ==
    \/ \E w \in Writers : Reserve(w) \/ ReserveFails(w) \/ \E n \in FileNames : Place(w, n)
    \/ \E W \in SUBSET Writers : Release(W) /\ repair' \in {repair, Idle}
    \/ \E p \in Parts, n \in FileNames : Remove(p, n) \/ DropIn(p, n)
    \/ IndexFails
    \/ Repair

BucketSpec == BucketInit /\ [][BucketNext]_bucketVars

------------------------------------------------------------------------------
RepairStates == [at : 0..MaxParts, scanned : BOOLEAN, seen : Seq(Nat),
                 fix : Seq(Nat), dirty : SUBSET Parts]

BucketTypeOK ==
    /\ count \in Seq(Nat) /\ Len(count) <= MaxParts
    /\ slot \in [Writers -> 0..MaxParts]
    /\ leaf \in [Parts -> SUBSET FileNames]
    /\ repair \in RepairStates
    /\ drift \subseteq Allow

\* The structural guarantee: no directory ever holds more than Limit files.
DirWithinLimit == drift = {} => \A p \in Parts : Cardinality(leaf[p]) <= Limit

Holders(p) == {w \in Writers : slot[w] = p}

\* Why it holds: a count covers the files that are there and those to come.
CountCovers == drift = {} => \A p \in 1..Len(count) :
                   Cardinality(leaf[p]) + Cardinality(Holders(p)) <= count[p]

\* The comments promise as much of a repair at any time: "the allocator's
\* counter can only drift from ground truth via a crash between allocation and
\* file write, or an out-of-band file" (media_index.py:748).
LimitDespiteRepair ==
    drift \subseteq {"repair_races"} => \A p \in Parts : Cardinality(leaf[p]) <= Limit
==============================================================================
