----------------------------- MODULE IngestProofs -----------------------------
(***************************************************************************)
(* Proofs about Ingest, for every set of uploads, names and contents, any  *)
(* number of parts, chunks and power losses.                               *)
(*                                                                         *)
(* An upload is identified with nothing but its name while it is under     *)
(* way: its temp file, and the free name it picks, are found by name. So   *)
(* everything hangs on this: until two uploads in flight have had names of *)
(* one stem, each has a temp file, an inode and a free name of its own     *)
(* (Sound). That an inode never has two paths (Inodes) holds in any case.  *)
(***************************************************************************)
EXTENDS Ingest, BucketProofs, WellFoundedInduction

\* An upload whose bytes are in a temp file, or a file of the inbox on its way.
Before == {"streaming", "hashed", "hit", "placing", "reserved", "picked"}

\* What has begun has an offer, what streams a file, what is placed a path.
Begun(u) ==
    /\ IF pc[u] = "new" THEN pos[u] = 0 ELSE offer[u] \in Offers
    /\ pc[u] = "streaming" => fd[u] \in Writers
    /\ pc[u] \in {"picked", "moved"} => dest[u] \in Paths

\* The types of the variables of the uploads.
Types ==
    /\ pc \in [Writers -> Before \cup {"new", "moved", "done"}]
    /\ offer \in [Writers -> Offers \cup {Nothing}]
    /\ fd \in [Writers -> Writers \cup {Nothing}]
    /\ pos \in [Writers -> 0..Chunks]
    /\ dest \in [Writers -> Paths \cup {Nothing}]
    /\ data \in [Writers -> [1..Chunks -> Contents \cup {Hole}]]
    /\ known \in [Writers -> SUBSET Contents]
    /\ synced \subseteq Writers /\ acked \subseteq Writers
    /\ overlap \in BOOLEAN /\ losses \in 0..MaxPowerLosses
    /\ \A u \in Writers : Begun(u)

\* A map from some of the paths.
Maps(S) == UNION {[P -> S] : P \in SUBSET Paths}
MapTypes == temp \in Maps(Writers) /\ file \in Maps(Writers) /\ index \in Maps(Contents)

\* An inode has one path, and none before the upload that creates it.
Inodes == /\ \A p, q \in DOMAIN temp : temp[p] = temp[q] => p = q
          /\ \A p, q \in DOMAIN file : file[p] = file[q] => p = q
          /\ \A p \in DOMAIN temp, q \in DOMAIN file : temp[p] # file[q]
          /\ \A p \in DOMAIN temp : pc[temp[p]] # "new"
          /\ \A p \in DOMAIN file : pc[file[p]] # "new"

StemsApart == \A u, v \in Writers :
    InFlight(u) /\ InFlight(v) /\ u # v => offer[u].name.stem # offer[v].name.stem

\* The bytes of an upload are in its own temp file, and on disk once it is hashed.
Written(u) == pc[u] \in Before =>
    /\ TempPath(u) \in DOMAIN temp
    /\ offer[u].mode # "inbox" => fd[u] = temp[TempPath(u)]
    /\ IF pc[u] = "streaming"
       THEN offer[u].mode # "inbox" /\ \A k \in 1..pos[u] : data[fd[u]][k] = offer[u].content
       ELSE /\ Holds(temp[TempPath(u)], offer[u].content)
            /\ offer[u].mode # "inbox" => temp[TempPath(u)] \in synced

Intact(p, c) == p \in DOMAIN file /\ file[p] \in synced /\ Holds(file[p], c)

\* The name that was picked is free until the rename, and nobody else's after it.
\* What the index has to say of it is of a file that has been taken away.
Placed(u) == pc[u] \in {"picked", "moved"} =>
    /\ dest[u][2].stem = offer[u].name.stem
    /\ dest[u] \in DOMAIN index => dest[u] \in unmarked
    /\ IF pc[u] = "picked" THEN dest[u] \notin DOMAIN file
       ELSE u \in deleted \/ Intact(dest[u], offer[u].content)

Kept == /\ \A u \in acked : pc[u] = "done" /\ (u \in deleted \/ Intact(dest[u], offer[u].content))
        /\ \A p \in DOMAIN index \ unmarked : Intact(p, index[p])

\* What the index had when an upload began, and has had since.
KnownIndexed(u) == InFlight(u) => known[u] \subseteq InIndex

\* It is not stored again.
Late(u) == "index_fails" \notin drift
           /\ pc[u] \in {"placing", "reserved", "picked", "moved"} /\ offer[u].mode # "inbox"
           => offer[u].content \notin known[u]

Sound == /\ StemsApart /\ Kept
         /\ \A u \in Writers : Written(u) /\ Placed(u) /\ KnownIndexed(u) /\ Late(u)

Own == Types /\ MapTypes /\ Inodes
IInv == BInv /\ Own /\ (~overlap => Sound)

------------------------------------------------------------------------------
\* A map has paths and values of its type.
LEMMA MapsAre ==
  ASSUME NEW S, NEW f \in Maps(S)
  PROVE  DOMAIN f \subseteq Paths /\ \A p \in DOMAIN f : f[p] \in S
  BY DEF Maps

\* What Put and Drop make of a map.
LEMMA PutType ==
  ASSUME NEW S, NEW f \in Maps(S), NEW p \in Paths, NEW x \in S
  PROVE  Put(f, p, x) \in Maps(S)
<1>1. PICK P \in SUBSET Paths : f \in [P -> S]
  BY DEF Maps
<1>2. Put(f, p, x) \in [P \cup {p} -> S]
  BY <1>1 DEF Put
<1> QED BY <1>2 DEF Maps

LEMMA DropType ==
  ASSUME NEW S, NEW f \in Maps(S), NEW p
  PROVE  Drop(f, p) \in Maps(S)
<1>1. PICK P \in SUBSET Paths : f \in [P -> S]
  BY DEF Maps
<1>2. Drop(f, p) \in [P \ {p} -> S]
  BY <1>1 DEF Drop
<1> QED BY <1>2 DEF Maps

\* An offer names a file in a directory.
LEMMA OfferFacts ==
  ASSUME NEW o \in Offers
  PROVE  /\ o.name \in FileNames /\ o.content \in Contents /\ o.dir \in Dirs
         /\ <<o.dir, o.name>> \in Paths
  BY IngestAssumption DEF OfferType, Paths

\* A set of numbers has a least one.
LEMMA LeastOf ==
  ASSUME NEW S \in SUBSET Nat, S # {}
  PROVE  \E k \in S : \A j \in S : k <= j
<1> DEFINE R == {p \in Nat \X Nat : p[1] < p[2]}
<1>1. IsWellFoundedOn(R, Nat)
  BY NatLessThanWellFounded DEF OpToRel
<1>2. PICK n \in S : \A k \in S : <<k, n>> \notin R
  <2> HIDE DEF R
  <2> QED BY <1>1, WFMin
<1>3. ASSUME NEW k \in S PROVE n <= k
  <2>1. <<k, n>> \in Nat \X Nat /\ <<k, n>>[1] = k /\ <<k, n>>[2] = n
    OBVIOUS
  <2> QED BY <1>2, <2>1
<1> QED BY <1>3

\* More names than files: two of them are of one file.
LEMMA TwoMeet ==
  ASSUME NEW W, IsFiniteSet(W), NEW g \in [1..Cardinality(W) + 1 -> W]
  PROVE  \E j, k \in 1..Cardinality(W) + 1 : j # k /\ g[j] = g[k]
<1>1. Cardinality(W) \in Nat
  BY FS_CardinalityType
<1>2. IsFiniteSet(1..Cardinality(W) + 1) /\ Cardinality(1..Cardinality(W) + 1) = Cardinality(W) + 1
  BY <1>1, FS_Interval
<1>3. Cardinality(W) < Cardinality(1..Cardinality(W) + 1)
  BY <1>1, <1>2
<1> QED BY <1>2, <1>3, FS_PigeonHole

\* Names with different suffixes are different.
LEMMA Tails ==
  ASSUME NEW t \in Seq(Nat), NEW i \in Nat, NEW l \in Nat
  PROVE  Append(t, i) # t /\ (Append(t, i) = Append(t, l) => i = l)
<1>1. Len(Append(t, i)) = Len(t) + 1 /\ Len(t) \in Nat
  OBVIOUS
<1>2. Append(t, i)[Len(t) + 1] = i /\ Append(t, l)[Len(t) + 1] = l
  OBVIOUS
<1> QED BY <1>1, <1>2

------------------------------------------------------------------------------
\* The free name.

\* _unique_dest finds a free name, of the stem it was given: there are more names to try than
\* files that could have them.
LEMMA UniqueIsFree ==
  ASSUME Own, NEW d \in Dirs, NEW o \in Offers
  PROVE  /\ UniqueName(d, o.name) \in FileNames
         /\ FreeIn(d, UniqueName(d, o.name))
         /\ UniqueName(d, o.name).stem = o.name.stem
<1> DEFINE n == o.name
           Stems == {m.stem : m \in FileNames}
           N == Cardinality(Writers)
           Name(k) == IF k = 1 THEN n ELSE Suffixed(n, k)
           Untaken == {k \in 2..N + 1 : FreeIn(d, Suffixed(n, k))}
<1>0. IsFiniteSet(Writers) /\ N \in Nat
  BY BucketAssumption, FS_CardinalityType
<1>1. n \in FileNames /\ n \in [stem : Stems, tail : Seq(Nat)]
  BY OfferFacts, IngestAssumption
<1>2. \A k \in 2..N + 1 : /\ Suffixed(n, k) \in FileNames /\ Suffixed(n, k).stem = n.stem
                          /\ Suffixed(n, k).tail = Append(n.tail, k)
  BY <1>0, <1>1, IngestAssumption DEF Suffixed
<1>3. CASE FreeIn(d, n)
  BY <1>1, <1>3 DEF UniqueName
<1>4. CASE ~FreeIn(d, n)
  <2>1. Untaken # {}
    <3> SUFFICES ASSUME Untaken = {} PROVE FALSE
      OBVIOUS
    <3> DEFINE g == [k \in 1..N + 1 |-> file[<<d, Name(k)>>]]
    <3>1. \A k \in 1..N + 1 : <<d, Name(k)>> \in DOMAIN file
      <4> TAKE k \in 1..N + 1
      <4>1. CASE k = 1
        BY <1>4, <4>1 DEF FreeIn
      <4>2. CASE k # 1
        <5>1. k \in 2..N + 1
          BY <1>0, <4>2
        <5>2. ~FreeIn(d, Suffixed(n, k))
          BY <5>1
        <5> QED BY <4>2, <5>2 DEF FreeIn
      <4> QED BY <4>1, <4>2
    <3>2. g \in [1..N + 1 -> Writers]
      BY <3>1, MapsAre DEF Own, MapTypes
    <3>3. PICK j, k \in 1..N + 1 : j # k /\ g[j] = g[k]
      <4> HIDE DEF g
      <4> QED BY <1>0, <3>2, TwoMeet
    <3>4. Name(j) = Name(k)
      <4>1. <<d, Name(j)>> = <<d, Name(k)>>
        BY <3>1, <3>3 DEF Own, Inodes
      <4> HIDE DEF Name
      <4> QED BY <4>1
    <3>5. \A i \in 2..N + 1 : Suffixed(n, i) # n
      BY <1>0, <1>1, <1>2, Tails
    <3>6. \A i, l \in 2..N + 1 : Suffixed(n, i) = Suffixed(n, l) => i = l
      <4> TAKE i, l \in 2..N + 1
      <4>1. i \in Nat /\ l \in Nat /\ n.tail \in Seq(Nat)
        BY <1>0, <1>1
      <4>2. Append(n.tail, i) = Append(n.tail, l) => i = l
        BY <4>1, Tails
      <4> QED BY <1>2, <4>2
    <3>7. CASE j = 1
      BY <1>0, <3>3, <3>4, <3>5, <3>7
    <3>8. CASE k = 1
      BY <1>0, <3>3, <3>4, <3>5, <3>8
    <3>9. CASE j # 1 /\ k # 1
      <4>1. j \in 2..N + 1 /\ k \in 2..N + 1
        BY <1>0, <3>9
      <4> QED BY <4>1, <3>3, <3>4, <3>6, <3>9
    <3> QED BY <3>7, <3>8, <3>9
  <2>2. PICK k \in Untaken : \A j \in Untaken : k <= j
    <3>1. Untaken \in SUBSET Nat
      BY <1>0
    <3> HIDE DEF Untaken
    <3> QED BY <2>1, <3>1, LeastOf
  <2>3. \E i \in 2..N + 1 : FreeIn(d, Suffixed(n, i)) /\ \A j \in 2..i - 1 : ~FreeIn(d, Suffixed(n, j))
    <3>1. \A j \in 2..k - 1 : j \in 2..N + 1 /\ ~(k <= j)
      BY <1>0, <2>2
    <3> WITNESS k \in 2..N + 1
    <3> QED BY <2>2, <3>1
  <2> DEFINE c == CHOOSE i \in 2..N + 1 : FreeIn(d, Suffixed(n, i))
                                          /\ \A j \in 2..i - 1 : ~FreeIn(d, Suffixed(n, j))
  <2>4. c \in 2..N + 1 /\ FreeIn(d, Suffixed(n, c))
    BY <2>3
  <2>5. UniqueName(d, n) = Suffixed(n, c)
    BY <1>4 DEF UniqueName
  <2> HIDE DEF c
  <2> QED BY <1>2, <2>4, <2>5
<1> QED BY <1>3, <1>4

------------------------------------------------------------------------------
\* Every step of an upload is a step of the allocator, or none.

LEMMA BucketStep ==
  ASSUME Own, [Next]_vars
  PROVE  [BucketNext]_bucketVars
<1>1. ASSUME NEW u \in Writers, Upload(u) PROVE [BucketNext]_bucketVars
  <2>1. CASE \E o \in Offers : Open(u, o) \/ IntoInbox(u, o)
    BY <2>1 DEF Open, IntoInbox
  <2>2. CASE WriteChunk(u) \/ StreamEnds(u) \/ StreamFails(u) \/ Duplicate(u) \/ Pick(u)
    BY <2>2 DEF WriteChunk, StreamEnds, StreamFails, Duplicate, Pick
  <2>3. CASE Lookup(u) \/ Record(u)
    BY <2>3 DEF Lookup, Record, BucketNext
  <2>4. CASE ReserveDir(u)
    BY <2>4 DEF ReserveDir, BucketNext
  <2>5. CASE Move(u)
    <3>1. dest[u][2] \in FileNames
      BY <2>5 DEF Own, Types, Begun, Move, Paths
    <3> QED BY <2>5, <3>1 DEF Move, BucketNext
  <2>6. CASE Fail(u)
    <3>1. {u} \in SUBSET Writers /\ Release({u}) /\ repair' = repair
      BY <2>6 DEF Fail
    <3> QED BY <3>1 DEF BucketNext
  <2> QED BY <1>1, <2>1, <2>2, <2>3, <2>4, <2>5, <2>6 DEF Upload
<1>2. ASSUME NEW p \in DOMAIN file, TakeAway(p) PROVE [BucketNext]_bucketVars
  <2>1. p[2] \in FileNames
    BY MapsAre DEF Own, MapTypes, Paths
  <2> QED BY <1>2, <2>1 DEF TakeAway, BucketNext
<1>6. ASSUME NEW p \in marks, Mark(p) PROVE [BucketNext]_bucketVars
  BY <1>6 DEF Mark
<1>3. CASE PowerLoss
  <2>1. Writers \in SUBSET Writers /\ Release(Writers) /\ repair' = Idle
    BY <1>3 DEF PowerLoss
  <2> QED BY <2>1 DEF BucketNext
<1>4. CASE RepairStep
  BY <1>4 DEF RepairStep, BucketNext
<1>5. CASE UNCHANGED vars
  BY <1>5 DEF vars
<1> QED BY <1>1, <1>2, <1>3, <1>4, <1>5, <1>6 DEF Next

------------------------------------------------------------------------------
\* Types and inodes, step by step.

\* An upload that another step leaves alone stays as it was.
LEMMA StillBegun ==
  ASSUME NEW v \in Writers, Begun(v), pc'[v] = pc[v], pos'[v] = pos[v], offer'[v] = offer[v],
         fd'[v] = fd[v], dest'[v] = dest[v]
  PROVE  Begun(v)'
  BY DEF Begun

LEMMA OpenOwn ==
  ASSUME Own, NEW u \in Writers, NEW o \in Offers, Open(u, o)
  PROVE  Own'
<1> DEFINE tp == <<o.dir, o.name>>
           i == IF tp \in DOMAIN temp THEN temp[tp] ELSE u
<1>0. tp \in Paths /\ o.content \in Contents
  BY OfferFacts
<1>1. /\ pc[u] = "new" /\ pc' = [pc EXCEPT ![u] = "streaming"] /\ offer' = [offer EXCEPT ![u] = o]
      /\ known' = [known EXCEPT ![u] = InIndex] /\ overlap' \in BOOLEAN
      /\ temp' = Put(temp, tp, i) /\ fd' = [fd EXCEPT ![u] = i] /\ data' = [data EXCEPT ![i] = Empty]
      /\ synced' = synced \ {i} /\ UNCHANGED <<pos, dest, file, index, acked, losses>>
  BY DEF Open, Start, Own, Types
<1>2. i \in Writers /\ (tp \notin DOMAIN temp => i = u)
  BY MapsAre DEF Own, MapTypes
<1>3. InIndex \subseteq Contents
  BY MapsAre DEF Own, MapTypes, InIndex
<1>4. Types'
  <2>1. Empty \in [1..Chunks -> Contents \cup {Hole}]
    BY DEF Empty
  <2>2. Begun(u)'
    <3>1. pc'[u] = "streaming" /\ offer'[u] = o /\ fd'[u] = i
      BY <1>1 DEF Own, Types
    <3> HIDE DEF i
    <3> QED BY <1>2, <3>1 DEF Begun
  <2>3. \A v \in Writers \ {u} : Begun(v)'
    <3> TAKE v \in Writers \ {u}
    <3>1. Begun(v)
      BY DEF Own, Types
    <3>2. pc'[v] = pc[v] /\ offer'[v] = offer[v] /\ fd'[v] = fd[v]
      BY <1>1 DEF Own, Types
    <3> QED BY <1>1, <3>1, <3>2, StillBegun
  <2> HIDE DEF i
  <2> QED BY <1>1, <1>2, <1>3, <2>1, <2>2, <2>3 DEF Own, Types, Before
<1>5. MapTypes'
  <2> HIDE DEF i, tp
  <2>1. temp \in Maps(Writers) /\ file \in Maps(Writers) /\ index \in Maps(Contents)
    BY DEF Own, MapTypes
  <2>2. Put(temp, tp, i) \in Maps(Writers)
    BY <1>0, <1>2, <2>1, PutType
  <2> QED BY <1>1, <2>1, <2>2 DEF MapTypes
<1>6. /\ DOMAIN temp' = DOMAIN temp \cup {tp} /\ temp'[tp] = i
      /\ \A q \in DOMAIN temp : q # tp => temp'[q] = temp[q]
  <2> HIDE DEF i, tp
  <2>1. /\ DOMAIN Put(temp, tp, i) = DOMAIN temp \cup {tp} /\ Put(temp, tp, i)[tp] = i
        /\ \A q \in DOMAIN temp : q # tp => Put(temp, tp, i)[q] = temp[q]
    BY DEF Put
  <2> QED BY <1>1, <2>1
<1>7. Inodes'
  <2>1. CASE tp \in DOMAIN temp
    <3>1. DOMAIN temp' = DOMAIN temp /\ \A q \in DOMAIN temp : temp'[q] = temp[q]
      BY <1>6, <2>1
    <3>2. \A v \in Writers : pc[v] # "new" => pc'[v] # "new"
      BY <1>1 DEF Own, Types
    <3>3. /\ \A p \in DOMAIN temp : temp[p] \in Writers
          /\ \A p \in DOMAIN file : file[p] \in Writers
      BY MapsAre DEF Own, MapTypes
    <3> QED BY <1>1, <3>1, <3>2, <3>3 DEF Own, Inodes
  <2>2. CASE tp \notin DOMAIN temp
    <3>1. \A v \in Writers : pc[v] # "new" => pc'[v] # "new" /\ v # u
      BY <1>1 DEF Own, Types
    <3>2. /\ \A p \in DOMAIN temp : temp[p] \in Writers
          /\ \A p \in DOMAIN file : file[p] \in Writers
      BY MapsAre DEF Own, MapTypes
    <3>3. pc'[u] # "new" /\ temp'[tp] = u
      BY <1>1, <1>2, <1>6, <2>2 DEF Own, Types
    <3> HIDE DEF i, tp
    <3> QED BY <1>1, <1>6, <2>2, <3>1, <3>2, <3>3 DEF Own, Inodes
  <2> QED BY <2>1, <2>2
<1> QED BY <1>4, <1>5, <1>7 DEF Own

\* A step that moves no file: uploads on their way, and the chunks they write.
LEMMA SamePaths ==
  ASSUME Own, NEW u \in Writers, pc[u] # "new", UNCHANGED <<temp, file, index>>,
         NEW s \in Before \cup {"moved", "done"}, pc' = [pc EXCEPT ![u] = s]
  PROVE  MapTypes' /\ Inodes'
<1>1. MapTypes'
  BY DEF Own, MapTypes
<1>2. \A v \in Writers : pc[v] # "new" => pc'[v] # "new"
  BY DEF Own, Types, Before
<1>3. /\ \A p \in DOMAIN temp : temp[p] \in Writers
      /\ \A p \in DOMAIN file : file[p] \in Writers
  BY MapsAre DEF Own, MapTypes
<1>4. Inodes'
  BY <1>2, <1>3 DEF Own, Inodes
<1> QED BY <1>1, <1>4

LEMMA WriteChunkOwn ==
  ASSUME Own, NEW u \in Writers, WriteChunk(u)
  PROVE  Own'
<1>1. /\ pc[u] = "streaming" /\ fd[u] \in Writers /\ offer[u] \in Offers /\ pos[u] + 1 \in 1..Chunks
      /\ data' = [data EXCEPT ![fd[u]][pos[u] + 1] = offer[u].content]
      /\ pos' = [pos EXCEPT ![u] = @ + 1] /\ synced' = synced \ {fd[u]}
      /\ UNCHANGED <<pc, offer, fd, dest, temp, file, index, acked, known, overlap, losses>>
  BY IngestAssumption DEF WriteChunk, Own, Types, Begun
<1>2. offer[u].content \in Contents
  BY <1>1, OfferFacts
<1>3. data' \in [Writers -> [1..Chunks -> Contents \cup {Hole}]]
  BY <1>1, <1>2 DEF Own, Types
<1>4. pos' \in [Writers -> 0..Chunks]
  BY <1>1, IngestAssumption DEF Own, Types
<1>5. \A v \in Writers : Begun(v)'
  BY <1>1 DEF Own, Types, Begun
<1>6. Types'
  BY <1>1, <1>3, <1>4, <1>5 DEF Own, Types
<1>7. MapTypes' /\ Inodes'
  BY <1>1 DEF Own, MapTypes, Inodes
<1> QED BY <1>6, <1>7 DEF Own

\* The steps between the stream and the rename.
LEMMA OnTheWayOwn ==
  ASSUME Own, NEW u \in Writers, StreamEnds(u) \/ Lookup(u) \/ ReserveDir(u)
  PROVE  Own'
<1>1. PICK s \in Before : pc' = [pc EXCEPT ![u] = s] /\ s # "streaming" /\ s # "picked"
  BY DEF StreamEnds, Lookup, ReserveDir, Before
<1>2. /\ pc[u] # "new" /\ pc[u] \notin {"picked", "moved"}
      /\ UNCHANGED <<offer, fd, pos, temp, file, data, index, acked, known, overlap, losses>>
  BY DEF StreamEnds, Lookup, ReserveDir
<1>3. synced' \subseteq Writers
  BY DEF StreamEnds, Lookup, ReserveDir, AfterFsync, Own, Types, Begun
<1>4. dest' \in [Writers -> Paths \cup {Nothing}] /\ \A v \in Writers : v # u => dest'[v] = dest[v]
  <2>1. CASE UNCHANGED dest
    BY <2>1 DEF Own, Types
  <2>2. CASE Lookup(u) /\ \E p \in Hits(u) : dest' = [dest EXCEPT ![u] = p]
    <3>1. Hits(u) \subseteq Paths
      BY MapsAre DEF Own, MapTypes, Hits
    <3> QED BY <2>2, <3>1 DEF Own, Types
  <2> QED BY <2>1, <2>2 DEF StreamEnds, Lookup, ReserveDir
<1>5. Types'
  <2>1. pc' \in [Writers -> Before \cup {"new", "moved", "done"}] /\ pc'[u] = s
    BY <1>1 DEF Own, Types
  <2>2. Begun(u)'
    BY <1>1, <1>2, <2>1 DEF Own, Types, Begun, Before
  <2>3. \A v \in Writers \ {u} : Begun(v)'
    BY <1>1, <1>2, <1>4 DEF Own, Types, Begun
  <2> QED BY <1>2, <1>3, <1>4, <2>1, <2>2, <2>3 DEF Own, Types
<1>6. MapTypes' /\ Inodes'
  BY <1>1, <1>2, SamePaths
<1> QED BY <1>5, <1>6 DEF Own

LEMMA PickOwn ==
  ASSUME Own, BInv, NEW u \in Writers, Pick(u)
  PROVE  Own'
<1> DEFINE d == FinalDir(u)
           p == <<d, UniqueName(d, offer[u].name)>>
<1>1. /\ pc' = [pc EXCEPT ![u] = "picked"] /\ dest' = [dest EXCEPT ![u] = p] /\ pc[u] # "new"
      /\ UNCHANGED <<offer, fd, pos, temp, file, data, synced, index, acked, known, overlap, losses>>
  BY DEF Pick
<1>2. offer[u] \in Offers
  BY <1>1 DEF Own, Types, Begun
<1>3. d \in Dirs
  <2>1. slot[u] \in 0..MaxParts
    BY DEF BInv, BucketTypeOK
  <2>2. offer[u].dir \in Dirs
    BY <1>2, OfferFacts
  <2>3. slot[u] \in Dirs
    BY <2>1, BucketAssumption DEF Dirs
  <2> QED BY <2>2, <2>3 DEF FinalDir
<1>4. p \in Paths
  <2> HIDE DEF d
  <2> QED BY <1>2, <1>3, UniqueIsFree DEF Paths
<1>5. Types'
  <2> HIDE DEF p
  <2>1. pc' \in [Writers -> Before \cup {"new", "moved", "done"}] /\ pc'[u] = "picked"
    BY <1>1 DEF Own, Types, Before
  <2>2. dest' \in [Writers -> Paths \cup {Nothing}] /\ dest'[u] = p
    BY <1>1, <1>4 DEF Own, Types
  <2>3. Begun(u)'
    BY <1>1, <1>2, <1>4, <2>1, <2>2 DEF Begun
  <2>4. \A v \in Writers \ {u} : Begun(v)'
    BY <1>1 DEF Own, Types, Begun
  <2> QED BY <1>1, <2>1, <2>2, <2>3, <2>4 DEF Own, Types
<1>6. MapTypes' /\ Inodes'
  BY <1>1, SamePaths DEF Before
<1> QED BY <1>5, <1>6 DEF Own

\* An upload that ends takes its temp file with it, and no other.
LEMMA EndsOwn ==
  ASSUME Own, NEW u \in Writers, StreamFails(u) \/ Duplicate(u)
  PROVE  Own'
<1>1. /\ pc[u] \in Before /\ pc' = [pc EXCEPT ![u] = "done"] /\ temp' = Drop(temp, TempPath(u))
      /\ UNCHANGED <<offer, fd, pos, dest, file, data, synced, index, acked, known, overlap, losses>>
  BY DEF StreamFails, Duplicate, WithoutTemp, Before
<1>2. Types'
  <2>1. pc' \in [Writers -> Before \cup {"new", "moved", "done"}] /\ pc'[u] = "done"
    BY <1>1 DEF Own, Types
  <2>2. \A v \in Writers : Begun(v)'
    BY <1>1, <2>1 DEF Own, Types, Begun, Before
  <2> QED BY <1>1, <2>1, <2>2 DEF Own, Types
<1>3. MapTypes'
  BY <1>1, DropType DEF Own, MapTypes
<1>4. /\ DOMAIN temp' = DOMAIN temp \ {TempPath(u)}
      /\ \A q \in DOMAIN temp' : temp'[q] = temp[q]
  <2>1. /\ DOMAIN Drop(temp, TempPath(u)) = DOMAIN temp \ {TempPath(u)}
        /\ \A q \in DOMAIN temp \ {TempPath(u)} : Drop(temp, TempPath(u))[q] = temp[q]
    BY DEF Drop
  <2> QED BY <1>1, <2>1
<1>5. Inodes'
  <2>1. \A v \in Writers : pc[v] # "new" => pc'[v] # "new"
    BY <1>1 DEF Own, Types
  <2>2. /\ \A p \in DOMAIN temp : temp[p] \in Writers
        /\ \A p \in DOMAIN file : file[p] \in Writers
    BY MapsAre DEF Own, MapTypes
  <2> QED BY <1>1, <1>4, <2>1, <2>2 DEF Own, Inodes
<1> QED BY <1>2, <1>3, <1>5 DEF Own

LEMMA MoveOwn ==
  ASSUME Own, NEW u \in Writers, Move(u)
  PROVE  Own'
<1> DEFINE i == temp[TempPath(u)]
           s == IF offer[u].mode = "inbox" THEN "done" ELSE "moved"
<1>1. /\ pc[u] = "picked" /\ TempPath(u) \in DOMAIN temp /\ pc' = [pc EXCEPT ![u] = s]
      /\ temp' = Drop(temp, TempPath(u)) /\ file' = Put(file, dest[u], i)
      /\ UNCHANGED <<offer, fd, pos, dest, data, synced, index, acked, known, overlap, losses>>
  BY DEF Move, WithoutTemp
<1>2. dest[u] \in Paths /\ i \in Writers
  BY <1>1, MapsAre DEF Own, Types, Begun, MapTypes
<1>3. Types'
  <2>1. pc' \in [Writers -> Before \cup {"new", "moved", "done"}] /\ pc'[u] = s
    BY <1>1 DEF Own, Types
  <2>2. \A v \in Writers : Begun(v)'
    BY <1>1, <1>2, <2>1 DEF Own, Types, Begun
  <2> QED BY <1>1, <2>1, <2>2 DEF Own, Types
<1>4. MapTypes'
  <2>1. temp \in Maps(Writers) /\ file \in Maps(Writers) /\ index \in Maps(Contents)
    BY DEF Own, MapTypes
  <2>2. Put(file, dest[u], i) \in Maps(Writers)
    BY <1>2, <2>1, PutType
  <2>3. Drop(temp, TempPath(u)) \in Maps(Writers)
    BY <2>1, DropType
  <2> QED BY <1>1, <2>1, <2>2, <2>3 DEF MapTypes
<1>5. /\ DOMAIN temp' = DOMAIN temp \ {TempPath(u)}
      /\ \A q \in DOMAIN temp' : temp'[q] = temp[q]
      /\ DOMAIN file' = DOMAIN file \cup {dest[u]} /\ file'[dest[u]] = i
      /\ \A q \in DOMAIN file : q # dest[u] => file'[q] = file[q]
  <2>1. /\ DOMAIN Drop(temp, TempPath(u)) = DOMAIN temp \ {TempPath(u)}
        /\ \A q \in DOMAIN temp \ {TempPath(u)} : Drop(temp, TempPath(u))[q] = temp[q]
    BY DEF Drop
  <2>2. /\ DOMAIN Put(file, dest[u], i) = DOMAIN file \cup {dest[u]}
        /\ Put(file, dest[u], i)[dest[u]] = i
        /\ \A q \in DOMAIN file : q # dest[u] => Put(file, dest[u], i)[q] = file[q]
    BY DEF Put
  <2> QED BY <1>1, <2>1, <2>2
<1>6. Inodes'
  <2>1. \A v \in Writers : pc[v] # "new" => pc'[v] # "new"
    BY <1>1 DEF Own, Types
  <2>2. /\ \A p \in DOMAIN temp : temp[p] \in Writers
        /\ \A p \in DOMAIN file : file[p] \in Writers
    BY MapsAre DEF Own, MapTypes
  <2>3. \A p \in DOMAIN temp' : p \in DOMAIN temp /\ temp'[p] = temp[p] /\ temp'[p] # i
    BY <1>1, <1>5 DEF Own, Inodes
  <2>4. \A p \in DOMAIN file' : \/ p = dest[u] /\ file'[p] = i
                                \/ p \in DOMAIN file /\ p # dest[u] /\ file'[p] = file[p] /\ file[p] # i
    BY <1>1, <1>5 DEF Own, Inodes
  <2>5. pc[i] # "new"
    BY <1>1 DEF Own, Inodes
  <2> HIDE DEF i
  <2> QED BY <1>2, <2>1, <2>2, <2>3, <2>4, <2>5 DEF Own, Inodes
<1> QED BY <1>3, <1>4, <1>6 DEF Own

LEMMA FailOwn ==
  ASSUME Own, NEW u \in Writers, Fail(u)
  PROVE  Own'
<1>1. /\ pc[u] # "new" /\ pc' = [pc EXCEPT ![u] = "done"]
      /\ UNCHANGED <<offer, fd, pos, dest, temp, file, data, synced, index, acked, known, overlap, losses>>
  BY DEF Fail, InFlight
<1>2. Types'
  <2>1. pc' \in [Writers -> Before \cup {"new", "moved", "done"}] /\ pc'[u] = "done"
    BY <1>1 DEF Own, Types
  <2>2. \A v \in Writers : Begun(v)'
    BY <1>1, <2>1 DEF Own, Types, Begun
  <2> QED BY <1>1, <2>1, <2>2 DEF Own, Types
<1>3. MapTypes' /\ Inodes'
  BY <1>1, SamePaths
<1> QED BY <1>2, <1>3 DEF Own

LEMMA RecordOwn ==
  ASSUME Own, NEW u \in Writers, Record(u)
  PROVE  Own'
<1>1. /\ pc[u] = "moved" /\ pc' = [pc EXCEPT ![u] = "done"] /\ acked' = acked \cup {u}
      /\ index' = Put(index, dest[u], offer[u].content) \/ index' = index
      /\ UNCHANGED <<offer, fd, pos, dest, temp, file, data, synced, overlap, losses>>
      /\ known' \in [Writers -> SUBSET Contents]
  BY DEF Record, MayRecord, StillKnown, Own, Types
<1>2. dest[u] \in Paths /\ offer[u].content \in Contents
  BY <1>1, OfferFacts DEF Own, Types, Begun
<1>3. Types'
  <2>1. pc' \in [Writers -> Before \cup {"new", "moved", "done"}] /\ pc'[u] = "done"
    BY <1>1 DEF Own, Types
  <2>2. \A v \in Writers : Begun(v)'
    BY <1>1, <2>1 DEF Own, Types, Begun
  <2> QED BY <1>1, <2>1, <2>2 DEF Own, Types
<1>4. MapTypes'
  <2>1. temp \in Maps(Writers) /\ file \in Maps(Writers) /\ index \in Maps(Contents)
    BY DEF Own, MapTypes
  <2>2. Put(index, dest[u], offer[u].content) \in Maps(Contents)
    BY <1>2, <2>1, PutType
  <2> QED BY <1>1, <2>1, <2>2 DEF MapTypes
<1>5. Inodes'
  <2>1. \A v \in Writers : pc[v] # "new" => pc'[v] # "new"
    BY <1>1 DEF Own, Types
  <2>2. /\ \A p \in DOMAIN temp : temp[p] \in Writers
        /\ \A p \in DOMAIN file : file[p] \in Writers
    BY MapsAre DEF Own, MapTypes
  <2> QED BY <1>1, <2>1, <2>2 DEF Own, Inodes
<1> QED BY <1>3, <1>4, <1>5 DEF Own

LEMMA IntoInboxOwn ==
  ASSUME Own, NEW u \in Writers, NEW o \in Offers, IntoInbox(u, o)
  PROVE  Own'
<1> DEFINE tp == <<Inbox, o.name>>
<1>0. tp \in Paths /\ o.content \in Contents
  <2>1. Inbox \in Dirs
    BY BucketAssumption DEF Dirs, Inbox
  <2> QED BY <2>1, OfferFacts DEF Paths
<1>1. /\ pc[u] = "new" /\ pc' = [pc EXCEPT ![u] = "placing"] /\ offer' = [offer EXCEPT ![u] = o]
      /\ known' = [known EXCEPT ![u] = InIndex] /\ overlap' \in BOOLEAN
      /\ temp' = Put(temp, tp, u) /\ tp \notin DOMAIN temp
      /\ data' = [data EXCEPT ![u] = [k \in 1..Chunks |-> o.content]]
      /\ UNCHANGED <<fd, pos, dest, file, synced, index, acked, losses>>
  BY DEF IntoInbox, Start, Own, Types
<1>2. InIndex \subseteq Contents
  BY MapsAre DEF Own, MapTypes, InIndex
<1>3. Types'
  <2>1. [k \in 1..Chunks |-> o.content] \in [1..Chunks -> Contents \cup {Hole}]
    BY <1>0
  <2>2. Begun(u)'
    BY <1>1 DEF Own, Types, Begun
  <2>3. \A v \in Writers \ {u} : Begun(v)'
    BY <1>1 DEF Own, Types, Begun
  <2> QED BY <1>1, <1>2, <2>1, <2>2, <2>3 DEF Own, Types, Before
<1>4. MapTypes'
  <2>1. temp \in Maps(Writers) /\ file \in Maps(Writers) /\ index \in Maps(Contents)
    BY DEF Own, MapTypes
  <2>2. Put(temp, tp, u) \in Maps(Writers)
    BY <1>0, <2>1, PutType
  <2> QED BY <1>1, <2>1, <2>2 DEF MapTypes
<1>5. /\ DOMAIN temp' = DOMAIN temp \cup {tp} /\ temp'[tp] = u
      /\ \A q \in DOMAIN temp : q # tp => temp'[q] = temp[q]
  BY <1>1 DEF Put
<1>6. Inodes'
  <2>1. \A v \in Writers : pc[v] # "new" => pc'[v] # "new" /\ v # u
    BY <1>1 DEF Own, Types
  <2>2. /\ \A p \in DOMAIN temp : temp[p] \in Writers
        /\ \A p \in DOMAIN file : file[p] \in Writers
    BY MapsAre DEF Own, MapTypes
  <2>3. pc'[u] # "new"
    BY <1>1 DEF Own, Types
  <2> HIDE DEF tp
  <2> QED BY <1>1, <1>5, <2>1, <2>2, <2>3 DEF Own, Inodes
<1> QED BY <1>3, <1>4, <1>6 DEF Own

LEMMA TakeAwayOwn ==
  ASSUME Own, NEW p \in DOMAIN file, TakeAway(p)
  PROVE  Own'
<1>1. /\ file' = Drop(file, p)
      /\ UNCHANGED <<pc, offer, fd, pos, dest, temp, data, synced, index, acked, known, overlap, losses>>
  BY DEF TakeAway
<1>2. Types'
  BY <1>1 DEF Own, Types, Begun
<1>3. MapTypes'
  BY <1>1, DropType DEF Own, MapTypes
<1>4. Inodes'
  <2>1. DOMAIN file' \subseteq DOMAIN file /\ \A q \in DOMAIN file' : file'[q] = file[q]
    BY <1>1 DEF Drop
  <2> QED BY <1>1, <2>1 DEF Own, Inodes
<1> QED BY <1>2, <1>3, <1>4 DEF Own

LEMMA MarkOwn ==
  ASSUME Own, NEW p \in marks, Mark(p)
  PROVE  Own'
<1>1. /\ index' = Drop(index, p) /\ known' \in [Writers -> SUBSET Contents]
      /\ UNCHANGED <<pc, offer, fd, pos, dest, temp, file, data, synced, acked, overlap, losses>>
  BY DEF Mark, StillKnown, Own, Types
<1>2. Types'
  BY <1>1 DEF Own, Types, Begun
<1>3. MapTypes'
  BY <1>1, DropType DEF Own, MapTypes
<1>4. Inodes'
  BY <1>1 DEF Own, Inodes
<1> QED BY <1>2, <1>3, <1>4 DEF Own

LEMMA PowerLossOwn ==
  ASSUME Own, PowerLoss
  PROVE  Own'
<1>1. /\ losses < MaxPowerLosses /\ losses' = losses + 1
      /\ data' = [i \in Writers |-> IF i \in synced THEN data[i] ELSE Empty]
      /\ pc' = [u \in Writers |-> IF InFlight(u) THEN "done" ELSE pc[u]]
      /\ UNCHANGED <<offer, fd, pos, dest, temp, file, synced, index, acked, known, overlap>>
  BY DEF PowerLoss
<1>2. losses' \in 1..MaxPowerLosses
  BY <1>1, IngestAssumption DEF Own, Types
<1>3. \A u \in Writers : pc'[u] \in {"new", "done"} /\ (pc'[u] = "new" <=> pc[u] = "new")
  BY <1>1 DEF InFlight
<1>4. Types'
  <2>1. Empty \in [1..Chunks -> Contents \cup {Hole}]
    BY DEF Empty
  <2>2. \A u \in Writers : Begun(u)'
    BY <1>1, <1>3 DEF Own, Types, Begun
  <2>3. pc' \in [Writers -> Before \cup {"new", "moved", "done"}]
    BY <1>1, <1>3
  <2>4. data' \in [Writers -> [1..Chunks -> Contents \cup {Hole}]]
    BY <1>1, <2>1 DEF Own, Types
  <2> QED BY <1>1, <1>2, <2>2, <2>3, <2>4, IngestAssumption DEF Own, Types
<1>5. MapTypes'
  BY <1>1 DEF Own, MapTypes
<1>6. Inodes'
  <2>1. /\ \A p \in DOMAIN temp : temp[p] \in Writers
        /\ \A p \in DOMAIN file : file[p] \in Writers
    BY MapsAre DEF Own, MapTypes
  <2> QED BY <1>1, <1>3, <2>1 DEF Own, Inodes
<1> QED BY <1>4, <1>5, <1>6 DEF Own

\* Whatever happens, the types hold and an inode has one path.
LEMMA OwnStep ==
  ASSUME BInv, Own, [Next]_vars
  PROVE  Own'
<1>1. CASE UNCHANGED <<pc, offer, fd, pos, dest, temp, file, data, synced, index, acked, known,
                       overlap, losses>>
  BY <1>1 DEF Own, Types, Begun, MapTypes, Inodes
<1>2. CASE RepairStep \/ UNCHANGED vars
  BY <1>1, <1>2 DEF RepairStep, vars
<1>3. ASSUME NEW u \in Writers, Upload(u) PROVE Own'
  BY <1>3, OpenOwn, IntoInboxOwn, WriteChunkOwn, OnTheWayOwn, PickOwn, EndsOwn, MoveOwn,
     FailOwn, RecordOwn DEF Upload
<1>4. ASSUME NEW p \in DOMAIN file, TakeAway(p) PROVE Own'
  BY <1>4, TakeAwayOwn
<1>5. ASSUME NEW p \in marks, Mark(p) PROVE Own'
  BY <1>5, MarkOwn
<1>6. CASE PowerLoss
  BY <1>6, PowerLossOwn
<1> QED BY <1>2, <1>3, <1>4, <1>5, <1>6 DEF Next


------------------------------------------------------------------------------
\* What holds while no two uploads in flight share a stem.

\* The step of an upload leaves the bytes, files and entries of the others alone.
Undisturbed(u) ==
    /\ "index_fails" \in drift => "index_fails" \in drift'
    /\ deleted' = deleted
    /\ \A v \in Writers \ {u} :
          /\ pc'[v] = pc[v] /\ offer'[v] = offer[v] /\ fd'[v] = fd[v] /\ pos'[v] = pos[v]
          /\ dest'[v] = dest[v]
          /\ (known'[v] = known[v] /\ InIndex \subseteq InIndex') \/ known'[v] = known[v] \cap InIndex'
          /\ pc[v] \in Before =>
                /\ TempPath(v) \in DOMAIN temp' /\ temp'[TempPath(v)] = temp[TempPath(v)]
                /\ data'[temp[TempPath(v)]] = data[temp[TempPath(v)]]
                /\ temp[TempPath(v)] \in synced => temp[TempPath(v)] \in synced'
          /\ pc[v] = "picked" => dest[v] \notin DOMAIN file'
          /\ pc[v] \in {"picked", "moved"} /\ dest[v] \in DOMAIN index' => dest[v] \in DOMAIN index
          /\ pc[v] \in {"picked", "moved"} /\ dest[v] \in unmarked => dest[v] \in unmarked'
    /\ \A p \in DOMAIN file :
          /\ p \in DOMAIN file' /\ file'[p] = file[p] /\ data'[file[p]] = data[file[p]]
          /\ file[p] \in synced => file[p] \in synced'

\* So what was true of them stays true, and what was intact stays intact.
LEMMA OthersSound ==
  ASSUME Sound, NEW u \in Writers, Undisturbed(u)
  PROVE  /\ \A v \in Writers \ {u} : Written(v)' /\ Placed(v)' /\ KnownIndexed(v)' /\ Late(v)'
         /\ \A p, c : Intact(p, c) => Intact(p, c)'
<1>1. \A p, c : Intact(p, c) => Intact(p, c)'
  BY DEF Intact, Undisturbed, Holds
<1>2. ASSUME NEW v \in Writers \ {u}
      PROVE  Written(v)' /\ Placed(v)' /\ KnownIndexed(v)' /\ Late(v)'
  <2>1. /\ pc'[v] = pc[v] /\ offer'[v] = offer[v] /\ fd'[v] = fd[v] /\ pos'[v] = pos[v]
        /\ dest'[v] = dest[v] /\ TempPath(v)' = TempPath(v) /\ deleted' = deleted
    BY DEF Undisturbed, TempPath
  <2>0. /\ known'[v] \subseteq known[v]
        /\ (known'[v] = known[v] /\ InIndex \subseteq InIndex') \/ known'[v] \subseteq InIndex'
    <3>1. \/ known'[v] = known[v] /\ InIndex \subseteq InIndex'
          \/ known'[v] = known[v] \cap InIndex'
      BY DEF Undisturbed
    <3> QED BY <3>1
  <2>2. Written(v) /\ Placed(v) /\ KnownIndexed(v) /\ Late(v)
    BY DEF Sound
  <2>3. Written(v)'
    <3> SUFFICES ASSUME pc[v] \in Before
                 PROVE  Written(v)'
      BY <2>1 DEF Written
    <3> DEFINE t == TempPath(v)
    <3>1. /\ t \in DOMAIN temp' /\ temp'[t] = temp[t] /\ data'[temp[t]] = data[temp[t]]
          /\ temp[t] \in synced => temp[t] \in synced'
      BY DEF Undisturbed
    <3>2. /\ t \in DOMAIN temp /\ (offer[v].mode # "inbox" => fd[v] = temp[t])
          /\ IF pc[v] = "streaming"
             THEN offer[v].mode # "inbox" /\ \A k \in 1..pos[v] : data[fd[v]][k] = offer[v].content
             ELSE Holds(temp[t], offer[v].content) /\ (offer[v].mode # "inbox" => temp[t] \in synced)
      BY <2>2 DEF Written
    <3>3. Holds(temp[t], offer[v].content) => Holds(temp[t], offer[v].content)'
      BY <2>1, <3>1 DEF Holds
    <3>4. CASE pc[v] = "streaming"
      <4>1. fd'[v] = temp'[TempPath(v)'] /\ data'[fd'[v]] = data[fd[v]]
        BY <2>1, <3>1, <3>2, <3>4
      <4>2. offer'[v].mode # "inbox" /\ \A k \in 1..pos'[v] : data'[fd'[v]][k] = offer'[v].content
        BY <2>1, <3>2, <3>4, <4>1
      <4>3. TempPath(v)' \in DOMAIN temp'
        BY <2>1, <3>1
      <4> QED BY <2>1, <3>4, <4>1, <4>2, <4>3 DEF Written
    <3>5. CASE pc[v] # "streaming"
      BY <2>1, <3>1, <3>2, <3>3, <3>5 DEF Written, Holds
    <3> QED BY <3>4, <3>5
  <2>4. Placed(v)'
    <3>1. CASE pc[v] = "picked"
      BY <2>1, <2>2, <3>1 DEF Placed, Undisturbed
    <3>2. CASE pc[v] = "moved"
      <4>1. v \in deleted \/ Intact(dest[v], offer[v].content)'
        <5>1. v \in deleted \/ Intact(dest[v], offer[v].content)
          BY <2>2, <3>2 DEF Placed
        <5>2. Intact(dest[v], offer[v].content) => Intact(dest[v], offer[v].content)'
          BY <1>1, <2>1 DEF Intact, Holds
        <5> QED BY <5>1, <5>2
      <4> QED BY <2>1, <2>2, <3>2, <4>1 DEF Placed, Undisturbed
    <3> QED BY <2>1, <3>1, <3>2 DEF Placed
  <2>5. KnownIndexed(v)' /\ Late(v)'
    BY <2>0, <2>1, <2>2 DEF KnownIndexed, Late, InFlight, Undisturbed
  <2> QED BY <2>3, <2>4, <2>5
<1> QED BY <1>1, <1>2

\* An upload that is under way stays apart from the others.
LEMMA StillApart ==
  ASSUME StemsApart, UNCHANGED offer, \A v \in Writers : InFlight(v)' => InFlight(v)
  PROVE  StemsApart'
  BY DEF StemsApart

\* The bytes of two uploads are in two inodes, and neither is a stored file's.
LEMMA TempsApart ==
  ASSUME Own, Sound, NEW u \in Writers, NEW v \in Writers \ {u}, pc[u] \in Before, pc[v] \in Before
  PROVE  /\ TempPath(u) # TempPath(v) /\ temp[TempPath(u)] # temp[TempPath(v)]
         /\ temp[TempPath(u)] \in Writers /\ temp[TempPath(v)] \in Writers
<1>1. offer[u].name.stem # offer[v].name.stem
  BY DEF Sound, StemsApart, InFlight, Before
<1>2. TempPath(u) \in DOMAIN temp /\ TempPath(v) \in DOMAIN temp
  BY DEF Sound, Written
<1>3. TempPath(u) # TempPath(v)
  BY <1>1 DEF TempPath
<1> QED BY <1>2, <1>3, MapsAre DEF Own, Inodes, MapTypes

\* It is enough to look at the upload that takes the step, and at what it records.
LEMMA SoundFrom ==
  ASSUME Own, Sound, NEW u \in Writers, Undisturbed(u), StemsApart',
         Written(u)', Placed(u)', KnownIndexed(u)', Late(u)',
         acked' \subseteq acked \cup {u},
         u \in acked' => pc'[u] = "done" /\ (u \in deleted \/ Intact(dest[u], offer[u].content)'),
         \A p \in DOMAIN index' \ unmarked' :
            \/ p \in DOMAIN index \ unmarked /\ index'[p] = index[p]
            \/ Intact(p, index[p])'
  PROVE  Sound'
<1>1. /\ \A v \in Writers \ {u} : Written(v)' /\ Placed(v)' /\ KnownIndexed(v)' /\ Late(v)'
      /\ \A p, c : Intact(p, c) => Intact(p, c)'
  BY OthersSound
<1>2. ASSUME NEW v \in acked'
      PROVE  pc'[v] = "done" /\ (v \in deleted' \/ Intact(dest[v], offer[v].content)')
  <2>1. CASE v = u
    BY <1>2, <2>1 DEF Undisturbed
  <2>2. CASE v # u
    <3>1. v \in acked /\ pc[v] = "done" /\ (v \in deleted \/ Intact(dest[v], offer[v].content))
      BY <1>2, <2>2 DEF Sound, Kept
    <3>2. v \in Writers
      BY <3>1 DEF Own, Types
    <3>3. pc'[v] = pc[v] /\ dest'[v] = dest[v] /\ offer'[v] = offer[v] /\ deleted' = deleted
      BY <2>2, <3>2 DEF Undisturbed
    <3> QED BY <1>1, <3>1, <3>3 DEF Intact, Holds
  <2> QED BY <2>1, <2>2
<1>3. ASSUME NEW p \in DOMAIN index' \ unmarked' PROVE Intact(p, index[p])'
  <2>1. CASE p \in DOMAIN index \ unmarked /\ index'[p] = index[p]
    <3>1. Intact(p, index[p])
      BY <2>1 DEF Sound, Kept
    <3> QED BY <1>1, <2>1, <3>1 DEF Intact, Holds
  <2> QED BY <1>3, <2>1
<1>4. Kept'
  BY <1>2, <1>3 DEF Kept
<1> QED BY <1>1, <1>4 DEF Sound

\* A new upload has a temp file, and an inode, of its own.
LEMMA OpenSound ==
  ASSUME Own, Sound, NEW u \in Writers, NEW o \in Offers, Open(u, o), ~overlap'
  PROVE  Sound'
<1> DEFINE tp == <<o.dir, o.name>>
           i == IF tp \in DOMAIN temp THEN temp[tp] ELSE u
<1>1. /\ pc[u] = "new" /\ pos[u] = 0 /\ Apart(o) /\ o.mode # "inbox"
      /\ pc' = [pc EXCEPT ![u] = "streaming"] /\ offer' = [offer EXCEPT ![u] = o]
      /\ known' = [known EXCEPT ![u] = InIndex] /\ temp' = Put(temp, tp, i)
      /\ fd' = [fd EXCEPT ![u] = i] /\ data' = [data EXCEPT ![i] = Empty] /\ synced' = synced \ {i}
      /\ UNCHANGED <<drift, pos, dest, file, index, acked, unmarked, deleted>>
  BY DEF Open, Start, removals, bucketVars, Own, Types, Begun
<1>2. /\ pc'[u] = "streaming" /\ offer'[u] = o /\ fd'[u] = i /\ TempPath(u)' = tp
      /\ known'[u] = InIndex /\ InIndex' = InIndex
  BY <1>1 DEF Own, Types, TempPath, InIndex
<1>3. temp' = [q \in DOMAIN temp \cup {tp} |-> IF q = tp THEN i ELSE temp[q]]
  BY <1>1 DEF Put
<1>4. /\ \A q \in DOMAIN temp : q # tp => temp[q] # i /\ temp[q] \in Writers
      /\ \A q \in DOMAIN file : file[q] # i /\ file[q] \in Writers
  BY <1>1, MapsAre DEF Own, Inodes, MapTypes
<1>5. \A v \in Writers \ {u} : InFlight(v) => offer[v].name.stem # o.name.stem
  BY <1>1 DEF Apart
<1> HIDE DEF i
<1>6. Undisturbed(u)
  <2>1. ASSUME NEW v \in Writers \ {u}, pc[v] \in Before
        PROVE  /\ TempPath(v) \in DOMAIN temp' /\ temp'[TempPath(v)] = temp[TempPath(v)]
               /\ data'[temp[TempPath(v)]] = data[temp[TempPath(v)]]
               /\ temp[TempPath(v)] \in synced => temp[TempPath(v)] \in synced'
    <3>1. TempPath(v) \in DOMAIN temp
      BY <2>1 DEF Sound, Written
    <3>2. TempPath(v) # tp
      BY <1>5, <2>1 DEF TempPath, InFlight, Before
    <3> HIDE DEF tp
    <3> QED BY <1>1, <1>3, <1>4, <3>1, <3>2 DEF Own, Types
  <2>2. \A p \in DOMAIN file :
          /\ p \in DOMAIN file' /\ file'[p] = file[p] /\ data'[file[p]] = data[file[p]]
          /\ file[p] \in synced => file[p] \in synced'
    BY <1>1, <1>4 DEF Own, Types
  <2>3. \A v \in Writers \ {u} :
          /\ pc'[v] = pc[v] /\ offer'[v] = offer[v] /\ fd'[v] = fd[v] /\ pos'[v] = pos[v]
          /\ dest'[v] = dest[v] /\ known'[v] = known[v]
    BY <1>1 DEF Own, Types
  <2>4. \A v \in Writers \ {u} : pc[v] = "picked" => dest[v] \notin DOMAIN file'
    BY <1>1 DEF Sound, Placed
  <2> QED BY <1>1, <1>2, <2>1, <2>2, <2>3, <2>4 DEF Undisturbed
<1>7. StemsApart'
  BY <1>2, <1>5, <1>6 DEF Undisturbed, Sound, StemsApart, InFlight
<1>8. Written(u)'
  <2>1. tp \in DOMAIN temp' /\ temp'[tp] = i
    BY <1>3
  <2> HIDE DEF tp
  <2> QED BY <1>1, <1>2, <2>1 DEF Written
<1>9. Placed(u)' /\ KnownIndexed(u)' /\ Late(u)' /\ u \notin acked'
  BY <1>1, <1>2 DEF Placed, KnownIndexed, Late, Sound, Kept
<1> QED BY <1>1, <1>6, <1>7, <1>8, <1>9, SoundFrom

LEMMA IntoInboxSound ==
  ASSUME Own, Sound, NEW u \in Writers, NEW o \in Offers, IntoInbox(u, o), ~overlap'
  PROVE  Sound'
<1> DEFINE tp == <<Inbox, o.name>>
           bytes == [k \in 1..Chunks |-> o.content]
<1>1. /\ pc[u] = "new" /\ Apart(o) /\ o.mode = "inbox" /\ tp \notin DOMAIN temp
      /\ pc' = [pc EXCEPT ![u] = "placing"] /\ offer' = [offer EXCEPT ![u] = o]
      /\ known' = [known EXCEPT ![u] = InIndex] /\ temp' = Put(temp, tp, u)
      /\ data' = [data EXCEPT ![u] = bytes]
      /\ UNCHANGED <<drift, synced, fd, pos, dest, file, index, acked, unmarked, deleted>>
  BY DEF IntoInbox, Start, removals, bucketVars
<1>0. o.dir = Inbox
  BY <1>1, IngestAssumption
<1>2. /\ pc'[u] = "placing" /\ offer'[u] = o /\ TempPath(u)' = tp /\ data'[u] = bytes
      /\ known'[u] = InIndex /\ InIndex' = InIndex
  BY <1>0, <1>1 DEF Own, Types, TempPath, InIndex
<1>3. temp' = [q \in DOMAIN temp \cup {tp} |-> IF q = tp THEN u ELSE temp[q]]
  BY <1>1 DEF Put
<1>4. /\ \A q \in DOMAIN temp : temp[q] # u /\ temp[q] \in Writers
      /\ \A q \in DOMAIN file : file[q] # u /\ file[q] \in Writers
  BY <1>1, MapsAre DEF Own, Inodes, MapTypes
<1>5. \A v \in Writers \ {u} : InFlight(v) => offer[v].name.stem # o.name.stem
  BY <1>1 DEF Apart
<1>6. Undisturbed(u)
  <2>1. ASSUME NEW v \in Writers \ {u}, pc[v] \in Before
        PROVE  /\ TempPath(v) \in DOMAIN temp' /\ temp'[TempPath(v)] = temp[TempPath(v)]
               /\ data'[temp[TempPath(v)]] = data[temp[TempPath(v)]]
    <3>1. TempPath(v) \in DOMAIN temp
      BY <2>1 DEF Sound, Written
    <3>2. TempPath(v) # tp
      BY <1>1, <3>1
    <3> HIDE DEF tp, bytes
    <3> QED BY <1>1, <1>3, <1>4, <3>1, <3>2 DEF Own, Types
  <2>2. \A p \in DOMAIN file :
          p \in DOMAIN file' /\ file'[p] = file[p] /\ data'[file[p]] = data[file[p]]
    BY <1>1, <1>4 DEF Own, Types
  <2>3. \A v \in Writers \ {u} :
          /\ pc'[v] = pc[v] /\ offer'[v] = offer[v] /\ fd'[v] = fd[v] /\ pos'[v] = pos[v]
          /\ dest'[v] = dest[v] /\ known'[v] = known[v]
    BY <1>1 DEF Own, Types
  <2>4. \A v \in Writers \ {u} : pc[v] = "picked" => dest[v] \notin DOMAIN file'
    BY <1>1 DEF Sound, Placed
  <2> QED BY <1>1, <1>2, <2>1, <2>2, <2>3, <2>4 DEF Undisturbed
<1>7. StemsApart'
  BY <1>2, <1>5, <1>6 DEF Undisturbed, Sound, StemsApart, InFlight
<1>8. Written(u)'
  <2>1. tp \in DOMAIN temp' /\ temp'[tp] = u
    BY <1>3
  <2>2. Holds(u, o.content)'
    BY <1>2, IngestAssumption DEF Holds
  <2>3. Holds(temp[TempPath(u)], offer[u].content)'
    BY <1>2, <2>1, <2>2 DEF Holds
  <2> HIDE DEF tp, bytes
  <2> QED BY <1>1, <1>2, <2>1, <2>3 DEF Written
<1>9. Placed(u)' /\ KnownIndexed(u)' /\ Late(u)' /\ u \notin acked'
  BY <1>1, <1>2 DEF Placed, KnownIndexed, Late, Sound, Kept
<1> QED BY <1>1, <1>6, <1>7, <1>8, <1>9, SoundFrom

LEMMA WriteChunkSound ==
  ASSUME Own, Sound, NEW u \in Writers, WriteChunk(u)
  PROVE  Sound'
<1> DEFINE t == TempPath(u)
           i == temp[t]
<1>1. /\ pc[u] = "streaming" /\ pos[u] \in 0..Chunks /\ pos[u] + 1 \in 1..Chunks
      /\ data' = [data EXCEPT ![fd[u]][pos[u] + 1] = offer[u].content]
      /\ pos' = [pos EXCEPT ![u] = @ + 1] /\ synced' = synced \ {fd[u]}
      /\ UNCHANGED <<drift, pc, offer, fd, dest, temp, file, index, acked, known, unmarked, deleted>>
  BY IngestAssumption DEF removals, WriteChunk, bucketVars, Own, Types
<1>2. /\ t \in DOMAIN temp /\ fd[u] = i /\ offer[u].mode # "inbox" /\ i \in Writers
      /\ \A k \in 1..pos[u] : data[i][k] = offer[u].content
  BY <1>1, MapsAre DEF Sound, Written, Before, Own, MapTypes
<1>3. /\ TempPath(u)' = t /\ pos'[u] = pos[u] + 1 /\ InIndex' = InIndex
      /\ data' = [data EXCEPT ![i] = [@ EXCEPT ![pos[u] + 1] = offer[u].content]]
  BY <1>1, <1>2 DEF TempPath, InIndex, Own, Types
<1>4. Undisturbed(u)
  <2>1. ASSUME NEW v \in Writers \ {u}, pc[v] \in Before
        PROVE  /\ TempPath(v) \in DOMAIN temp' /\ temp'[TempPath(v)] = temp[TempPath(v)]
               /\ data'[temp[TempPath(v)]] = data[temp[TempPath(v)]]
               /\ temp[TempPath(v)] \in synced => temp[TempPath(v)] \in synced'
    <3>1. TempPath(v) \in DOMAIN temp
      BY <2>1 DEF Sound, Written
    <3>2. temp[TempPath(v)] # i /\ temp[TempPath(v)] \in Writers
      BY <1>1, <2>1, TempsApart DEF Before
    <3> HIDE DEF i
    <3> QED BY <1>1, <1>2, <1>3, <3>1, <3>2 DEF Own, Types
  <2>2. ASSUME NEW p \in DOMAIN file
        PROVE  /\ p \in DOMAIN file' /\ file'[p] = file[p] /\ data'[file[p]] = data[file[p]]
               /\ file[p] \in synced => file[p] \in synced'
    <3>1. file[p] # i /\ file[p] \in Writers
      BY <1>2, MapsAre DEF Own, Inodes, MapTypes
    <3> HIDE DEF i
    <3> QED BY <1>1, <1>2, <1>3, <3>1 DEF Own, Types
  <2>3. \A v \in Writers \ {u} : /\ pos'[v] = pos[v]
                                 /\ pc[v] = "picked" => dest[v] \notin DOMAIN file'
    BY <1>1 DEF Own, Types, Sound, Placed
  <2> QED BY <1>1, <1>3, <2>1, <2>2, <2>3 DEF Undisturbed
<1>5. Written(u)'
  <2>3. t \in DOMAIN temp' /\ temp'[t] = i
    BY <1>1, <1>2
  <2> HIDE DEF i
  <2>1. \A k \in 1..Chunks :
           data'[i][k] = IF k = pos[u] + 1 THEN offer[u].content ELSE data[i][k]
    <3>1. data'[i] = [data[i] EXCEPT ![pos[u] + 1] = offer[u].content]
      BY <1>2, <1>3 DEF Own, Types
    <3>2. DOMAIN data[i] = 1..Chunks
      BY <1>2 DEF Own, Types
    <3> QED BY <3>1, <3>2
  <2>2. ASSUME NEW k \in 1..pos[u] + 1 PROVE data'[i][k] = offer[u].content
    <3>1. k \in 1..Chunks /\ (k = pos[u] + 1 \/ k \in 1..pos[u])
      BY <1>1, IngestAssumption
    <3>2. data'[i][k] = IF k = pos[u] + 1 THEN offer[u].content ELSE data[i][k]
      BY <2>1, <3>1
    <3> QED BY <1>2, <3>1, <3>2
  <2>4. \A k \in 1..pos'[u] : data'[fd'[u]][k] = offer'[u].content
    BY <1>1, <1>2, <1>3, <2>2
  <2>5. TempPath(u)' \in DOMAIN temp' /\ fd'[u] = temp'[TempPath(u)']
    BY <1>1, <1>2, <1>3, <2>3
  <2> QED BY <1>1, <1>2, <2>4, <2>5 DEF Written
<1>6. StemsApart'
  BY <1>1, StillApart DEF InFlight, Sound
<1>7. Placed(u)' /\ KnownIndexed(u)' /\ Late(u)' /\ u \notin acked'
  BY <1>1, <1>3 DEF Placed, KnownIndexed, Late, Sound, Kept, InFlight
<1> QED BY <1>1, <1>4, <1>5, <1>6, <1>7, SoundFrom

\* A step that moves no byte and no file disturbs nobody.
LEMMA QuietStep ==
  ASSUME Own, Sound, NEW u \in Writers, "index_fails" \in drift => "index_fails" \in drift',
         synced \subseteq synced', UNCHANGED <<offer, fd, pos, temp, file, data, index, known, unmarked, deleted>>,
         \A v \in Writers \ {u} : pc'[v] = pc[v] /\ dest'[v] = dest[v]
  PROVE  Undisturbed(u)
<1>1. InIndex' = InIndex
  BY DEF InIndex
<1>2. \A v \in Writers : pc[v] \in Before => TempPath(v) \in DOMAIN temp
  BY DEF Sound, Written
<1>3. \A v \in Writers : pc[v] = "picked" => dest[v] \notin DOMAIN file
  BY DEF Sound, Placed
<1> QED BY <1>1, <1>2, <1>3 DEF Undisturbed

LEMMA StreamEndsSound ==
  ASSUME Own, Sound, NEW u \in Writers, StreamEnds(u)
  PROVE  Sound'
<1>1. /\ pc[u] = "streaming" /\ pos[u] = Chunks /\ pc' = [pc EXCEPT ![u] = "hashed"]
      /\ synced' = synced \cup {fd[u]}
      /\ UNCHANGED <<drift, offer, fd, pos, dest, temp, file, data, index, acked, known, unmarked, deleted>>
  BY DEF removals, StreamEnds, AfterFsync, bucketVars
<1>2. /\ TempPath(u) \in DOMAIN temp /\ fd[u] = temp[TempPath(u)] /\ offer[u].mode # "inbox"
      /\ \A k \in 1..Chunks : data[fd[u]][k] = offer[u].content
  BY <1>1 DEF Sound, Written, Before
<1>3. pc'[u] = "hashed" /\ TempPath(u)' = TempPath(u) /\ InIndex' = InIndex
  BY <1>1 DEF Own, Types, TempPath, InIndex
<1>4. fd[u] # Nothing
  BY <1>1, IngestAssumption DEF Own, Types, Begun
<1>5. Undisturbed(u)
  BY <1>1, QuietStep DEF Own, Types
<1>6. Written(u)'
  <2>1. Holds(temp[TempPath(u)], offer[u].content)'
    BY <1>1, <1>2, <1>3, <1>4 DEF Holds
  <2> QED BY <1>1, <1>2, <1>3, <2>1 DEF Written
<1>7. StemsApart'
  <2>1. \A v \in Writers : InFlight(v)' => InFlight(v)
    BY <1>1 DEF InFlight, Own, Types
  <2> QED BY <1>1, <2>1, StillApart DEF Sound
<1>8. Placed(u)' /\ KnownIndexed(u)' /\ Late(u)' /\ u \notin acked'
  BY <1>1, <1>3 DEF Placed, KnownIndexed, Late, Sound, Kept, InFlight
<1> QED BY <1>1, <1>5, <1>6, <1>7, <1>8, SoundFrom

\* An upload that ends without a file takes only its own temp file away.
LEMMA EndsSound ==
  ASSUME Own, Sound, NEW u \in Writers, StreamFails(u) \/ Duplicate(u)
  PROVE  Sound'
<1>1. /\ pc[u] \in Before /\ pc' = [pc EXCEPT ![u] = "done"] /\ temp' = Drop(temp, TempPath(u))
      /\ UNCHANGED <<drift, offer, fd, pos, dest, file, data, synced, index, acked, known, unmarked, deleted>>
  BY DEF removals, StreamFails, Duplicate, WithoutTemp, Before, bucketVars
<1>2. pc'[u] = "done" /\ InIndex' = InIndex
  BY <1>1 DEF Own, Types, InIndex
<1>3. temp' = [q \in DOMAIN temp \ {TempPath(u)} |-> temp[q]]
  BY <1>1 DEF Drop
<1>4. Undisturbed(u)
  <2>1. ASSUME NEW v \in Writers \ {u}, pc[v] \in Before
        PROVE  TempPath(v) \in DOMAIN temp' /\ temp'[TempPath(v)] = temp[TempPath(v)]
    <3>1. TempPath(v) \in DOMAIN temp /\ TempPath(v) # TempPath(u)
      BY <1>1, <2>1, TempsApart DEF Sound, Written
    <3> QED BY <1>3, <3>1
  <2>2. \A v \in Writers \ {u} : /\ pc'[v] = pc[v]
                                 /\ pc[v] = "picked" => dest[v] \notin DOMAIN file'
    BY <1>1 DEF Own, Types, Sound, Placed
  <2> QED BY <1>1, <1>2, <2>1, <2>2 DEF Undisturbed
<1>5. StemsApart'
  <2>1. \A v \in Writers : InFlight(v)' => InFlight(v)
    BY <1>1 DEF InFlight, Own, Types
  <2> QED BY <1>1, <2>1, StillApart DEF Sound
<1>6. Written(u)' /\ Placed(u)' /\ KnownIndexed(u)' /\ Late(u)' /\ u \notin acked'
  BY <1>1, <1>2 DEF Written, Placed, KnownIndexed, Late, Sound, Kept, InFlight, Before
<1> QED BY <1>1, <1>4, <1>5, <1>6, SoundFrom

\* An upload that fails somewhere else leaves everything where it is.
LEMMA FailSound ==
  ASSUME Own, Sound, NEW u \in Writers, Fail(u)
  PROVE  Sound'
<1>1. /\ InFlight(u) /\ pc' = [pc EXCEPT ![u] = "done"]
      /\ UNCHANGED <<drift, offer, fd, pos, dest, temp, file, data, synced, index, acked, known, unmarked, deleted>>
  BY DEF removals, Fail, Release
<1>2. pc'[u] = "done" /\ \A v \in Writers \ {u} : pc'[v] = pc[v]
  BY <1>1 DEF Own, Types
<1>3. Undisturbed(u)
  BY <1>1, <1>2, QuietStep
<1>4. StemsApart'
  <2>1. \A v \in Writers : InFlight(v)' => InFlight(v)
    BY <1>1, <1>2 DEF InFlight
  <2> QED BY <1>1, <2>1, StillApart DEF Sound
<1>5. Written(u)' /\ Placed(u)' /\ KnownIndexed(u)' /\ Late(u)' /\ u \notin acked'
  BY <1>1, <1>2 DEF Written, Placed, KnownIndexed, Late, Sound, Kept, InFlight, Before
<1> QED BY <1>1, <1>3, <1>4, <1>5, SoundFrom

\* The lookup finds what the index had when the upload began, if the index answers.
LEMMA LookupSound ==
  ASSUME Own, Sound, NEW u \in Writers, Lookup(u)
  PROVE  Sound'
<1>1. PICK s \in {"hit", "placing"} : pc' = [pc EXCEPT ![u] = s]
  BY DEF Lookup
<1>2. /\ pc[u] = "hashed"
      /\ UNCHANGED <<offer, fd, pos, temp, file, data, synced, index, acked, known, unmarked, deleted>>
  BY DEF removals, Lookup
<1>3. \A v \in Writers \ {u} : pc'[v] = pc[v] /\ dest'[v] = dest[v]
  BY <1>1 DEF Lookup, Own, Types
<1>4. pc'[u] = s /\ TempPath(u)' = TempPath(u) /\ InIndex' = InIndex
  BY <1>1, <1>2 DEF Own, Types, TempPath, InIndex
<1>5. drift \subseteq drift' /\ (s = "placing" /\ Hits(u) # {} => "index_fails" \in drift')
  <2>1. CASE UNCHANGED bucketVars /\ (s = "placing" => Hits(u) = {})
    BY <2>1 DEF bucketVars
  <2>2. CASE IndexFails
    BY <2>2 DEF IndexFails, Depart
  <2>3. (\E p \in Hits(u) : pc' = [pc EXCEPT ![u] = "hit"] /\ UNCHANGED bucketVars)
        \/ IF Hits(u) = {} THEN UNCHANGED bucketVars ELSE IndexFails
    BY DEF Lookup
  <2>4. CASE \E p \in Hits(u) : pc' = [pc EXCEPT ![u] = "hit"] /\ UNCHANGED bucketVars
    <3>1. s = "hit"
      BY <1>4, <2>4 DEF Own, Types
    <3> QED BY <2>1, <2>4, <3>1
  <2> QED BY <2>1, <2>2, <2>3, <2>4
<1>6. Undisturbed(u)
  BY <1>2, <1>3, <1>5, QuietStep
<1>7. StemsApart'
  <2>1. \A v \in Writers : InFlight(v)' => InFlight(v)
    BY <1>2, <1>3 DEF InFlight
  <2> QED BY <1>2, <2>1, StillApart DEF Sound
<1>8. Written(u)'
  <2>1. Written(u)
    BY DEF Sound
  <2>2. Holds(temp[TempPath(u)], offer[u].content)' <=> Holds(temp[TempPath(u)], offer[u].content)
    BY <1>2, <1>4 DEF Holds
  <2> QED BY <1>2, <1>4, <2>1, <2>2 DEF Written, Before
<1>9. Late(u)'
  <2>1. CASE Hits(u) = {}
    <3>1. offer[u].content \notin InIndex
      BY <2>1 DEF Hits, InIndex
    <3>2. known[u] \subseteq InIndex
      BY <1>2 DEF Sound, KnownIndexed, InFlight
    <3> QED BY <1>2, <3>1, <3>2 DEF Late
  <2>2. CASE Hits(u) # {}
    BY <1>4, <1>5, <2>2 DEF Late
  <2> QED BY <2>1, <2>2
<1>10. Placed(u)' /\ KnownIndexed(u)' /\ u \notin acked'
  BY <1>2, <1>4 DEF Placed, KnownIndexed, Sound, Kept, InFlight
<1> QED BY <1>2, <1>6, <1>7, <1>8, <1>9, <1>10, SoundFrom

LEMMA ReserveDirSound ==
  ASSUME Own, Sound, NEW u \in Writers, ReserveDir(u)
  PROVE  Sound'
<1>1. /\ pc[u] = "placing" /\ pc' = [pc EXCEPT ![u] = "reserved"]
      /\ UNCHANGED <<offer, fd, pos, dest, temp, file, data, synced, index, acked, known, unmarked, deleted>>
  BY DEF removals, ReserveDir
<1>2. drift \subseteq drift'
  BY DEF ReserveDir, Reserve, ReserveFails, Depart
<1>3. pc'[u] = "reserved" /\ TempPath(u)' = TempPath(u) /\ InIndex' = InIndex
      /\ \A v \in Writers \ {u} : pc'[v] = pc[v]
  BY <1>1 DEF Own, Types, TempPath, InIndex
<1>4. Undisturbed(u)
  BY <1>1, <1>2, <1>3, QuietStep
<1>5. StemsApart'
  <2>1. \A v \in Writers : InFlight(v)' => InFlight(v)
    BY <1>1, <1>3 DEF InFlight
  <2> QED BY <1>1, <2>1, StillApart DEF Sound
<1>6. Written(u)'
  <2>1. Written(u)
    BY DEF Sound
  <2>2. Holds(temp[TempPath(u)], offer[u].content)' <=> Holds(temp[TempPath(u)], offer[u].content)
    BY <1>1, <1>3 DEF Holds
  <2> QED BY <1>1, <1>3, <2>1, <2>2 DEF Written, Before
<1>7. Placed(u)' /\ KnownIndexed(u)' /\ Late(u)' /\ u \notin acked'
  <2>1. KnownIndexed(u) /\ Late(u)
    BY DEF Sound
  <2> QED BY <1>1, <1>2, <1>3, <2>1 DEF Placed, KnownIndexed, Late, Sound, Kept, InFlight
<1> QED BY <1>1, <1>4, <1>5, <1>6, <1>7, SoundFrom

\* The name that is picked is free, and so no entry of it is current.
LEMMA PickSound ==
  ASSUME BInv, Own, Sound, NEW u \in Writers, Pick(u)
  PROVE  Sound'
<1> DEFINE d == FinalDir(u)
           n == UniqueName(d, offer[u].name)
<1>1. /\ pc[u] \in {"placing", "reserved"}
      /\ pc' = [pc EXCEPT ![u] = "picked"] /\ dest' = [dest EXCEPT ![u] = <<d, n>>]
      /\ UNCHANGED <<drift, offer, fd, pos, temp, file, data, synced, index, acked, known, unmarked, deleted>>
  BY DEF removals, Pick, bucketVars
<1>2. /\ pc'[u] = "picked" /\ dest'[u] = <<d, n>> /\ TempPath(u)' = TempPath(u) /\ InIndex' = InIndex
      /\ \A v \in Writers \ {u} : pc'[v] = pc[v] /\ dest'[v] = dest[v]
  BY <1>1 DEF Own, Types, TempPath, InIndex
<1>3. offer[u] \in Offers
  BY <1>1 DEF Own, Types, Begun
<1>4. d \in Dirs
  <2>1. slot[u] \in Dirs
    BY BucketAssumption DEF BInv, BucketTypeOK, Dirs
  <2> QED BY <1>3, <2>1, OfferFacts DEF FinalDir
<1>5. n.stem = offer[u].name.stem /\ <<d, n>> \notin DOMAIN file
  <2> HIDE DEF d
  <2> QED BY <1>3, <1>4, UniqueIsFree DEF FreeIn
<1> HIDE DEF d, n
<1>6. Undisturbed(u)
  BY <1>1, <1>2, QuietStep
<1>7. StemsApart'
  <2>1. \A v \in Writers : InFlight(v)' => InFlight(v)
    BY <1>1, <1>2 DEF InFlight
  <2> QED BY <1>1, <2>1, StillApart DEF Sound
<1>8. Written(u)'
  <2>1. Written(u)
    BY DEF Sound
  <2>2. Holds(temp[TempPath(u)], offer[u].content)' <=> Holds(temp[TempPath(u)], offer[u].content)
    BY <1>1, <1>2 DEF Holds
  <2> QED BY <1>1, <1>2, <2>1, <2>2 DEF Written, Before
<1>9. Placed(u)'
  <2>1. <<d, n>> \in DOMAIN index => <<d, n>> \in unmarked
    BY <1>5 DEF Sound, Kept, Intact
  <2> QED BY <1>1, <1>2, <1>5, <2>1 DEF Placed
<1>10. KnownIndexed(u)' /\ Late(u)' /\ u \notin acked'
  <2>1. KnownIndexed(u) /\ Late(u)
    BY DEF Sound
  <2> QED BY <1>1, <1>2, <2>1 DEF KnownIndexed, Late, Sound, Kept, InFlight
<1> QED BY <1>1, <1>6, <1>7, <1>8, <1>9, <1>10, SoundFrom

\* The rename replaces nothing, and takes nobody's bytes.
LEMMA MoveSound ==
  ASSUME Own, Sound, NEW u \in Writers, Move(u)
  PROVE  Sound'
<1> DEFINE t == TempPath(u)
           i == temp[t]
           s == IF offer[u].mode = "inbox" THEN "done" ELSE "moved"
<1>1. /\ pc[u] = "picked" /\ t \in DOMAIN temp /\ pc' = [pc EXCEPT ![u] = s]
      /\ temp' = Drop(temp, t) /\ file' = Put(file, dest[u], i)
      /\ UNCHANGED <<offer, fd, pos, dest, data, synced, index, acked, known, unmarked, deleted>>
  BY DEF removals, Move, WithoutTemp
<1>2. drift \subseteq drift'
  BY DEF Move, Place, DropIn, Depart, bucketVars
<1>3. /\ Holds(i, offer[u].content) /\ (offer[u].mode # "inbox" => i \in synced)
      /\ dest[u] \notin DOMAIN file /\ (dest[u] \in DOMAIN index => dest[u] \in unmarked)
      /\ dest[u][2].stem = offer[u].name.stem
  BY <1>1 DEF Sound, Written, Placed, Before
<1>4. /\ temp' = [q \in DOMAIN temp \ {t} |-> temp[q]]
      /\ file' = [q \in DOMAIN file \cup {dest[u]} |-> IF q = dest[u] THEN i ELSE file[q]]
  BY <1>1 DEF Put, Drop
<1>5. pc'[u] = s /\ InIndex' = InIndex /\ \A v \in Writers \ {u} : pc'[v] = pc[v]
  BY <1>1 DEF Own, Types, InIndex
<1>6. Undisturbed(u)
  <2>1. ASSUME NEW v \in Writers \ {u}, pc[v] \in Before
        PROVE  TempPath(v) \in DOMAIN temp' /\ temp'[TempPath(v)] = temp[TempPath(v)]
    <3>1. TempPath(v) \in DOMAIN temp /\ TempPath(v) # t
      BY <1>1, <2>1, TempsApart DEF Sound, Written, Before
    <3> HIDE DEF t
    <3> QED BY <1>4, <3>1
  <2>2. ASSUME NEW v \in Writers \ {u}, pc[v] = "picked" PROVE dest[v] \notin DOMAIN file'
    <3>1. dest[v] \notin DOMAIN file /\ dest[v][2].stem = offer[v].name.stem
      BY <2>2 DEF Sound, Placed
    <3>2. offer[v].name.stem # offer[u].name.stem
      BY <1>1, <2>2 DEF Sound, StemsApart, InFlight
    <3> QED BY <1>3, <1>4, <3>1, <3>2
  <2>3. \A p \in DOMAIN file : p \in DOMAIN file' /\ file'[p] = file[p]
    <3> HIDE DEF i
    <3> QED BY <1>3, <1>4
  <2> QED BY <1>1, <1>2, <1>5, <2>1, <2>2, <2>3 DEF Undisturbed
<1>7. StemsApart'
  <2>1. \A v \in Writers : InFlight(v)' => InFlight(v)
    BY <1>1, <1>5 DEF InFlight
  <2> QED BY <1>1, <2>1, StillApart DEF Sound
<1>8. Placed(u)'
  <2> SUFFICES ASSUME offer[u].mode # "inbox" PROVE Placed(u)'
    BY <1>5 DEF Placed
  <2>1. dest[u] \in DOMAIN file' /\ file'[dest[u]] = i
    BY <1>4
  <2>2. Intact(dest[u], offer[u].content)'
    <3> HIDE DEF i
    <3> QED BY <1>1, <1>3, <2>1 DEF Intact, Holds
  <2> QED BY <1>1, <1>3, <1>5, <2>2 DEF Placed
<1>9. Written(u)' /\ KnownIndexed(u)' /\ Late(u)' /\ u \notin acked'
  <2>1. KnownIndexed(u) /\ Late(u)
    BY DEF Sound
  <2> QED BY <1>1, <1>2, <1>5, <2>1 DEF Written, KnownIndexed, Late, Sound, Kept, InFlight, Before
<1> QED BY <1>1, <1>6, <1>7, <1>8, <1>9, SoundFrom

\* What is recorded is true: the entry is of the file the rename put there.
LEMMA RecordSound ==
  ASSUME Own, Sound, NEW u \in Writers, Record(u)
  PROVE  Sound'
<1> DEFINE d == dest[u]
<1>1. /\ pc[u] = "moved" /\ pc' = [pc EXCEPT ![u] = "done"] /\ acked' = acked \cup {u}
      /\ known' = StillKnown
      /\ UNCHANGED <<offer, fd, pos, dest, temp, file, data, synced, deleted>>
  BY DEF Record, MayRecord
<1>2. \/ /\ index' = Put(index, d, offer[u].content)
         /\ unmarked' = IF u \in deleted THEN unmarked \cup {d} ELSE unmarked \ {d}
      \/ UNCHANGED <<index, unmarked>>
  BY DEF Record
<1>3. drift \subseteq drift'
  BY DEF Record, IndexFails, Depart, bucketVars
<1>4. /\ u \in deleted \/ Intact(d, offer[u].content)
      /\ d \in DOMAIN index => d \in unmarked
      /\ d[2].stem = offer[u].name.stem
  BY <1>1 DEF Sound, Placed
<1>5. u \in deleted \/ Intact(d, offer[u].content)'
  BY <1>1, <1>4 DEF Intact, Holds
<1>6. /\ DOMAIN index' \subseteq DOMAIN index \cup {d}
      /\ \A p \in DOMAIN index' : p # d => p \in DOMAIN index /\ index'[p] = index[p]
      /\ unmarked \ {d} \subseteq unmarked' /\ unmarked' \subseteq unmarked \cup {d}
  <2> HIDE DEF d
  <2> QED BY <1>2 DEF Put
<1>7. d \in DOMAIN index' \ unmarked' => u \notin deleted /\ index'[d] = offer[u].content
  <2> HIDE DEF d
  <2> QED BY <1>2, <1>4 DEF Put
<1>8. pc'[u] = "done" /\ \A v \in Writers \ {u} : pc'[v] = pc[v]
  BY <1>1 DEF Own, Types
<1>9. \A v \in Writers : known'[v] = known[v] \cap InIndex'
  BY <1>1 DEF StillKnown
<1>10. Undisturbed(u)
  <2>1. ASSUME NEW v \in Writers \ {u}, pc[v] \in {"picked", "moved"} PROVE dest[v] # d
    <3>1. dest[v][2].stem = offer[v].name.stem /\ offer[v].name.stem # offer[u].name.stem
      BY <1>1, <2>1 DEF Sound, Placed, StemsApart, InFlight
    <3> QED BY <1>4, <3>1
  <2>2. \A v \in Writers : /\ pc[v] \in Before => TempPath(v) \in DOMAIN temp
                           /\ pc[v] = "picked" => dest[v] \notin DOMAIN file
    BY DEF Sound, Written, Placed
  <2> HIDE DEF d
  <2> QED BY <1>1, <1>3, <1>6, <1>8, <1>9, <2>1, <2>2 DEF Undisturbed
<1>11. StemsApart'
  <2>1. \A v \in Writers : InFlight(v)' => InFlight(v)
    BY <1>1, <1>8 DEF InFlight
  <2> QED BY <1>1, <2>1, StillApart DEF Sound
<1>12. \A p \in DOMAIN index' \ unmarked' :
          \/ p \in DOMAIN index \ unmarked /\ index'[p] = index[p]
          \/ Intact(p, index[p])'
  <2> TAKE p \in DOMAIN index' \ unmarked'
  <2>1. CASE p = d
    BY <1>1, <1>5, <1>7, <2>1 DEF Intact, Holds
  <2>2. CASE p # d
    <3> HIDE DEF d
    <3> QED BY <1>6, <2>2
  <2> QED BY <2>1, <2>2
<1>13. Written(u)' /\ Placed(u)' /\ KnownIndexed(u)' /\ Late(u)'
  BY <1>8 DEF Written, Placed, KnownIndexed, Late, InFlight, Before
<1> HIDE DEF d
<1> QED BY <1>1, <1>5, <1>8, <1>10, <1>11, <1>12, <1>13, SoundFrom DEF d

\* A file that is taken away leaves its entry behind, and the names that were picked.
LEMMA TakeAwaySound ==
  ASSUME Own, Sound, NEW p \in DOMAIN file, TakeAway(p)
  PROVE  Sound'
<1>1. /\ file' = Drop(file, p) /\ unmarked' = unmarked \cup ({p} \cap DOMAIN index)
      /\ deleted' = deleted \cup {u \in Writers : dest[u] = p /\ (pc[u] = "moved" \/ u \in acked)}
      /\ UNCHANGED <<pc, offer, fd, pos, dest, temp, data, synced, index, acked, known>>
  BY DEF TakeAway
<1>2. "index_fails" \in drift => "index_fails" \in drift'
  BY DEF TakeAway, Remove, bucketVars
<1>3. file' = [q \in DOMAIN file \ {p} |-> file[q]]
  BY <1>1 DEF Drop
<1>4. \A q, c : q # p /\ Intact(q, c) => Intact(q, c)'
  BY <1>1, <1>3 DEF Intact, Holds
<1>5. StemsApart' /\ InIndex' = InIndex
  BY <1>1 DEF Sound, StemsApart, InFlight, InIndex
<1>6. Kept'
  <2>1. \A u \in acked' : pc'[u] = "done" /\ (u \in deleted' \/ Intact(dest[u], offer[u].content)')
    <3> TAKE u \in acked'
    <3>1. u \in acked /\ pc[u] = "done" /\ (u \in deleted \/ Intact(dest[u], offer[u].content))
      BY <1>1 DEF Sound, Kept
    <3>2. CASE dest[u] = p
      BY <1>1, <3>1, <3>2 DEF Own, Types
    <3>3. CASE dest[u] # p
      BY <1>1, <1>4, <3>1, <3>3 DEF Intact, Holds
    <3> QED BY <3>2, <3>3
  <2>2. \A q \in DOMAIN index' \ unmarked' : Intact(q, index[q])'
    <3> TAKE q \in DOMAIN index' \ unmarked'
    <3>1. q # p /\ index'[q] = index[q] /\ Intact(q, index[q])
      BY <1>1 DEF Sound, Kept
    <3> QED BY <1>4, <3>1 DEF Intact, Holds
  <2> QED BY <2>1, <2>2 DEF Kept
<1>7. ASSUME NEW u \in Writers
      PROVE  Written(u)' /\ Placed(u)' /\ KnownIndexed(u)' /\ Late(u)'
  <2>1. Written(u) /\ Placed(u) /\ KnownIndexed(u) /\ Late(u)
    BY DEF Sound
  <2>2. Written(u)'
    BY <1>1, <2>1 DEF Written, Holds, TempPath
  <2>3. Placed(u)'
    <3>1. CASE pc[u] = "picked"
      BY <1>1, <1>3, <2>1, <3>1 DEF Placed
    <3>2. CASE pc[u] = "moved"
      <4>1. u \in deleted' \/ Intact(dest[u], offer[u].content)'
        <5>1. CASE dest[u] = p
          BY <1>1, <3>2, <5>1
        <5>2. CASE dest[u] # p
          BY <1>1, <1>4, <2>1, <3>2, <5>2 DEF Placed, Intact, Holds
        <5> QED BY <5>1, <5>2
      <4> QED BY <1>1, <2>1, <3>2, <4>1 DEF Placed
    <3> QED BY <1>1, <3>1, <3>2 DEF Placed
  <2>4. KnownIndexed(u)' /\ Late(u)'
    BY <1>1, <1>2, <1>5, <2>1 DEF KnownIndexed, Late, InFlight
  <2> QED BY <2>2, <2>3, <2>4
<1> QED BY <1>5, <1>6, <1>7 DEF Sound

\* A mark, however late, takes an entry away; what an upload knew of it, it knows no longer.
LEMMA MarkSound ==
  ASSUME Own, Sound, NEW p \in marks, Mark(p)
  PROVE  Sound'
<1>1. /\ index' = Drop(index, p) /\ unmarked' = unmarked \ {p} /\ known' = StillKnown
      /\ UNCHANGED <<drift, pc, offer, fd, pos, dest, temp, file, data, synced, acked, deleted>>
  BY DEF Mark, bucketVars
<1>2. index' = [q \in DOMAIN index \ {p} |-> index[q]]
  BY <1>1 DEF Drop
<1>3. \A q, c : Intact(q, c)' <=> Intact(q, c)
  BY <1>1 DEF Intact, Holds
<1>4. StemsApart'
  BY <1>1 DEF Sound, StemsApart, InFlight
<1>5. Kept'
  <2>1. \A u \in acked' : pc'[u] = "done" /\ (u \in deleted' \/ Intact(dest[u], offer[u].content)')
    BY <1>1 DEF Sound, Kept, Intact, Holds
  <2>2. \A q \in DOMAIN index' \ unmarked' : Intact(q, index[q])'
    <3> TAKE q \in DOMAIN index' \ unmarked'
    <3>1. q \in DOMAIN index \ unmarked /\ index'[q] = index[q]
      BY <1>1, <1>2
    <3>2. Intact(q, index[q])
      BY <3>1 DEF Sound, Kept
    <3> QED BY <1>1, <3>1, <3>2 DEF Intact, Holds
  <2> QED BY <2>1, <2>2 DEF Kept
<1>6. ASSUME NEW u \in Writers
      PROVE  Written(u)' /\ Placed(u)' /\ KnownIndexed(u)' /\ Late(u)'
  <2>1. Written(u) /\ Placed(u) /\ KnownIndexed(u) /\ Late(u)
    BY DEF Sound
  <2>2. Written(u)'
    BY <1>1, <2>1 DEF Written, Holds, TempPath
  <2>3. Placed(u)'
    BY <1>1, <1>2, <2>1 DEF Placed, Intact, Holds
  <2>4. known'[u] = known[u] \cap InIndex'
    BY <1>1 DEF StillKnown
  <2>5. KnownIndexed(u)' /\ Late(u)'
    BY <1>1, <2>1, <2>4 DEF KnownIndexed, Late, InFlight
  <2> QED BY <2>2, <2>3, <2>5
<1> QED BY <1>4, <1>5, <1>6 DEF Sound

\* A power loss ends every upload; what was answered had been synced.
LEMMA PowerLossSound ==
  ASSUME Own, Sound, PowerLoss
  PROVE  Sound'
<1>1. /\ data' = [i \in Writers |-> IF i \in synced THEN data[i] ELSE Empty]
      /\ pc' = [u \in Writers |-> IF InFlight(u) THEN "done" ELSE pc[u]]
      /\ UNCHANGED <<offer, dest, file, synced, index, acked, unmarked, deleted>>
  BY DEF PowerLoss
<1>2. \A u \in Writers : pc'[u] \in {"new", "done"} /\ (pc[u] = "done" => pc'[u] = "done")
  BY <1>1 DEF InFlight
<1>3. \A q, c : Intact(q, c) => Intact(q, c)'
  BY <1>1 DEF Intact, Holds, Own, Types
<1>4. StemsApart'
  BY <1>2 DEF StemsApart, InFlight
<1>5. Kept'
  <2>1. \A u \in acked' : pc'[u] = "done" /\ (u \in deleted' \/ Intact(dest[u], offer[u].content)')
    <3> TAKE u \in acked'
    <3>1. u \in Writers /\ pc[u] = "done" /\ (u \in deleted \/ Intact(dest[u], offer[u].content))
      BY <1>1 DEF Sound, Kept, Own, Types
    <3> QED BY <1>1, <1>2, <1>3, <3>1 DEF Intact, Holds
  <2>2. \A q \in DOMAIN index' \ unmarked' : Intact(q, index[q])'
    <3> TAKE q \in DOMAIN index' \ unmarked'
    <3>1. Intact(q, index[q])
      BY <1>1 DEF Sound, Kept
    <3> QED BY <1>1, <1>3, <3>1 DEF Intact, Holds
  <2> QED BY <2>1, <2>2 DEF Kept
<1>6. \A u \in Writers : Written(u)' /\ Placed(u)' /\ KnownIndexed(u)' /\ Late(u)'
  BY <1>2 DEF Written, Placed, KnownIndexed, Late, InFlight, Before
<1> QED BY <1>4, <1>5, <1>6 DEF Sound

\* Two uploads of one stem are not forgotten, and need leave to begin.
LEMMA OverlapStep ==
  ASSUME [Next]_vars
  PROVE  (overlap => overlap') /\ (~Overlap /\ ~overlap => ~overlap')
<1>1. ASSUME NEW u \in Writers, Upload(u) PROVE UNCHANGED overlap \/ \E o \in Offers : Start(u, o)
  <2>1. CASE \E o \in Offers : Open(u, o) \/ IntoInbox(u, o)
    BY <2>1 DEF Open, IntoInbox
  <2>2. CASE WriteChunk(u) \/ StreamEnds(u) \/ StreamFails(u) \/ Lookup(u) \/ Duplicate(u)
    BY <2>2 DEF WriteChunk, StreamEnds, StreamFails, Lookup, Duplicate
  <2>3. CASE ReserveDir(u) \/ Pick(u) \/ Move(u) \/ Fail(u) \/ Record(u)
    BY <2>3 DEF ReserveDir, Pick, Move, Fail, Record
  <2> QED BY <1>1, <2>1, <2>2, <2>3 DEF Upload
<1>2. ASSUME NEW u \in Writers, NEW o \in Offers, Start(u, o)
      PROVE  (overlap => overlap') /\ (~Overlap /\ ~overlap => ~overlap')
  BY <1>2 DEF Start
<1>3. CASE \/ (\E p \in DOMAIN file : TakeAway(p)) \/ (\E p \in marks : Mark(p))
           \/ PowerLoss \/ RepairStep \/ UNCHANGED vars
  BY <1>3 DEF TakeAway, Mark, PowerLoss, RepairStep, vars
<1> QED BY <1>1, <1>2, <1>3 DEF Next

\* Uploads that have been apart so far, and still are, stay sound.
LEMMA SoundStep ==
  ASSUME BInv, Own, ~overlap => Sound, [Next]_vars, ~overlap'
  PROVE  Sound'
<1>1. ~overlap
  BY OverlapStep
<1>2. Sound
  BY <1>1
<1>3. CASE /\ UNCHANGED <<pc, offer, fd, pos, dest, temp, file, data, synced, index, acked, known,
                          unmarked, deleted>>
           /\ drift \subseteq drift'
  <2>1. StemsApart' /\ Kept'
    BY <1>2, <1>3 DEF Sound, StemsApart, InFlight, Kept, Intact, Holds
  <2>2. \A u \in Writers : Written(u)' /\ Placed(u)' /\ KnownIndexed(u)' /\ Late(u)'
    BY <1>2, <1>3 DEF Sound, Written, Placed, KnownIndexed, Late, InFlight, InIndex, Intact, Holds, TempPath
  <2> QED BY <2>1, <2>2 DEF Sound
<1>4. CASE RepairStep
  <2>1. drift \subseteq drift'
    BY <1>4, DriftGrows DEF RepairStep, BucketNext
  <2> QED BY <1>3, <1>4, <2>1 DEF RepairStep, removals
<1>5. CASE UNCHANGED vars
  BY <1>3, <1>5 DEF vars, bucketVars
<1>6. ASSUME NEW u \in Writers, Upload(u) PROVE Sound'
  BY <1>2, <1>6, OpenSound, IntoInboxSound, WriteChunkSound, StreamEndsSound, EndsSound, LookupSound,
     ReserveDirSound, PickSound, MoveSound, FailSound, RecordSound DEF Upload
<1>7. ASSUME NEW p \in DOMAIN file, TakeAway(p) PROVE Sound'
  BY <1>2, <1>7, TakeAwaySound
<1>8. ASSUME NEW p \in marks, Mark(p) PROVE Sound'
  BY <1>2, <1>8, MarkSound
<1>9. CASE PowerLoss
  BY <1>2, <1>9, PowerLossSound
<1> QED BY <1>4, <1>5, <1>6, <1>7, <1>8, <1>9 DEF Next

------------------------------------------------------------------------------
\* The theorems.

LEMMA InitIInv == Init => IInv
<1> SUFFICES ASSUME Init PROVE IInv
  OBVIOUS
<1>1. BInv
  BY InitBInv DEF Init
<1>2. Types
  <2>1. Empty \in [1..Chunks -> Contents \cup {Hole}]
    BY DEF Empty
  <2>2. \A u \in Writers : Begun(u)
    BY DEF Init, Begun
  <2>3. /\ pc \in [Writers -> Before \cup {"new", "moved", "done"}]
        /\ offer \in [Writers -> Offers \cup {Nothing}] /\ fd \in [Writers -> Writers \cup {Nothing}]
        /\ dest \in [Writers -> Paths \cup {Nothing}] /\ known \in [Writers -> SUBSET Contents]
    BY DEF Init
  <2>4. pos \in [Writers -> 0..Chunks] /\ losses \in 0..MaxPowerLosses
    BY IngestAssumption DEF Init
  <2>5. data \in [Writers -> [1..Chunks -> Contents \cup {Hole}]]
    BY <2>1 DEF Init
  <2> QED BY <2>2, <2>3, <2>4, <2>5 DEF Init, Types
<1>3. MapTypes /\ Inodes
  <2>1. DOMAIN temp = {} /\ DOMAIN file = {} /\ DOMAIN index = {}
    BY DEF Init
  <2>2. <<>> \in Maps(Writers) /\ <<>> \in Maps(Contents)
    <3>1. ASSUME NEW S PROVE <<>> \in Maps(S)
      <4>1. <<>> \in [{} -> S] /\ {} \in SUBSET Paths
        OBVIOUS
      <4> QED BY <4>1 DEF Maps
    <3> QED BY <3>1
  <2> QED BY <2>1, <2>2 DEF Init, MapTypes, Inodes
<1>4. Sound
  <2>1. DOMAIN index = {}
    BY DEF Init
  <2> QED BY <2>1 DEF Init, Sound, StemsApart, Kept, Written, Placed, KnownIndexed, Late, InFlight, Before
<1> QED BY <1>1, <1>2, <1>3, <1>4 DEF IInv, Own

\* The invariant holds in every reachable state.
THEOREM IngestInvariance == Spec => []IInv
<1>1. Init => IInv
  BY InitIInv
<1>2. IInv /\ [Next]_vars => IInv'
  <2> SUFFICES ASSUME IInv, [Next]_vars PROVE IInv'
    OBVIOUS
  <2>1. BInv'
    BY BucketStep, StepBInv DEF IInv
  <2> QED BY <2>1, OwnStep, SoundStep DEF IInv
<1> QED BY <1>1, <1>2, PTL DEF Spec

\* ingest() uses the allocator as it is meant to be used: what the uploads do to the buckets is a
\* behaviour of BucketAllocator.
THEOREM IngestUsesAllocator == Spec => BucketSpec
<1>1. Init => BucketInit
  BY DEF Init
<1>2. IInv /\ [Next]_vars => [BucketNext]_bucketVars
  BY BucketStep DEF IInv
<1> QED BY <1>1, <1>2, IngestInvariance, PTL DEF Spec, BucketSpec

\* So the directories the uploads fill stay within the limit, as they do for the allocator.
THEOREM UploadsWithinLimit == Spec => []DirWithinLimit
  BY IngestUsesAllocator, DirectoriesWithinLimit, PTL

\* What ingest() answered with 201 is there, byte for byte, until somebody takes it away: no
\* rename replaces it, no chunk is written into it, and no power loss takes it.
THEOREM AckedStaysIntact == Spec => []AckedIntactApart
<1>1. IInv => AckedIntactApart
  <2> SUFFICES ASSUME IInv, ~overlap, NEW u \in acked \ deleted
               PROVE  Holds(At(file, dest[u]), offer[u].content)
    BY DEF AckedIntactApart, AckedIntact
  <2> QED BY DEF IInv, Sound, Kept, Intact, At
<1> QED BY <1>1, IngestInvariance, PTL

\* If the handlers let no two uploads of one stem be in flight, that is so without exception.
THEOREM AckedAlwaysIntact == ~Overlap => (Spec => []AckedIntact)
<1> SUFFICES ASSUME ~Overlap PROVE Spec => []AckedIntact
  OBVIOUS
<1>1. Init => ~overlap
  BY DEF Init
<1>2. ~overlap /\ [Next]_vars => ~overlap'
  BY OverlapStep
<1>3. AckedIntactApart /\ ~overlap => AckedIntact
  BY DEF AckedIntactApart
<1> QED BY <1>1, <1>2, <1>3, AckedStaysIntact, PTL DEF Spec

\* An entry of media_index that record_entry() made is true of the file it names, until that file
\* is taken away: a late mark hides an entry, but makes none false, and a name taken again while
\* the old entry is still live is told apart.
THEOREM IndexStaysTrue == Spec => []IndexTruth
<1>1. IInv => IndexTruth
  BY DEF IInv, Sound, Kept, Intact, At, IndexTruth
<1> QED BY <1>1, IngestInvariance, PTL

\* find_live_by_hash() is asked once the hash is known, and what it knew when the upload began is
\* not stored again, if no two uploads in flight may share a stem.
THEOREM LateDuplicateCaught == ~Overlap => (Spec => []NoLateDuplicate)
<1> SUFFICES ASSUME ~Overlap PROVE Spec => []NoLateDuplicate
  OBVIOUS
<1>1. Init => ~overlap
  BY DEF Init
<1>2. ~overlap /\ [Next]_vars => ~overlap'
  BY OverlapStep
<1>3. IInv /\ ~overlap => NoLateDuplicate
  BY DEF IInv, Sound, Late, NoLateDuplicate
<1> QED BY <1>1, <1>2, <1>3, IngestInvariance, PTL DEF Spec
==============================================================================
