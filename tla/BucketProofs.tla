----------------------------- MODULE BucketProofs -----------------------------
(***************************************************************************)
(* Proofs about BucketAllocator, for every limit, every set of writers and *)
(* file names and every number of parts.                                   *)
(*                                                                         *)
(* That no directory holds more than Limit files is not inductive: it needs*)
(* that a count covers the files and the slots of its part, and that a     *)
(* repair in progress, whose commit replaces counts, has seen the counts   *)
(* as they are and at least the files that are there.  BInv says so.       *)
(***************************************************************************)
EXTENDS BucketAllocator, FiniteSetTheorems, TLAPS

\* The counts cover what is there, within the limit, and a part without a row
\* has no files and no slots.
Covered == /\ \A p \in 1..Len(count) : /\ Cardinality(leaf[p]) + Cardinality(Holders(p)) <= count[p]
                                       /\ count[p] <= Limit
           /\ \A p \in Parts : p > Len(count) => leaf[p] = {} /\ Holders(p) = {}

\* A repair is at a part that it has seen and that still has a row.
RepairShape == /\ repair.at <= Len(repair.seen) /\ Len(repair.fix) = Len(repair.seen)
               /\ Len(repair.seen) <= Len(count) /\ repair.dirty \subseteq 1..Len(repair.seen)

\* A repair runs alone, and what it is about to write covers what is there.
RepairSafe == repair.at # 0 =>
    /\ \A w \in Writers : slot[w] = 0
    /\ repair.seen = count /\ Len(repair.fix) = Len(count) /\ repair.at <= Len(count)
    /\ \A p \in 1..Len(count) : Cardinality(leaf[p]) <= repair.fix[p] /\ repair.fix[p] <= Limit

BInv == BucketTypeOK /\ RepairShape /\ (drift = {} => Covered /\ RepairSafe)

------------------------------------------------------------------------------
USE BucketAssumption

\* The sets that are counted are finite.
LEMMA Finite ==
  ASSUME BucketTypeOK
  PROVE  \A p \in Parts : /\ IsFiniteSet(leaf[p]) /\ Cardinality(leaf[p]) \in Nat
                          /\ IsFiniteSet(Holders(p)) /\ Cardinality(Holders(p)) \in Nat
<1> TAKE p \in Parts
<1>1. leaf[p] \subseteq FileNames /\ Holders(p) \subseteq Writers
  BY DEF BucketTypeOK, Holders
<1> QED BY <1>1, FS_Subset, FS_CardinalityType

\* Putting an element into a finite set adds at most one, taking one out
\* takes away exactly one.
LEMMA AddOne ==
  ASSUME NEW S, NEW x, IsFiniteSet(S)
  PROVE  /\ IsFiniteSet(S \cup {x}) /\ Cardinality(S \cup {x}) <= Cardinality(S) + 1
         /\ Cardinality(S \cup {x}) \in Nat /\ Cardinality(S) \in Nat
<1>1. Cardinality(S) \in Nat
  BY FS_CardinalityType
<1>2. /\ IsFiniteSet(S \cup {x})
      /\ Cardinality(S \cup {x}) = IF x \in S THEN Cardinality(S) ELSE Cardinality(S) + 1
  BY FS_AddElement
<1> QED BY <1>1, <1>2

LEMMA TakeOne ==
  ASSUME NEW S, NEW x \in S, IsFiniteSet(S)
  PROVE  Cardinality(S \ {x}) = Cardinality(S) - 1 /\ Cardinality(S) \in Nat
  BY FS_RemoveElement, FS_CardinalityType

\* Fewer elements are not counted as more.
LEMMA Fewer ==
  ASSUME NEW S, NEW T \in SUBSET S, IsFiniteSet(S)
  PROVE  Cardinality(T) <= Cardinality(S) /\ Cardinality(T) \in Nat /\ Cardinality(S) \in Nat
  BY FS_Subset, FS_CardinalityType

\* A repair at rest is of its type.
LEMMA IdleType == Idle \in RepairStates
  BY DEF Idle, RepairStates

\* A step of the repair keeps the type, if it is at a part it has seen.
LEMMA RepairType ==
  ASSUME BucketTypeOK, RepairShape, Repair
  PROVE  BucketTypeOK' /\ RepairShape'
<1>0. /\ count \in Seq(Nat) /\ Len(count) \in 0..MaxParts
      /\ repair.at \in 0..MaxParts /\ repair.scanned \in BOOLEAN /\ repair.seen \in Seq(Nat)
      /\ repair.fix \in Seq(Nat) /\ repair.dirty \in SUBSET Parts
      /\ Len(repair.seen) \in Nat /\ Len(repair.fix) \in Nat
  BY DEF BucketTypeOK, RepairStates
<1>1. CASE RepairRead
  <2>1. repair' = [at |-> 1, scanned |-> FALSE, seen |-> count, fix |-> count, dirty |-> {}]
    BY <1>1 DEF RepairRead, Idle
  <2>2. repair' \in RepairStates
    BY <1>0, <2>1 DEF RepairStates
  <2>3. UNCHANGED <<count, slot, leaf>> /\ drift' \subseteq Allow
    BY <1>1 DEF RepairRead, Depart, BucketTypeOK
  <2>4. RepairShape'
    <3>1. Len(count) # 0
      BY <1>0, <1>1 DEF RepairRead
    <3> QED BY <1>0, <2>1, <2>3, <3>1 DEF RepairShape
  <2> QED BY <2>2, <2>3, <2>4 DEF BucketTypeOK
<1>2. CASE RepairScan
  <2>1. repair.at \in 1..Len(repair.fix) /\ FilesIn(repair.at) \in Nat
    <3>1. repair.at # 0
      BY <1>2 DEF RepairScan
    <3>2. repair.at <= Len(repair.fix)
      BY DEF RepairShape
    <3>3. repair.at \in Parts
      BY <1>0, <3>1 DEF Parts
    <3>4. Cardinality(leaf[repair.at]) \in Nat
      BY <3>3, Finite
    <3> QED BY <1>0, <3>1, <3>2, <3>4 DEF FilesIn
  <2>2. repair' = [repair EXCEPT !.scanned = TRUE,
                                 !.fix = [repair.fix EXCEPT ![repair.at] = FilesIn(repair.at)]]
    BY <1>2 DEF RepairScan
  <2>3. [repair.fix EXCEPT ![repair.at] = FilesIn(repair.at)] \in Seq(Nat)
    BY <1>0, <2>1
  <2>4. Len([repair.fix EXCEPT ![repair.at] = FilesIn(repair.at)]) = Len(repair.fix)
    BY <1>0, <2>1
  <2>5. repair \in RepairStates
    BY DEF BucketTypeOK
  <2>6. /\ repair' \in RepairStates /\ repair'.at = repair.at /\ repair'.seen = repair.seen
        /\ Len(repair'.fix) = Len(repair.fix) /\ repair'.dirty = repair.dirty
    BY <2>2, <2>3, <2>4, <2>5 DEF RepairStates
  <2>7. UNCHANGED <<count, slot, leaf, drift>>
    BY <1>2 DEF RepairScan
  <2> QED BY <2>6, <2>7 DEF BucketTypeOK, RepairShape
<1>3. CASE RepairUpdate
  <2>1. repair' = [repair EXCEPT !.at = repair.at + 1, !.scanned = FALSE, !.dirty = Dirty]
    BY <1>3 DEF RepairUpdate
  <2>2. Dirty \in SUBSET (1..Len(repair.seen)) /\ repair.at + 1 \in 1..Len(repair.seen)
    <3>1. repair.at # 0 /\ repair.at < Len(repair.seen)
      BY <1>3 DEF RepairUpdate
    <3>2. Dirty \subseteq repair.dirty \cup {repair.at}
      BY DEF Dirty
    <3>3. repair.dirty \subseteq 1..Len(repair.seen)
      BY DEF RepairShape
    <3>4. repair.at \in 1..Len(repair.seen) /\ repair.at + 1 \in 1..Len(repair.seen)
      BY <1>0, <3>1
    <3> QED BY <3>2, <3>3, <3>4
  <2>3. 1..Len(repair.seen) \subseteq Parts
    BY <1>0 DEF RepairShape, Parts
  <2>4. /\ repair' \in RepairStates /\ repair'.at = repair.at + 1 /\ repair'.seen = repair.seen
        /\ repair'.fix = repair.fix /\ repair'.dirty = Dirty
    <3>1. repair \in RepairStates
      BY DEF BucketTypeOK
    <3>2. repair.at + 1 \in 0..MaxParts /\ Dirty \in SUBSET Parts
      BY <2>2, <2>3 DEF Parts
    <3> QED BY <2>1, <3>1, <3>2 DEF RepairStates
  <2>5. UNCHANGED <<count, slot, leaf, drift>>
    BY <1>3 DEF RepairUpdate
  <2> QED BY <2>2, <2>4, <2>5 DEF BucketTypeOK, RepairShape
<1>4. CASE RepairCommit
  <2>1. Dirty \in SUBSET (1..Len(repair.seen))
    <3>1. repair.at # 0 /\ repair.at = Len(repair.seen)
      BY <1>4 DEF RepairCommit
    <3>2. Dirty \subseteq repair.dirty \cup {repair.at}
      BY DEF Dirty
    <3>3. repair.dirty \subseteq 1..Len(repair.seen)
      BY DEF RepairShape
    <3> QED BY <1>0, <3>1, <3>2, <3>3
  <2>2. \A p \in 1..Len(count) : count[p] \in Nat /\ (p \in Dirty => repair.fix[p] \in Nat)
    <3> TAKE p \in 1..Len(count)
    <3>1. count[p] \in Nat
      BY <1>0
    <3>2. ASSUME p \in Dirty PROVE repair.fix[p] \in Nat
      <4>1. p \in 1..Len(repair.fix)
        BY <2>1, <3>2 DEF RepairShape
      <4> QED BY <1>0, <4>1
    <3> QED BY <3>1, <3>2
  <2>3. count' = [p \in 1..Len(count) |-> IF p \in Dirty THEN repair.fix[p] ELSE count[p]]
    BY <1>0, <1>4 DEF RepairCommit
  <2>4. count' \in Seq(Nat) /\ Len(count') = Len(count)
    BY <1>0, <2>2, <2>3
  <2>5. repair' = Idle /\ UNCHANGED <<slot, leaf, drift>>
    BY <1>4 DEF RepairCommit
  <2>6. RepairShape'
    BY <1>0, <2>4, <2>5 DEF RepairShape, Idle
  <2> QED BY <2>4, <2>5, <2>6, IdleType DEF BucketTypeOK
<1> QED BY <1>1, <1>2, <1>3, <1>4 DEF Repair

\* Every step keeps the type.
LEMMA TypeStep ==
  ASSUME BucketTypeOK, RepairShape, BucketNext
  PROVE  BucketTypeOK' /\ RepairShape'
<1>1. ASSUME NEW w \in Writers, Reserve(w) PROVE BucketTypeOK' /\ RepairShape'
  <2>0. drift' \subseteq Allow
    BY <1>1 DEF Reserve, Depart, BucketTypeOK
  <2>1. CASE \E p \in WithRoom : /\ count' = [count EXCEPT ![p] = @ + 1]
                                /\ slot' = [slot EXCEPT ![w] = p]
    <3> PICK p \in WithRoom : /\ count' = [count EXCEPT ![p] = @ + 1]
                              /\ slot' = [slot EXCEPT ![w] = p]
      BY <2>1
    <3>1. p \in 1..Len(count) /\ Len(count) \in Nat /\ p \in 0..MaxParts
      BY DEF WithRoom, BucketTypeOK
    <3>2. count' \in Seq(Nat) /\ Len(count') = Len(count)
      BY <3>1 DEF BucketTypeOK
    <3>3. UNCHANGED <<leaf, repair>>
      BY <1>1 DEF Reserve
    <3> QED BY <2>0, <3>1, <3>2, <3>3 DEF RepairShape, BucketTypeOK
  <2>2. CASE /\ Len(count) < MaxParts /\ count' = Append(count, 1)
             /\ slot' = [slot EXCEPT ![w] = Len(count) + 1]
    <3>1. count' \in Seq(Nat) /\ Len(count') = Len(count) + 1 /\ Len(count) + 1 \in 0..MaxParts
      BY <2>2 DEF BucketTypeOK
    <3>2. UNCHANGED <<leaf, repair>> /\ Len(count) \in Nat
      BY <1>1 DEF Reserve, BucketTypeOK
    <3>3. repair.seen \in Seq(Nat) /\ Len(repair.seen) \in Nat
      BY DEF BucketTypeOK, RepairStates
    <3> QED BY <2>0, <2>2, <3>1, <3>2, <3>3 DEF RepairShape, BucketTypeOK
  <2> QED BY <1>1, <2>1, <2>2 DEF Reserve
<1>2. ASSUME NEW w \in Writers, ReserveFails(w) PROVE BucketTypeOK' /\ RepairShape'
  BY <1>2 DEF ReserveFails, Depart, BucketTypeOK, RepairShape
<1>3. ASSUME NEW w \in Writers, NEW n \in FileNames, Place(w, n) PROVE BucketTypeOK' /\ RepairShape'
  <2>1. slot[w] \in Parts
    BY <1>3 DEF Place, BucketTypeOK, Parts
  <2>2. leaf[slot[w]] \cup {n} \in SUBSET FileNames
    BY <2>1 DEF BucketTypeOK
  <2>3. leaf' \in [Parts -> SUBSET FileNames]
    BY <1>3, <2>2 DEF Place, BucketTypeOK
  <2>4. slot' \in [Writers -> 0..MaxParts]
    BY <1>3 DEF Place, BucketTypeOK
  <2>5. UNCHANGED <<count, repair, drift>>
    BY <1>3 DEF Place
  <2> QED BY <2>3, <2>4, <2>5 DEF BucketTypeOK, RepairShape
<1>4. ASSUME NEW W \in SUBSET Writers, Release(W), repair' \in {repair, Idle} PROVE BucketTypeOK' /\ RepairShape'
  <2>1. slot' \in [Writers -> 0..MaxParts]
    BY <1>4 DEF Release, BucketTypeOK
  <2>2. Len(count) \in Nat /\ UNCHANGED <<count, leaf, drift>>
    BY <1>4 DEF Release, BucketTypeOK
  <2>3. repair' \in RepairStates /\ RepairShape'
    <3>1. CASE repair' = repair
      BY <2>2, <3>1 DEF BucketTypeOK, RepairShape
    <3>2. CASE repair' = Idle
      BY <2>2, <3>2, IdleType DEF RepairShape, Idle
    <3> QED BY <1>4, <3>1, <3>2
  <2> QED BY <2>1, <2>2, <2>3 DEF BucketTypeOK
<1>5. ASSUME NEW p \in Parts, NEW n \in FileNames, Remove(p, n) \/ DropIn(p, n) PROVE BucketTypeOK' /\ RepairShape'
  <2>1. leaf[p] \cup {n} \in SUBSET FileNames /\ leaf[p] \ {n} \in SUBSET FileNames
    BY DEF BucketTypeOK
  <2>2. leaf' \in [Parts -> SUBSET FileNames]
    <3>1. CASE leaf' = [leaf EXCEPT ![p] = leaf[p] \cup {n}]
      BY <2>1, <3>1 DEF BucketTypeOK
    <3>2. CASE leaf' = [leaf EXCEPT ![p] = leaf[p] \ {n}]
      BY <2>1, <3>2 DEF BucketTypeOK
    <3> QED BY <1>5, <3>1, <3>2 DEF Remove, DropIn
  <2>3. UNCHANGED <<count, slot, repair>> /\ drift' \subseteq Allow
    BY <1>5 DEF Remove, DropIn, Depart, BucketTypeOK
  <2> QED BY <2>2, <2>3 DEF BucketTypeOK, RepairShape
<1>6. ASSUME IndexFails PROVE BucketTypeOK' /\ RepairShape'
  BY <1>6 DEF IndexFails, Depart, BucketTypeOK, RepairShape
<1>7. ASSUME Repair PROVE BucketTypeOK' /\ RepairShape'
  BY <1>7, RepairType
<1> QED BY <1>1, <1>2, <1>3, <1>4, <1>5, <1>6, <1>7 DEF BucketNext

------------------------------------------------------------------------------
\* Departures are remembered.
LEMMA DriftGrows ==
  ASSUME BucketNext
  PROVE  drift \subseteq drift'
  BY DEF BucketNext, Reserve, ReserveFails, Place, Release, Remove, DropIn, IndexFails,
         Repair, RepairRead, RepairScan, RepairUpdate, RepairCommit, Depart

\* A reservation adds one holder and raises the count by one.
LEMMA ReserveCovers ==
  ASSUME BInv, drift = {}, drift' = {}, NEW w \in Writers, Reserve(w)
  PROVE  Covered' /\ RepairSafe'
<1>1. repair.at = 0 /\ UNCHANGED <<leaf, repair>> /\ slot[w] = 0
  BY DEF Reserve, Depart
<1>2. RepairSafe'
  BY <1>1 DEF RepairSafe
<1>3. Covered /\ BucketTypeOK /\ Len(count) \in Nat
  BY DEF BInv, BucketTypeOK
<1>4. ASSUME NEW p \in Parts, slot' = [slot EXCEPT ![w] = p]
      PROVE  /\ Cardinality(Holders(p)') <= Cardinality(Holders(p)) + 1
             /\ Cardinality(Holders(p)') \in Nat
             /\ \A q \in Parts : q # p => Holders(q)' = Holders(q)
  <2>1. slot \in [Writers -> 0..MaxParts]
    BY <1>3 DEF BucketTypeOK
  <2>2. Holders(p)' = Holders(p) \cup {w}
    BY <1>1, <1>4, <2>1 DEF Holders
  <2>3. \A q \in Parts : q # p => Holders(q)' = Holders(q)
    BY <1>1, <1>4, <2>1 DEF Holders, Parts
  <2> QED BY <1>3, <2>2, <2>3, Finite, AddOne
<1>5. CASE \E p \in WithRoom : /\ count' = [count EXCEPT ![p] = @ + 1]
                              /\ slot' = [slot EXCEPT ![w] = p]
  <2> PICK p \in WithRoom : /\ count' = [count EXCEPT ![p] = @ + 1]
                            /\ slot' = [slot EXCEPT ![w] = p]
    BY <1>5
  <2>1. p \in 1..Len(count) /\ p \in Parts /\ count[p] < Limit
    BY <1>3 DEF WithRoom, HasRoom, BucketTypeOK, Parts
  <2>2. /\ Len(count') = Len(count) /\ count'[p] = count[p] + 1
        /\ \A q \in 1..Len(count) : count[q] \in Nat /\ (q # p => count'[q] = count[q])
    BY <1>3, <2>1 DEF BucketTypeOK
  <2>3. ASSUME NEW q \in 1..Len(count)
        PROVE  Cardinality(leaf'[q]) + Cardinality(Holders(q)') <= count'[q] /\ count'[q] <= Limit
    <3>1. /\ q \in Parts /\ leaf'[q] = leaf[q] /\ Cardinality(leaf[q]) \in Nat
          /\ Cardinality(Holders(q)) \in Nat
      BY <1>1, <1>3, Finite DEF BucketTypeOK, Parts
    <3>2. Cardinality(leaf[q]) + Cardinality(Holders(q)) <= count[q] /\ count[q] <= Limit
      BY <1>3 DEF Covered
    <3>3. CASE q = p
      <4>1. /\ Cardinality(Holders(p)') <= Cardinality(Holders(p)) + 1
            /\ Cardinality(Holders(p)') \in Nat
        BY <1>4, <2>1
      <4>2. count[p] \in Nat /\ count'[p] = count[p] + 1 /\ count[p] + 1 <= Limit
        BY <2>1, <2>2
      <4>3. Cardinality(leaf[p]) + Cardinality(Holders(p)') <= count[p] + 1
        BY <3>1, <3>2, <3>3, <4>1, <4>2
      <4> QED BY <3>1, <3>3, <4>2, <4>3
    <3>4. CASE q # p
      BY <1>4, <2>1, <2>2, <3>1, <3>2, <3>4
    <3> QED BY <3>3, <3>4
  <2>4. ASSUME NEW q \in Parts, q > Len(count) PROVE leaf'[q] = {} /\ Holders(q)' = {}
    <3>1. q # p
      BY <1>3, <2>1, <2>4
    <3> QED BY <1>1, <1>3, <1>4, <2>1, <2>4, <3>1 DEF Covered
  <2> QED BY <1>2, <2>2, <2>3, <2>4 DEF Covered
<1>6. CASE /\ Len(count) < MaxParts /\ count' = Append(count, 1)
           /\ slot' = [slot EXCEPT ![w] = Len(count) + 1]
  <2>0. PICK p \in Parts : p = Len(count) + 1
    BY <1>3, <1>6 DEF Parts
  <2>1. p > Len(count) /\ slot' = [slot EXCEPT ![w] = p]
    BY <1>3, <1>6, <2>0
  <2>2. leaf[p] = {} /\ Holders(p) = {}
    BY <1>3, <2>1 DEF Covered
  <2>3. Cardinality(leaf[p]) = 0 /\ Cardinality(Holders(p)) = 0
    BY <2>2, FS_EmptySet
  <2>4. /\ Len(count') = p /\ count'[p] = 1
        /\ \A q \in 1..Len(count) : count[q] \in Nat /\ count'[q] = count[q]
    BY <1>3, <1>6, <2>0 DEF BucketTypeOK
  <2>5. ASSUME NEW q \in 1..Len(count')
        PROVE  Cardinality(leaf'[q]) + Cardinality(Holders(q)') <= count'[q] /\ count'[q] <= Limit
    <3>1. CASE q = p
      <4>1. Cardinality(Holders(p)') <= 1 /\ Cardinality(Holders(p)') \in Nat
        <5>1. /\ Cardinality(Holders(p)') <= Cardinality(Holders(p)) + 1
              /\ Cardinality(Holders(p)') \in Nat
          BY <1>4, <2>1
        <5> QED BY <2>3, <5>1
      <4>2. Cardinality(leaf'[p]) = 0 /\ count'[p] = 1 /\ 1 <= Limit
        BY <1>1, <2>0, <2>3, <2>4
      <4>3. Cardinality(leaf'[p]) + Cardinality(Holders(p)') <= 1
        BY <4>1, <4>2
      <4>4. q = p
        BY <2>0, <3>1
      <4> QED BY <4>2, <4>3, <4>4
    <3>2. CASE q # p
      <4>1. q \in 1..Len(count) /\ q \in Parts
        BY <1>3, <1>6, <2>0, <2>4, <3>2 DEF Parts
      <4>2. Holders(q)' = Holders(q) /\ leaf'[q] = leaf[q]
        BY <1>1, <1>4, <2>1, <3>2, <4>1
      <4> QED BY <1>3, <2>4, <4>1, <4>2 DEF Covered
    <3> QED BY <3>1, <3>2
  <2>6. ASSUME NEW q \in Parts, q > Len(count') PROVE leaf'[q] = {} /\ Holders(q)' = {}
    <3>1. q # p /\ q > Len(count)
      BY <1>3, <2>0, <2>4, <2>6 DEF Parts
    <3> QED BY <1>1, <1>3, <1>4, <2>1, <3>1 DEF Covered
  <2> QED BY <1>2, <2>5, <2>6 DEF Covered
<1> QED BY <1>5, <1>6 DEF Reserve

\* A file that is placed takes the place of a holder.
LEMMA PlaceCovers ==
  ASSUME BInv, drift = {}, NEW w \in Writers, NEW n \in FileNames, Place(w, n)
  PROVE  Covered' /\ RepairSafe'
<1>0. PICK p \in Parts : p = slot[w]
  BY DEF Place, BInv, BucketTypeOK, Parts
<1>1. /\ Covered /\ RepairSafe /\ BucketTypeOK /\ Len(count) \in Nat
      /\ UNCHANGED <<count, repair>> /\ slot[w] # 0
  BY DEF BInv, BucketTypeOK, Place
<1>2. RepairSafe'
  BY <1>1 DEF RepairSafe
<1>3. p \in Parts /\ w \in Holders(p)
  BY <1>0 DEF Holders
<1>4. p \in 1..Len(count)
  <2>1. ~(p > Len(count))
    BY <1>1, <1>3 DEF Covered
  <2> QED BY <1>1, <1>3, <2>1 DEF Parts
<1>5. /\ Holders(p)' = Holders(p) \ {w}
      /\ \A q \in Parts : q # p => Holders(q)' = Holders(q)
  <2>1. slot \in [Writers -> 0..MaxParts] /\ slot' = [slot EXCEPT ![w] = 0]
    BY <1>1 DEF BucketTypeOK, Place
  <2> QED BY <1>0, <2>1 DEF Holders, Parts
<1>6. /\ leaf'[p] = leaf[p] \cup {n}
      /\ \A q \in Parts : q # p => leaf'[q] = leaf[q]
  BY <1>0, <1>1 DEF Place, BucketTypeOK
<1>7. ASSUME NEW q \in 1..Len(count)
      PROVE  Cardinality(leaf'[q]) + Cardinality(Holders(q)') <= count[q] /\ count[q] <= Limit
  <2>1. Cardinality(leaf[q]) + Cardinality(Holders(q)) <= count[q] /\ count[q] <= Limit
    BY <1>1 DEF Covered
  <2>2. q \in Parts /\ count[q] \in Nat
    BY <1>1 DEF BucketTypeOK, Parts
  <2>3. CASE q = p
    <3>1. IsFiniteSet(leaf[p]) /\ IsFiniteSet(Holders(p))
      BY <1>1, <1>3, Finite
    <3>2. /\ Cardinality(leaf'[p]) <= Cardinality(leaf[p]) + 1
          /\ Cardinality(leaf'[p]) \in Nat /\ Cardinality(leaf[p]) \in Nat
      BY <1>6, <3>1, AddOne
    <3>3. Cardinality(Holders(p)') = Cardinality(Holders(p)) - 1 /\ Cardinality(Holders(p)) \in Nat
      BY <1>3, <1>5, <3>1, TakeOne
    <3> QED BY <2>1, <2>2, <2>3, <3>2, <3>3
  <2>4. CASE q # p
    BY <1>5, <1>6, <2>1, <2>2, <2>4
  <2> QED BY <2>3, <2>4
<1>8. ASSUME NEW q \in Parts, q > Len(count) PROVE leaf'[q] = {} /\ Holders(q)' = {}
  <2>1. q # p
    BY <1>1, <1>4, <1>8
  <2> QED BY <1>1, <1>5, <1>6, <1>8, <2>1 DEF Covered
<1> QED BY <1>1, <1>2, <1>7, <1>8 DEF Covered

\* Fewer files and fewer holders are still covered.
LEMMA FewerCovers ==
  ASSUME BInv, drift = {}, BucketTypeOK', UNCHANGED count,
         \A q \in Parts : leaf'[q] \subseteq leaf[q] /\ Holders(q)' \subseteq Holders(q),
         \A w \in Writers : slot[w] = 0 => slot'[w] = 0,
         repair' \in {repair, Idle}
  PROVE  Covered' /\ RepairSafe'
<1>1. Covered /\ RepairSafe /\ BucketTypeOK /\ Len(count) \in 0..MaxParts
  BY DEF BInv, BucketTypeOK
<1>2. ASSUME NEW q \in Parts
      PROVE  /\ Cardinality(leaf'[q]) <= Cardinality(leaf[q])
             /\ Cardinality(Holders(q)') <= Cardinality(Holders(q))
             /\ Cardinality(leaf'[q]) \in Nat /\ Cardinality(leaf[q]) \in Nat
             /\ Cardinality(Holders(q)') \in Nat /\ Cardinality(Holders(q)) \in Nat
  <2>1. IsFiniteSet(leaf[q]) /\ IsFiniteSet(Holders(q))
    BY <1>1, Finite
  <2> QED BY <2>1, Fewer
<1>3. \A q \in 1..Len(count) : q \in Parts /\ count[q] \in Nat
  BY <1>1 DEF BucketTypeOK, Parts
<1>4. Covered'
  <2>1. ASSUME NEW q \in 1..Len(count)
        PROVE  Cardinality(leaf'[q]) + Cardinality(Holders(q)') <= count[q] /\ count[q] <= Limit
    BY <1>1, <1>2, <1>3 DEF Covered
  <2>2. ASSUME NEW q \in Parts, q > Len(count) PROVE leaf'[q] = {} /\ Holders(q)' = {}
    BY <1>1, <2>2 DEF Covered
  <2> QED BY <2>1, <2>2 DEF Covered
<1>5. RepairSafe'
  <2>1. CASE repair' = Idle
    BY <2>1 DEF RepairSafe, Idle
  <2>2. CASE repair' = repair /\ repair.at # 0
    <3>1. ASSUME NEW q \in 1..Len(count)
          PROVE  Cardinality(leaf'[q]) <= repair.fix[q] /\ repair.fix[q] <= Limit
      <4>1. Cardinality(leaf[q]) <= repair.fix[q] /\ repair.fix[q] <= Limit
        BY <1>1, <2>2 DEF RepairSafe
      <4>2. repair.fix \in Seq(Nat) /\ q \in 1..Len(repair.fix)
        BY <1>1, <2>2 DEF RepairSafe, BucketTypeOK, RepairStates
      <4> QED BY <1>2, <1>3, <4>1, <4>2
    <3> QED BY <1>1, <2>2, <3>1 DEF RepairSafe
  <2>3. CASE repair' = repair /\ repair.at = 0
    BY <2>3 DEF RepairSafe
  <2> QED BY <2>1, <2>2, <2>3
<1> QED BY <1>4, <1>5

\* The repair runs alone, so what it has seen is what is there.
LEMMA RepairCovers ==
  ASSUME BInv, drift = {}, drift' = {}, Repair
  PROVE  Covered' /\ RepairSafe'
<1>1. /\ Covered /\ RepairSafe /\ BucketTypeOK /\ count \in Seq(Nat)
      /\ Len(count) \in 0..MaxParts /\ repair.at \in 0..MaxParts
  BY DEF BInv, BucketTypeOK, RepairStates
<1>2. \A p \in 1..Len(count) : /\ p \in Parts /\ count[p] \in Nat /\ count[p] <= Limit
                               /\ Cardinality(leaf[p]) \in Nat
                               /\ Cardinality(leaf[p]) <= count[p]
  <2> TAKE p \in 1..Len(count)
  <2>1. p \in Parts /\ count[p] \in Nat
    BY <1>1 DEF Parts
  <2>2. Cardinality(leaf[p]) \in Nat /\ Cardinality(Holders(p)) \in Nat
    BY <1>1, <2>1, Finite
  <2>3. Cardinality(leaf[p]) + Cardinality(Holders(p)) <= count[p] /\ count[p] <= Limit
    BY <1>1 DEF Covered
  <2> QED BY <2>1, <2>2, <2>3
<1>3. CASE RepairRead
  <2>1. (\A w \in Writers : slot[w] = 0) /\ UNCHANGED <<count, slot, leaf>> /\ count # <<>>
    BY <1>3 DEF RepairRead, Quiet, Depart
  <2>2. repair' = [at |-> 1, scanned |-> FALSE, seen |-> count, fix |-> count, dirty |-> {}]
    BY <1>3 DEF RepairRead, Idle
  <2>3. 1 <= Len(count)
    BY <1>1, <2>1
  <2>4. RepairSafe'
    BY <1>2, <2>1, <2>2, <2>3 DEF RepairSafe
  <2>5. Covered'
    BY <1>1, <2>1 DEF Covered, Holders
  <2> QED BY <2>4, <2>5
<1>4. CASE RepairScan
  <2>1. /\ \A w \in Writers : slot[w] = 0
        /\ repair.seen = count /\ Len(repair.fix) = Len(count) /\ repair.at <= Len(count)
        /\ \A p \in 1..Len(count) : Cardinality(leaf[p]) <= repair.fix[p] /\ repair.fix[p] <= Limit
    BY <1>1, <1>4 DEF RepairSafe, RepairScan
  <2>2. repair.at \in 1..Len(count) /\ repair.fix \in Seq(Nat) /\ repair \in RepairStates
    BY <1>1, <1>4, <2>1 DEF RepairScan, BucketTypeOK, RepairStates
  <2> DEFINE fix == [repair.fix EXCEPT ![repair.at] = Cardinality(leaf[repair.at])]
  <2>3. repair' = [repair EXCEPT !.scanned = TRUE, !.fix = fix]
    BY <1>4 DEF RepairScan, FilesIn
  <2>4. /\ repair'.at = repair.at /\ repair'.seen = repair.seen /\ repair'.fix = fix
    BY <2>2, <2>3 DEF RepairStates
  <2>5. /\ Len(fix) = Len(repair.fix)
        /\ \A p \in 1..Len(count) : fix[p] = IF p = repair.at THEN Cardinality(leaf[p]) ELSE repair.fix[p]
    BY <2>1, <2>2
  <2>6. UNCHANGED <<count, slot, leaf>>
    BY <1>4 DEF RepairScan
  <2>7. \A p \in 1..Len(count) : Cardinality(leaf[p]) <= fix[p] /\ fix[p] <= Limit
    <3> TAKE p \in 1..Len(count)
    <3>1. CASE p = repair.at
      BY <1>2, <2>5, <3>1
    <3>2. CASE p # repair.at
      BY <2>1, <2>5, <3>2
    <3> QED BY <3>1, <3>2
  <2> HIDE DEF fix
  <2>8. RepairSafe'
    BY <2>1, <2>4, <2>5, <2>6, <2>7 DEF RepairSafe
  <2>9. Covered'
    BY <1>1, <2>6 DEF Covered, Holders
  <2> QED BY <2>8, <2>9
<1>5. CASE RepairUpdate
  <2>1. repair' = [repair EXCEPT !.at = repair.at + 1, !.scanned = FALSE, !.dirty = Dirty]
    BY <1>5 DEF RepairUpdate
  <2>2. repair'.at = repair.at + 1 /\ repair'.seen = repair.seen /\ repair'.fix = repair.fix
    BY <1>1, <2>1 DEF BucketTypeOK, RepairStates
  <2>3. UNCHANGED <<count, slot, leaf>> /\ repair.at # 0 /\ repair.at < Len(repair.seen)
    BY <1>5 DEF RepairUpdate
  <2>4. RepairSafe'
    BY <1>1, <2>2, <2>3 DEF RepairSafe
  <2>5. Covered'
    BY <1>1, <2>3 DEF Covered, Holders
  <2> QED BY <2>4, <2>5
<1>6. CASE RepairCommit
  <2>1. /\ \A w \in Writers : slot[w] = 0
        /\ \A p \in 1..Len(count) : Cardinality(leaf[p]) <= repair.fix[p] /\ repair.fix[p] <= Limit
    BY <1>1, <1>6 DEF RepairSafe, RepairCommit
  <2>2. count' = [p \in 1..Len(count) |-> IF p \in Dirty THEN repair.fix[p] ELSE count[p]]
    BY <1>1, <1>6 DEF RepairCommit
  <2>3. repair' = Idle /\ UNCHANGED <<slot, leaf>>
    BY <1>6 DEF RepairCommit
  <2>4. \A p \in Parts : Holders(p)' = Holders(p) /\ Holders(p) = {}
    BY <2>1, <2>3 DEF Holders, Parts
  <2>5. Len(count') = Len(count)
    <3>1. \A p \in 1..Len(count) : (IF p \in Dirty THEN repair.fix[p] ELSE count[p]) \in Nat
      BY <2>2, TypeStep DEF BInv, BucketTypeOK, BucketNext
    <3> QED BY <1>1, <2>2
  <2>6. ASSUME NEW p \in 1..Len(count)
        PROVE  Cardinality(leaf'[p]) + Cardinality(Holders(p)') <= count'[p] /\ count'[p] <= Limit
    <3>1. Cardinality(Holders(p)') = 0
      BY <1>2, <2>4, FS_EmptySet
    <3>2. Cardinality(leaf'[p]) \in Nat /\ leaf'[p] = leaf[p]
      BY <1>2, <2>3
    <3>3. Cardinality(leaf[p]) <= count'[p] /\ count'[p] <= Limit
      BY <1>2, <2>1, <2>2
    <3> QED BY <3>1, <3>2, <3>3
  <2>7. ASSUME NEW p \in Parts, p > Len(count) PROVE leaf'[p] = {} /\ Holders(p)' = {}
    BY <1>1, <2>3, <2>4, <2>7 DEF Covered
  <2>8. Covered'
    BY <2>5, <2>6, <2>7 DEF Covered
  <2> QED BY <2>3, <2>8 DEF RepairSafe, Idle
<1> QED BY <1>3, <1>4, <1>5, <1>6 DEF Repair

------------------------------------------------------------------------------
LEMMA InitBInv == BucketInit => BInv
<1> SUFFICES ASSUME BucketInit PROVE BInv
  OBVIOUS
<1>1. count = <<>> /\ slot = [w \in Writers |-> 0] /\ leaf = [p \in Parts |-> {}]
      /\ repair = Idle /\ drift = {}
  BY DEF BucketInit
<1>2. BucketTypeOK
  BY <1>1, IdleType DEF BucketTypeOK, Parts
<1>3. RepairShape
  BY <1>1 DEF RepairShape, Idle
<1>4. Covered
  BY <1>1 DEF Covered, Holders, Parts
<1>5. RepairSafe
  BY <1>1 DEF RepairSafe, Idle
<1> QED BY <1>2, <1>3, <1>4, <1>5 DEF BInv

LEMMA StepBInv == BInv /\ [BucketNext]_bucketVars => BInv'
<1> SUFFICES ASSUME BInv, [BucketNext]_bucketVars PROVE BInv'
  OBVIOUS
<1>1. CASE BucketNext
  <2>1. BucketTypeOK' /\ RepairShape'
    BY <1>1, TypeStep DEF BInv
  <2>2. ASSUME drift' = {} PROVE Covered' /\ RepairSafe'
    <3>1. drift = {}
      BY <1>1, <2>2, DriftGrows
    <3>2. ASSUME NEW w \in Writers, Reserve(w) PROVE Covered' /\ RepairSafe'
      BY <2>2, <3>1, <3>2, ReserveCovers
    <3>3. ASSUME NEW w \in Writers, NEW n \in FileNames, Place(w, n) PROVE Covered' /\ RepairSafe'
      BY <3>1, <3>3, PlaceCovers
    <3>4. ASSUME NEW W \in SUBSET Writers, Release(W), repair' \in {repair, Idle}
          PROVE  Covered' /\ RepairSafe'
      <4>1. slot \in [Writers -> 0..MaxParts]
        BY DEF BInv, BucketTypeOK
      <4>2. \A q \in Parts : leaf'[q] \subseteq leaf[q] /\ Holders(q)' \subseteq Holders(q)
        BY <3>4, <4>1 DEF Release, Holders, Parts
      <4>3. UNCHANGED count /\ \A w \in Writers : slot[w] = 0 => slot'[w] = 0
        BY <3>4, <4>1 DEF Release
      <4> QED BY <2>1, <3>1, <3>4, <4>2, <4>3, FewerCovers
    <3>5. ASSUME NEW p \in Parts, NEW n \in FileNames, Remove(p, n) PROVE Covered' /\ RepairSafe'
      <4>1. \A q \in Parts : leaf'[q] \subseteq leaf[q] /\ Holders(q)' \subseteq Holders(q)
        BY <3>5 DEF Remove, Holders, BInv, BucketTypeOK
      <4>2. UNCHANGED <<count, slot, repair>>
        BY <3>5 DEF Remove
      <4> QED BY <2>1, <3>1, <4>1, <4>2, FewerCovers
    <3>6. ASSUME NEW w \in Writers, ReserveFails(w) PROVE FALSE
      BY <2>2, <3>6 DEF ReserveFails, Depart
    <3>7. ASSUME NEW p \in Parts, NEW n \in FileNames, DropIn(p, n) PROVE FALSE
      BY <2>2, <3>7 DEF DropIn, Depart
    <3>8. ASSUME IndexFails PROVE FALSE
      BY <2>2, <3>8 DEF IndexFails, Depart
    <3>9. ASSUME Repair PROVE Covered' /\ RepairSafe'
      BY <2>2, <3>1, <3>9, RepairCovers
    <3> QED BY <1>1, <3>2, <3>3, <3>4, <3>5, <3>6, <3>7, <3>8, <3>9 DEF BucketNext
  <2> QED BY <2>1, <2>2 DEF BInv
<1>2. CASE UNCHANGED bucketVars
  BY <1>2 DEF bucketVars, BInv, BucketTypeOK, RepairShape, Covered, RepairSafe, Holders
<1> QED BY <1>1, <1>2

\* The inductive invariant holds in every state of the allocator.
THEOREM BucketInvariance == BucketSpec => []BInv
<1>1. BucketInit => BInv
  BY InitBInv
<1>2. BInv /\ [BucketNext]_bucketVars => BInv'
  BY StepBInv
<1> QED BY <1>1, <1>2, PTL DEF BucketSpec

\* The rows, slots, directories and the repair keep their types, whatever the
\* departures from discipline.
THEOREM BucketTypeCorrect == BucketSpec => []BucketTypeOK
<1>1. BInv => BucketTypeOK
  BY DEF BInv
<1> QED BY <1>1, BucketInvariance, PTL

\* Without a departure, a count covers the files and the slots of its part.
THEOREM CountsCover == BucketSpec => []CountCovers
<1>1. BInv => CountCovers
  BY DEF BInv, Covered, CountCovers
<1> QED BY <1>1, BucketInvariance, PTL

\* Without a departure, no directory ever holds more than Limit files: the
\* "structural guarantee" of media_index.py.
THEOREM DirectoriesWithinLimit == BucketSpec => []DirWithinLimit
<1>1. BInv => DirWithinLimit
  <2> SUFFICES ASSUME BInv, drift = {}, NEW p \in Parts
               PROVE  Cardinality(leaf[p]) <= Limit
    BY DEF DirWithinLimit
  <2>1. BucketTypeOK /\ Covered /\ count \in Seq(Nat) /\ Len(count) \in Nat
    BY DEF BInv, BucketTypeOK
  <2>2. CASE p <= Len(count)
    <3>1. Cardinality(leaf[p]) \in Nat /\ Cardinality(Holders(p)) \in Nat
      BY <2>1, Finite
    <3>2. p \in 1..Len(count) /\ count[p] \in Nat
      BY <2>1, <2>2 DEF Parts
    <3>3. Cardinality(leaf[p]) + Cardinality(Holders(p)) <= count[p] /\ count[p] <= Limit
      BY <2>1, <3>2 DEF Covered
    <3> QED BY <3>1, <3>2, <3>3
  <2>3. CASE ~(p <= Len(count))
    <3>1. leaf[p] = {}
      BY <2>1, <2>3 DEF Covered, Parts
    <3> QED BY <3>1, FS_EmptySet
  <2> QED BY <2>2, <2>3
<1> QED BY <1>1, BucketInvariance, PTL
==============================================================================
