-------------------------- MODULE MediaLibraryProofs --------------------------
(***************************************************************************)
(* Proofs about MediaLibrary, for every stock, number of uploads, calls    *)
(* and deletes.                                                            *)
(*                                                                         *)
(* Each property is about one path, or one item of the trash, and becomes  *)
(* inductive when it says who else may still write to it: what a delete,   *)
(* an upload or the pass has in mind of a path must agree with what is     *)
(* there (Fresh, Dead), or the path is one of those the history sets out.  *)
(* The pass needs one statement per phase (Follows).                       *)
(***************************************************************************)
EXTENDS MediaLibrary, FiniteSetTheorems, TLAPS

Maybe == Contents \cup {Absent}
FileSets == UNION {[P -> Contents] : P \in SUBSET Paths}
Items == [from : Paths, folder : BOOLEAN, size : 1..Cardinality(Paths)]
Passes == [at : {"rest", "prune", "scan", "compare", "index"},
           missing : SUBSET Paths, hidden : SUBSET Paths,
           seen : UNION {[P -> Maybe] : P \in SUBSET Paths},
           todo : SUBSET Paths, path : Paths \cup {Absent}, hash : Maybe]
Events == {"uploaded", "other", "storing", "deleting", "deleted"}

\* The types of the variables, those of TypeOK among them.
FileTypes == /\ disk \in [Paths -> Maybe]
             /\ index \in [Paths -> Entries \cup {NoEntry}]
             /\ last \in [Paths -> Events]
             /\ raced \cup touched \cup spoiled \subseteq Paths /\ gone \cup exposed \subseteq Contents
UploadTypes == /\ pc \in [Uploads -> {"new", "missed", "picked", "duplicate", "stored", "done", "died"}]
               /\ body \in [Uploads -> Maybe]
               /\ dest \in [Uploads -> Paths \cup {Absent}]
               /\ \A u \in Uploads :
                     /\ pc[u] \in {"missed", "picked", "stored", "done"} => body[u] \in Contents
                     /\ pc[u] \in {"picked", "stored"} => dest[u] \in Paths
TrashTypes == /\ item \in Seq(Items) /\ Len(item) <= MaxItems
              /\ list \cup closing \cup stranded \subseteq 1..Len(item)
              /\ bytes \in [Ids -> FileSets]
              /\ purge \in BOOLEAN
              /\ marks \in [Paths -> Nat] /\ \A p \in Paths : marks[p] <= 2 * Len(item)
              /\ calls \in 0..MaxCalls
PassTypes == /\ pass \in Passes
             /\ pass.at # "prune" => pass.missing = {}
             /\ \A p \in pass.missing : index[p] # NoEntry
             /\ pass.at = "compare" => pass.seen \in [Paths -> Maybe]
             /\ pass.at # "index" => pass.todo = {} /\ pass.path = Absent
             /\ pass.todo \subseteq DOMAIN pass.seen
             /\ pass.path # Absent => pass.path \in pass.todo /\ pass.hash \in Contents
Types == FileTypes /\ UploadTypes /\ TrashTypes /\ PassTypes

\* An item that is about to be taken off the list is empty, or was not unlinked.
ClosingEmpty == \A i \in closing \ stranded : bytes[i] = <<>>

\* What is now where an upload found nothing is known to have come there since.
Exposed == \A u \in Uploads : pc[u] = "picked" => disk[dest[u]] \in exposed \cup {Absent}

\* What was uploaded to p and not disturbed, and all that may still be written about it.
Fresh(p) == p \notin raced /\ last[p] \in {"storing", "uploaded"} =>
    /\ disk[p] # Absent
    /\ marks[p] = 0 /\ p \notin pass.missing
    /\ pass.path = p => pass.hash = disk[p]
    /\ \A u \in Uploads : pc[u] = "stored" /\ dest[u] = p => body[u] = disk[p]
    /\ last[p] = "uploaded" => Live(p) /\ index[p].hash = disk[p]

\* What was deleted and not disturbed: nobody is about to record it.
Dead(p) == p \notin raced /\ last[p] \in {"deleting", "deleted"} =>
    /\ disk[p] = Absent
    /\ pass.path # p
    /\ \A u \in Uploads : ~(pc[u] = "stored" /\ dest[u] = p)
    /\ last[p] = "deleted" => ~Live(p)

\* A row that was not spoiled has the hash of what it has the signature of.
Matches(p) == p \notin spoiled /\ index[p] # NoEntry => index[p].sig = index[p].hash

\* What the pass knows of a path that was not touched since it began.
Follows(p) == p \notin touched =>
    /\ marks[p] = 0
    /\ \A u \in Uploads : ~(pc[u] = "stored" /\ dest[u] = p)
    /\ disk[p] # Absent /\ index[p] # NoEntry /\ index[p].sig = disk[p]
          => p \in pass.hidden \/ Live(p)
    /\ disk[p] = Absent => ~Live(p) \/ p \in pass.missing
    /\ p \in pass.missing => disk[p] = Absent
    /\ pass.at \in {"compare", "index"} /\ p \in DOMAIN pass.seen => pass.seen[p] = disk[p]
    /\ pass.path = p => pass.hash = disk[p]
    /\ pass.at = "index" /\ p \notin pass.todo /\ disk[p] # Absent
          => index[p] # NoEntry /\ index[p].sig = disk[p]

Paired == \A p \in Paths : Fresh(p) /\ Dead(p) /\ Matches(p) /\ (pass.at # "rest" => Follows(p))

LInv == Types /\ BytesListed /\ ClosingEmpty /\ Exposed /\ NothingLost /\ Paired

USE LibraryAssumption, NoEntryAssumption

------------------------------------------------------------------------------
\* Nothing in a directory, and what is in one.
LEMMA EmptyFiles == <<>> \in FileSets
<1>1. <<>> \in [{} -> Contents]
  OBVIOUS
<1> QED BY <1>1 DEF FileSets

LEMMA EmptySeen == <<>> \in UNION {[P -> Maybe] : P \in SUBSET Paths}
<1>1. <<>> \in [{} -> Maybe]
  OBVIOUS
<1> QED BY <1>1

\* A trashed item maps paths to contents.
LEMMA FileSetsAre ==
  ASSUME NEW f \in FileSets
  PROVE  DOMAIN f \subseteq Paths /\ \A p \in DOMAIN f : f[p] \in Contents
  BY DEF FileSets

\* What Recorded writes: a live row with the given hash and signature.
LEMMA RowIsEntry ==
  ASSUME NEW old, NEW c \in Contents, NEW s \in Maybe
  PROVE  /\ Recorded(old, c, s) \in Entries /\ Recorded(old, c, s) # NoEntry
         /\ ~Recorded(old, c, s).deleted
         /\ Recorded(old, c, s).hash = c /\ Recorded(old, c, s).sig = s
<1> DEFINE r == [hash |-> c, sig |-> s, deleted |-> FALSE]
<1>1. r \in Entries /\ r.hash = c /\ r.sig = s /\ r.deleted = FALSE
  BY DEF Entries, Maybe
<1> QED BY <1>1 DEF Recorded

\* Marking a row deleted changes nothing else of it.
LEMMA MarkedIsEntry ==
  ASSUME NEW e \in Entries
  PROVE  LET f == [e EXCEPT !.deleted = TRUE] IN
         f \in Entries /\ f # NoEntry /\ f.deleted /\ f.hash = e.hash /\ f.sig = e.sig
  BY DEF Entries

\* How many marks a delete leaves, by what the client sent.
LEMMA MarksAre == Marks("path") = 1 /\ Marks("id") = 2 /\ Marks("other") = 0
  BY DEF Marks

\* A delete of a file moves it, and leaves two marks at most.
LEMMA DeletedFile ==
  ASSUME NEW p \in Paths, DeleteFile(p)
  PROVE  /\ \E n \in {0, 1, 2} : marks' = [marks EXCEPT ![p] = @ + n]
         /\ \E what \in {"other", "deleting"} : Happens({p}, what)
<1>1. PICK how \in {"path", "other", "id"} :
         /\ marks' = [marks EXCEPT ![p] = @ + Marks(how)]
         /\ Happens({p}, IF how = "other" THEN "other" ELSE "deleting")
  BY DEF DeleteFile
<1>2. Marks(how) \in {0, 1, 2}
  BY MarksAre
<1> QED BY <1>1, <1>2

\* What comes to a path that an upload had picked is exposed, and a content.
LEMMA PutsAre ==
  ASSUME FileTypes, NEW P \in SUBSET Paths, NEW W, Puts(P, W), disk' \in [Paths -> Maybe]
  PROVE  /\ exposed' \subseteq Contents /\ exposed \subseteq exposed'
         /\ \A u \in W : pc[u] = "picked" /\ dest[u] \in P => disk'[dest[u]] \in exposed' \cup {Absent}
  BY DEF Puts, FileTypes, Maybe

\* The directories of the items of S, but for the files of F, are empty.
LEMMA EmptiedIs ==
  ASSUME bytes \in [Ids -> FileSets], NEW S \in SUBSET Ids, NEW F, NEW i \in Ids
  PROVE  /\ Emptied(S, F) \in [Ids -> FileSets]
         /\ Emptied(S, F)[i] # <<>> => bytes[i] # <<>>
<1> DEFINE D(j) == {q \in DOMAIN bytes[j] : j \in S => <<j, q>> \in F}
<1>1. \A j \in Ids : Emptied(S, F)[j] = [p \in D(j) |-> bytes[j][p]]
  BY DEF Emptied
<1>2. ASSUME NEW j \in Ids PROVE [p \in D(j) |-> bytes[j][p]] \in FileSets
  <2>1. bytes[j] \in FileSets
    OBVIOUS
  <2>2. D(j) \in SUBSET Paths /\ \A p \in D(j) : bytes[j][p] \in Contents
    BY <2>1, FileSetsAre
  <2> HIDE DEF D
  <2>3. [p \in D(j) |-> bytes[j][p]] \in [D(j) -> Contents]
    BY <2>2
  <2> QED BY <2>2, <2>3 DEF FileSets
<1>3. Emptied(S, F) \in [Ids -> FileSets]
  <2>1. Emptied(S, F) = [j \in Ids |-> [p \in D(j) |-> bytes[j][p]]]
    BY DEF Emptied
  <2> HIDE DEF D
  <2> QED BY <1>2, <2>1
<1>4. bytes[i] = <<>> => D(i) = {}
  OBVIOUS
<1>5. ASSUME D(i) = {} PROVE Emptied(S, F)[i] = <<>>
  <2>1. [p \in D(i) |-> bytes[i][p]] = <<>>
    BY <1>5
  <2> QED BY <1>1, <2>1
<1> QED BY <1>3, <1>4, <1>5

LEMMA EmptiedElsewhere ==
  ASSUME bytes \in [Ids -> FileSets], NEW S \in SUBSET Ids, NEW F, NEW i \in Ids, i \notin S
  PROVE  Emptied(S, F)[i] = bytes[i]
<1> DEFINE D == {q \in DOMAIN bytes[i] : i \in S => <<i, q>> \in F}
<1>1. Emptied(S, F)[i] = [p \in D |-> bytes[i][p]]
  BY DEF Emptied
<1>2. D = DOMAIN bytes[i]
  OBVIOUS
<1>3. bytes[i] = [p \in DOMAIN bytes[i] |-> bytes[i][p]]
  BY DEF FileSets
<1> HIDE DEF D
<1> QED BY <1>1, <1>2, <1>3

LEMMA EmptiedHere ==
  ASSUME bytes \in [Ids -> FileSets], NEW S \in SUBSET Ids, NEW F, NEW i \in S, \A f \in F : f[1] # i
  PROVE  Emptied(S, F)[i] = <<>>
<1> DEFINE D == {q \in DOMAIN bytes[i] : i \in S => <<i, q>> \in F}
<1>1. Emptied(S, F)[i] = [p \in D |-> bytes[i][p]]
  BY DEF Emptied
<1>2. D = {}
  OBVIOUS
<1>3. [p \in D |-> bytes[i][p]] = <<>>
  BY <1>2
<1> QED BY <1>1, <1>3

\* Unlinking items of the list.
LEMMA UnlinkIs ==
  ASSUME LInv, NEW S \in SUBSET list, Unlink(S)
  PROVE  /\ bytes' \in [Ids -> FileSets] /\ exposed' = exposed
         /\ stranded \subseteq stranded' /\ stranded' \subseteq 1..Len(item)
         /\ gone' = gone \cup ContentOf(S) /\ gone' \subseteq Contents
         /\ \A i \in Ids : /\ i \notin S => bytes'[i] = bytes[i]
                           /\ i \in S \ stranded' => bytes'[i] = <<>>
                           /\ bytes'[i] # <<>> => bytes[i] # <<>>
<1>1. PICK F \in SUBSET FilesOf(S) : bytes' = Emptied(S, F) /\ stranded' = stranded \cup {f[1] : f \in F}
  BY DEF Unlink
<1>2. /\ bytes \in [Ids -> FileSets] /\ list \subseteq 1..Len(item) /\ stranded \subseteq 1..Len(item)
      /\ Len(item) <= MaxItems /\ Len(item) \in Nat /\ gone \subseteq Contents
  BY DEF LInv, Types, TrashTypes, FileTypes
<1>3. S \in SUBSET Ids
  BY <1>2 DEF Ids
<1>4. \A f \in F : f[1] \in S
  BY <1>1 DEF FilesOf
<1>5. ContentOf(S) \subseteq Contents
  <2> SUFFICES ASSUME NEW i \in S, NEW p \in DOMAIN bytes[i]
               PROVE  bytes[i][p] \in Contents
    BY DEF ContentOf
  <2>1. bytes[i] \in FileSets
    BY <1>2, <1>3
  <2> QED BY <2>1, FileSetsAre
<1>6. stranded' \subseteq 1..Len(item)
  BY <1>1, <1>2, <1>4
<1>7. bytes' \in [Ids -> FileSets]
  <2>1. CASE Ids = {}
    BY <1>1, <2>1 DEF Emptied
  <2>2. CASE Ids # {}
    BY <1>1, <1>2, <1>3, <2>2, EmptiedIs
  <2> QED BY <2>1, <2>2
<1>8. ASSUME NEW i \in Ids
      PROVE  /\ i \notin S => bytes'[i] = bytes[i]
             /\ i \in S \ stranded' => bytes'[i] = <<>>
             /\ bytes'[i] # <<>> => bytes[i] # <<>>
  <2>1. i \notin stranded' => \A f \in F : f[1] # i
    BY <1>1
  <2>2. bytes \in [Ids -> FileSets]
    BY <1>2
  <2>3. i \notin S => Emptied(S, F)[i] = bytes[i]
    BY <1>3, <2>2, EmptiedElsewhere
  <2>4. i \in S \ stranded' => Emptied(S, F)[i] = <<>>
    BY <1>3, <2>1, <2>2, EmptiedHere
  <2>5. Emptied(S, F)[i] # <<>> => bytes[i] # <<>>
    BY <1>3, <2>2, EmptiedIs
  <2> QED BY <1>1, <2>3, <2>4, <2>5
<1> QED BY <1>1, <1>2, <1>5, <1>6, <1>7, <1>8 DEF Unlink

LEMMA RestIsPass == Resting \in Passes
  BY EmptySeen DEF Resting, Passes, Maybe

\* What a handler does to the history of the paths it changes.
LEMMA HappensTypes ==
  ASSUME FileTypes, NEW P \in SUBSET Paths, NEW what \in Events, Happens(P, what)
  PROVE  /\ last' \in [Paths -> Events]
         /\ (raced \cup touched \cup spoiled)' \subseteq Paths
<1>1. last' \in [Paths -> Events]
  BY DEF FileTypes, Happens
<1>2. raced' \subseteq Paths
  BY DEF FileTypes, Happens
<1>3. touched' \subseteq Paths
  BY DEF FileTypes, Happens, Touch
<1>4. spoiled' \subseteq Paths
  BY DEF FileTypes, Happens
<1> QED BY <1>1, <1>2, <1>3, <1>4

\* The stock and its rows agree, and nobody is on the way to write.
LEMMA InitInv == Init => LInv
<1> SUFFICES ASSUME Init PROVE LInv
  OBVIOUS
<1>1. FileTypes
  <2>1. \A p \in DOMAIN Stock : [hash |-> Stock[p], sig |-> Stock[p], deleted |-> FALSE] \in Entries
    BY DEF Entries
  <2> QED BY <2>1 DEF Init, FileTypes, Maybe, Events
<1>2. UploadTypes
  BY DEF Init, UploadTypes, Maybe
<1>3. TrashTypes
  <2>1. item \in Seq(Items) /\ Len(item) = 0
    BY DEF Init
  <2>2. bytes \in [Ids -> FileSets]
    BY EmptyFiles DEF Init
  <2>3. marks \in [Paths -> Nat] /\ \A p \in Paths : marks[p] <= 2 * Len(item)
    BY <2>1 DEF Init
  <2>4. calls \in 0..MaxCalls /\ list = {} /\ closing = {}
    BY DEF Init
  <2>5. purge \in BOOLEAN /\ stranded = {}
    BY DEF Init
  <2> QED BY <2>1, <2>2, <2>3, <2>4, <2>5 DEF TrashTypes
<1>4. PassTypes
  BY RestIsPass DEF Init, PassTypes, Resting
<1>5. BytesListed /\ ClosingEmpty /\ Exposed
  BY DEF Init, BytesListed, ClosingEmpty, Exposed
<1>6. NothingLost
  <2>1. \A u \in Uploads : pc[u] = "new"
    BY DEF Init
  <2>2. \A p \in DOMAIN Stock : p \in Paths /\ disk[p] = Stock[p]
    BY DEF Init
  <2> QED BY <2>1, <2>2 DEF NothingLost, Received, Somewhere
<1>7. Paired
  <2> SUFFICES ASSUME NEW p \in Paths PROVE Fresh(p) /\ Dead(p) /\ Matches(p) /\ pass.at = "rest"
    BY DEF Paired
  <2>1. pass.at = "rest" /\ pass.missing = {} /\ pass.path = Absent /\ marks[p] = 0
    BY DEF Init, Resting
  <2>2. \A u \in Uploads : pc[u] # "stored"
    BY DEF Init
  <2>3. CASE p \in DOMAIN Stock
    <3>1. index[p] = [hash |-> Stock[p], sig |-> Stock[p], deleted |-> FALSE] /\ disk[p] = Stock[p]
          /\ last[p] = "uploaded" /\ Stock[p] \in Contents
      BY <2>3 DEF Init
    <3>2. index[p] # NoEntry
      <4>1. index[p] \in Entries
        BY <3>1 DEF Entries
      <4> QED BY <4>1
    <3> QED BY <2>1, <2>2, <3>1, <3>2 DEF Fresh, Dead, Matches, Live
  <2>4. CASE p \notin DOMAIN Stock
    BY <2>1, <2>2, <2>4 DEF Init, Fresh, Dead, Matches
  <2> QED BY <2>3, <2>4
<1> QED BY <1>1, <1>2, <1>3, <1>4, <1>5, <1>6, <1>7 DEF LInv, Types

------------------------------------------------------------------------------
\* The types, group by group.
LEMMA FileTypesStep == ASSUME LInv, Next PROVE FileTypes'
<1> USE DEF Maybe
<1>a. /\ disk \in [Paths -> Contents \cup {Absent}] /\ index \in [Paths -> Entries \cup {NoEntry}]
      /\ last \in [Paths -> Events] /\ gone \subseteq Contents /\ exposed \subseteq Contents
      /\ raced \subseteq Paths /\ touched \subseteq Paths /\ spoiled \subseteq Paths
  BY DEF LInv, Types, FileTypes
<1>b. ASSUME NEW P \in SUBSET Paths, NEW what \in Events, Happens(P, what)
      PROVE  /\ last' \in [Paths -> Events]
             /\ (raced \cup touched \cup spoiled)' \subseteq Paths
  BY <1>b, HappensTypes DEF LInv, Types
<1>c. list \subseteq Ids
  BY DEF LInv, Types, TrashTypes, Ids
<1>d. \A P \in SUBSET Paths : Without(P) \in [Paths -> Contents \cup {Absent}]
  BY <1>a DEF Without
<1>e. ASSUME NEW P \in SUBSET Paths, NEW W, Puts(P, W), disk' \in [Paths -> Contents \cup {Absent}]
      PROVE  exposed' \subseteq Contents
  BY <1>e, PutsAre DEF LInv, Types
<1>1. ASSUME NEW u \in Uploads, Pick(u) \/ \E c \in Contents : Lookup(u, c) PROVE FileTypes'
  BY <1>a, <1>1 DEF Pick, Lookup, files, losses, FileTypes
<1>2. ASSUME NEW u \in Uploads, Store(u) PROVE FileTypes'
  <2>1. body[u] \in Contents /\ {dest[u]} \in SUBSET Paths
    BY <1>2 DEF Store, LInv, Types, UploadTypes
  <2>2. /\ disk' = [disk EXCEPT ![dest[u]] = body[u]] /\ Happens({dest[u]}, "storing")
        /\ Puts({dest[u]}, Uploads \ {u}) /\ UNCHANGED <<index, gone>>
    BY <1>2 DEF Store
  <2>3. disk' \in [Paths -> Contents \cup {Absent}]
    BY <1>a, <2>1, <2>2
  <2> QED BY <1>a, <1>b, <1>e, <2>1, <2>2, <2>3 DEF FileTypes, Events
<1>3. ASSUME NEW u \in Uploads, Record(u) PROVE FileTypes'
  <2>1. dest[u] \in Paths /\ body[u] \in Contents
    BY <1>3 DEF Record, LInv, Types, UploadTypes
  <2>2. UNCHANGED <<disk, raced, gone, exposed>>
    BY <1>3 DEF Record, losses
  <2>3. touched' \subseteq Paths
    BY <1>3, <1>a, <2>1 DEF Record, Touch
  <2>4. last' \in [Paths -> Events] /\ spoiled' \subseteq Paths
    BY <1>3, <1>a, <2>1 DEF Record, Events
  <2>5. index' \in [Paths -> Entries \cup {NoEntry}]
    <3>1. \A s \in Signatures(u) : s \in Contents \cup {Absent}
      BY <1>a, <2>1 DEF Signatures
    <3>2. \A s \in Signatures(u) : Recorded(index[dest[u]], body[u], s) \in Entries
      BY <2>1, <3>1, RowIsEntry
    <3> QED BY <1>3, <1>a, <2>1, <3>2 DEF Record
  <2> QED BY <1>a, <2>2, <2>3, <2>4, <2>5 DEF FileTypes
<1>4. ASSUME NEW p \in Paths, DeleteFile(p) PROVE FileTypes'
  <2>1. disk' = Without({p}) /\ UNCHANGED <<index, gone, exposed>>
    BY <1>4 DEF DeleteFile, ToTrash, losses
  <2>2. \E what \in Events : Happens({p}, what)
    BY <1>4, DeletedFile DEF Events
  <2> QED BY <1>a, <1>b, <1>d, <2>1, <2>2 DEF FileTypes
<1>5. ASSUME NEW p \in Paths, Mark(p) PROVE FileTypes'
  <2>1. UNCHANGED <<disk, raced, spoiled, gone, exposed>> /\ Touch({p})
    BY <1>5 DEF Mark, losses
  <2>2. last' \in [Paths -> Events]
    BY <1>5, <1>a DEF Mark, Events
  <2>3. index' \in [Paths -> Entries \cup {NoEntry}]
    <3>1. CASE index[p] = NoEntry
      BY <1>5, <1>a, <3>1 DEF Mark
    <3>2. CASE index[p] # NoEntry
      <4>1. index' = [index EXCEPT ![p] = [index[p] EXCEPT !.deleted = TRUE]]
        BY <1>5, <3>2 DEF Mark
      <4>2. [index[p] EXCEPT !.deleted = TRUE] \in Entries
        BY <1>a, <3>2, MarkedIsEntry
      <4> QED BY <1>a, <4>1, <4>2
    <3> QED BY <3>1, <3>2
  <2> QED BY <1>a, <2>1, <2>2, <2>3 DEF FileTypes, Touch
<1>6. ASSUME NEW p \in Paths, MarkFails(p) PROVE FileTypes'
  <2>1. last' \in [Paths -> Events]
    BY <1>6, <1>a DEF MarkFails, Events
  <2> QED BY <1>6, <1>a, <2>1 DEF MarkFails, losses, FileTypes
<1>7. ASSUME NEW i \in {0, 1}, DeleteFolder(i) PROVE FileTypes'
  <2>1. There(i) \in SUBSET Paths
    BY DEF There, InFolder
  <2>2. disk' = Without(There(i)) /\ Happens(There(i), "other") /\ UNCHANGED <<index, gone, exposed>>
    BY <1>7 DEF DeleteFolder, ToTrash, losses
  <2> QED BY <1>a, <1>b, <1>d, <2>1, <2>2 DEF FileTypes, Events
<1>8. ASSUME NEW m, Rename(m), DOMAIN m \subseteq Paths, \A p \in DOMAIN m : m[p] \in Paths
      PROVE  FileTypes'
  <2> DEFINE P == DOMAIN m \cup {m[p] : p \in DOMAIN m}
  <2>1. /\ P \in SUBSET Paths /\ Happens(P, "other") /\ UNCHANGED <<index, gone>>
        /\ disk' = Renamed(m) /\ Puts(P, Uploads)
    BY <1>8 DEF Rename
  <2>2. Renamed(m) \in [Paths -> Contents \cup {Absent}]
    <3> SUFFICES ASSUME NEW q \in Paths, \E p \in DOMAIN m : m[p] = q
                 PROVE  disk[CHOOSE p \in DOMAIN m : m[p] = q] \in Contents \cup {Absent}
      BY <1>a DEF Renamed
    <3>1. (CHOOSE p \in DOMAIN m : m[p] = q) \in DOMAIN m
      OBVIOUS
    <3> QED BY <1>a, <1>8, <3>1
  <2>3. exposed' \subseteq Contents
    BY <1>e, <2>1, <2>2
  <2> HIDE DEF P
  <2> QED BY <1>a, <1>b, <2>1, <2>2, <2>3 DEF FileTypes, Events
<1>9. ASSUME NEW i \in Ids, Restore(i) PROVE FileTypes'
  <2> DEFINE T == {Target(i, q) : q \in DOMAIN bytes[i]}
             Back(p) == bytes[i][CHOOSE q \in DOMAIN bytes[i] : Target(i, q) = p]
  <2>1. /\ disk' = [p \in Paths |-> IF p \in T THEN Back(p) ELSE disk[p]]
        /\ gone' = gone \cup {disk[p] : p \in {q \in T : Exists(q)}}
        /\ Happens(T, "other") /\ Puts(T, Uploads) /\ UNCHANGED index
    BY <1>9 DEF Restore
  <2>2. T \in SUBSET Paths
    BY <1>9 DEF Restore, Restorable
  <2>3. \A p \in T : Back(p) \in Contents
    <3>1. bytes[i] \in FileSets
      BY DEF LInv, Types, TrashTypes
    <3> QED BY <3>1, FileSetsAre
  <2>4. gone' \subseteq Contents
    BY <1>a, <2>1, <2>2 DEF Exists
  <2>5. disk' \in [Paths -> Contents \cup {Absent}]
    BY <1>a, <2>1, <2>3
  <2>6. exposed' \subseteq Contents
    BY <1>e, <2>1, <2>2, <2>5
  <2> HIDE DEF T
  <2> QED BY <1>a, <1>b, <2>1, <2>2, <2>4, <2>5, <2>6 DEF FileTypes, Events
<1>10. ASSUME NEW i \in Ids, RestoreNothing(i) \/ TakeOff(i) PROVE FileTypes'
  BY <1>a, <1>10 DEF RestoreNothing, TakeOff, files, losses, FileTypes
<1>11. ASSUME NEW S \in SUBSET list, Unlink(S), UNCHANGED <<files, index, touched, spoiled>>
       PROVE  FileTypes'
  <2>1. exposed' = exposed /\ gone' \subseteq Contents
    BY <1>11, UnlinkIs
  <2> QED BY <1>a, <1>11, <2>1 DEF files, FileTypes
<1>12. CASE Pass
  <2>1. UNCHANGED <<disk, last, raced, gone, exposed>>
    BY <1>12 DEF Pass, PassOnly, files, losses, PassBegins, PassPrunes, PassScans, PassCompares, PassHashes,
                 PassRecords, PassEnds
  <2>2. touched' \subseteq Paths /\ spoiled' \subseteq Paths
    <3>1. CASE PassRecords
      <4>1. pass.path \in Paths
        BY <3>1 DEF PassRecords, LInv, Types, PassTypes, Passes
      <4> QED BY <1>a, <3>1, <4>1 DEF PassRecords
    <3> QED BY <1>12, <1>a, <3>1 DEF Pass, PassBegins, PassPrunes, PassScans, PassCompares, PassHashes,
                                PassEnds
  <2>3. index' \in [Paths -> Entries \cup {NoEntry}]
    <3>1. CASE PassRecords
      <4>1. pass.path \in Paths /\ pass.hash \in Contents /\ pass.path \in DOMAIN pass.seen
        BY <3>1 DEF PassRecords, LInv, Types, PassTypes, Passes
      <4>2. pass.seen[pass.path] \in Contents \cup {Absent}
        BY <4>1 DEF LInv, Types, PassTypes, Passes
      <4>3. Recorded(index[pass.path], pass.hash, pass.seen[pass.path]) \in Entries
        BY <4>1, <4>2, RowIsEntry
      <4> QED BY <1>a, <3>1, <4>1, <4>3 DEF PassRecords
    <3>2. CASE PassPrunes
      <4>1. \A p \in pass.missing : index[p] \in Entries
        BY <1>a DEF LInv, Types, PassTypes, Passes
      <4> QED BY <1>a, <3>2, <4>1, MarkedIsEntry DEF PassPrunes
    <3> QED BY <1>12, <1>a, <3>1, <3>2 DEF Pass, PassBegins, PassScans, PassCompares, PassHashes,
                                PassEnds
  <2> QED BY <1>a, <2>1, <2>2, <2>3 DEF FileTypes
<1>13. ASSUME NEW p \in Paths, SmbRemove(p) PROVE FileTypes'
  <2>1. disk' = Without({p}) /\ Happens({p}, "other") /\ UNCHANGED <<index, exposed>>
    BY <1>13 DEF SmbRemove
  <2>2. gone' \subseteq Contents
    BY <1>a, <1>13 DEF SmbRemove, Exists
  <2> QED BY <1>a, <1>b, <1>d, <2>1, <2>2 DEF FileTypes, Events
<1>14. ASSUME NEW p \in Paths, NEW c \in Contents, SmbPut(p, c) PROVE FileTypes'
  <2>1. /\ disk' = [disk EXCEPT ![p] = c] /\ Happens({p}, "other") /\ UNCHANGED index
        /\ Puts({p}, Uploads)
    BY <1>14 DEF SmbPut
  <2>2. gone' \subseteq Contents
    BY <1>a, <1>14 DEF SmbPut
  <2>3. disk' \in [Paths -> Contents \cup {Absent}]
    BY <1>a, <2>1
  <2> QED BY <1>a, <1>b, <1>e, <2>1, <2>2, <2>3 DEF FileTypes, Events
<1>15. CASE Crash
  <2>1. UNCHANGED <<files, index, spoiled>> /\ touched' = {}
    BY <1>15 DEF Crash
  <2>2. gone' \subseteq Contents /\ exposed' = exposed
    <3>1. CASE UNCHANGED losses
      BY <1>a, <3>1 DEF losses
    <3>2. ASSUME NEW n, Unlink({i \in list : i <= n}) PROVE gone' \subseteq Contents /\ exposed' = exposed
      BY <3>2, UnlinkIs
    <3> QED BY <1>15, <3>1, <3>2 DEF Crash
  <2> QED BY <1>a, <2>1, <2>2 DEF files, FileTypes
<1>16. ASSUME NEW p \in Paths, NEW q \in Paths, RenameFile(p, q) PROVE FileTypes'
  BY <1>8, <1>16 DEF RenameFile
<1>17. ASSUME NEW i \in {0, 1}, NEW j \in {0, 1}, RenameFolder(i, j) PROVE FileTypes'
  <2> DEFINE m == [p \in There(i) |-> <<j, p[2]>>]
  <2>1. Rename(m) /\ DOMAIN m \subseteq Paths /\ \A p \in DOMAIN m : m[p] \in Paths
    BY <1>17 DEF RenameFolder, There, InFolder
  <2> QED BY <1>8, <2>1
<1>18. ASSUME NEW i \in Ids, Erase(i) PROVE FileTypes'
  <2>1. {i} \in SUBSET list /\ Unlink({i}) /\ UNCHANGED <<files, index, touched, spoiled>>
    BY <1>18 DEF Erase
  <2> QED BY <1>11, <2>1
<1>19. CASE Purge
  <2>1. PICK n \in 0..Len(item) : Unlink(OverQuota \cup {i \in list : i <= n})
    BY <1>19 DEF Purge
  <2>2. OverQuota \cup {i \in list : i <= n} \in SUBSET list
    BY DEF OverQuota
  <2>3. UNCHANGED <<files, index, touched, spoiled>>
    BY <1>19 DEF Purge
  <2> QED BY <1>11, <2>1, <2>2, <2>3
<1> QED BY <1>1, <1>2, <1>3, <1>4, <1>5, <1>6, <1>7, <1>9, <1>10, <1>12, <1>13, <1>14,
           <1>15, <1>16, <1>17, <1>18, <1>19 DEF Next

LEMMA UploadTypesStep == ASSUME LInv, Next PROVE UploadTypes'
<1> USE DEF Maybe
<1>a. /\ pc \in [Uploads -> {"new", "missed", "picked", "duplicate", "stored", "done", "died"}]
      /\ body \in [Uploads -> Contents \cup {Absent}]
      /\ dest \in [Uploads -> Paths \cup {Absent}]
      /\ \A u \in Uploads : /\ pc[u] \in {"missed", "picked", "stored", "done"} => body[u] \in Contents
                            /\ pc[u] \in {"picked", "stored"} => dest[u] \in Paths
  BY DEF LInv, Types, UploadTypes
<1>1. ASSUME NEW u \in Uploads, NEW c \in Contents, Lookup(u, c) PROVE UploadTypes'
  <2>1. Hits(c) \subseteq Paths
    BY DEF Hits
  <2> QED BY <1>1, <1>a, <2>1 DEF Lookup, UploadTypes
<1>2. ASSUME NEW u \in Uploads, Pick(u) \/ Store(u) PROVE UploadTypes'
  BY <1>2, <1>a DEF Pick, Store, UploadTypes
<1>3. ASSUME NEW u \in Uploads, Record(u) PROVE UploadTypes'
  BY <1>3, <1>a DEF Record, UploadTypes
<1>4. CASE Crash
  BY <1>4, <1>a DEF Crash, UploadTypes
<1>5. CASE UNCHANGED uploads
  BY <1>5, <1>a DEF uploads, UploadTypes
<1>6. ASSUME NEW m, Rename(m) PROVE UNCHANGED uploads
  BY <1>6 DEF Rename
<1>7. ASSUME ~Crash, \A u \in Uploads : ~Pick(u) /\ ~Store(u) /\ ~Record(u) /\ \A c \in Contents : ~Lookup(u, c)
      PROVE  UNCHANGED uploads
  BY <1>6, <1>7 DEF Next, DeleteFile, Mark, MarkFails, SmbRemove, SmbPut, RenameFile, DeleteFolder,
      RenameFolder, Restore, RestoreNothing, Erase, TakeOff, Purge, Pass, PassOnly, PassBegins,
      PassPrunes, PassScans, PassCompares, PassHashes, PassRecords, PassEnds
<1> QED BY <1>1, <1>2, <1>3, <1>4, <1>5, <1>7

\* A delete takes a number of its own and leaves at most two marks.
LEMMA ListedItem ==
  ASSUME LInv, NEW P \in SUBSET Paths, P # {}, NEW folder \in BOOLEAN, Listed(P, folder)
  PROVE  /\ item' \in Seq(Items) /\ Len(item') = Len(item) + 1 /\ Len(item) + 1 <= MaxItems
         /\ list' = list \cup {Len(item) + 1} /\ Len(item) \in Nat
<1> DEFINE i == [from |-> CHOOSE p \in P : \A q \in P : p[2] <= q[2],
                 folder |-> folder, size |-> Cardinality(P)]
<1>1. item \in Seq(Items) /\ Len(item) \in Nat
  BY DEF LInv, Types, TrashTypes
<1>2. (CHOOSE p \in P : \A q \in P : p[2] <= q[2]) \in Paths
  <2>1. \A p \in Paths : p[2] \in {0, 1}
    BY DEF Paths
  <2>2. \E p \in P : \A q \in P : p[2] <= q[2]
    <3>1. CASE \E p \in P : p[2] = 0
      BY <2>1, <3>1
    <3>2. CASE \A p \in P : p[2] # 0
      BY <2>1, <3>2
    <3> QED BY <3>1, <3>2
  <2> QED BY <2>2
<1>3. Cardinality(P) \in 1..Cardinality(Paths)
  <2>1. IsFiniteSet(Paths)
    <3>1. /\ IsFiniteSet({<<0, 0>>}) /\ IsFiniteSet({<<0, 1>>}) /\ IsFiniteSet({<<1, 0>>})
      BY FS_Singleton
    <3>2. IsFiniteSet({<<0, 0>>} \cup {<<0, 1>>})
      BY <3>1, FS_Union
    <3>3. IsFiniteSet(({<<0, 0>>} \cup {<<0, 1>>}) \cup {<<1, 0>>})
      BY <3>1, <3>2, FS_Union
    <3>4. Paths = ({<<0, 0>>} \cup {<<0, 1>>}) \cup {<<1, 0>>}
      BY DEF Paths
    <3> QED BY <3>3, <3>4
  <2>2. IsFiniteSet(P) /\ Cardinality(P) <= Cardinality(Paths)
    BY <2>1, FS_Subset
  <2>3. Cardinality(P) \in Nat /\ Cardinality(Paths) \in Nat /\ Cardinality(P) # 0
    BY <2>1, <2>2, FS_CardinalityType, FS_EmptySet
  <2> QED BY <2>2, <2>3
<1>4. i \in Items
  BY <1>2, <1>3 DEF Items
<1>5. item' = Append(item, i) /\ Len(item) < MaxItems /\ list' = list \cup {Len(item) + 1}
  BY DEF Listed
<1> QED BY <1>1, <1>4, <1>5

LEMMA TrashTypesStep == ASSUME LInv, Next PROVE TrashTypes'
<1>a. /\ item \in Seq(Items) /\ Len(item) \in Nat /\ Len(item) <= MaxItems
      /\ list \subseteq 1..Len(item) /\ closing \subseteq 1..Len(item)
      /\ stranded \subseteq 1..Len(item)
      /\ bytes \in [Ids -> FileSets] /\ purge \in BOOLEAN
      /\ marks \in [Paths -> Nat] /\ \A p \in Paths : marks[p] <= 2 * Len(item)
      /\ calls \in 0..MaxCalls
  BY DEF LInv, Types, TrashTypes
<1>b. \A c : Call(c) => calls' \in 0..MaxCalls
  BY <1>a DEF Call
<1>1. ASSUME NEW P \in SUBSET Paths, P # {}, NEW folder \in BOOLEAN, NEW c, Call(c), ToTrash(P, folder),
             \A p \in P : Exists(p), UNCHANGED stranded,
             \/ UNCHANGED marks
             \/ \E p \in Paths, n \in {0, 1, 2} : marks' = [marks EXCEPT ![p] = @ + n]
      PROVE  TrashTypes'
  <2>1. /\ item' \in Seq(Items) /\ Len(item') = Len(item) + 1 /\ Len(item) + 1 <= MaxItems
        /\ list' = list \cup {Len(item) + 1}
    BY <1>1, ListedItem DEF ToTrash
  <2>2. Trashed(P) \in FileSets
    <3>1. \A p \in P : disk[p] \in Contents
      BY <1>1 DEF Exists, LInv, Types, FileTypes, Maybe
    <3> QED BY <3>1 DEF Trashed, FileSets
  <2>3. bytes' \in [Ids -> FileSets]
    BY <1>1, <1>a, <2>2 DEF ToTrash
  <2>4. marks' \in [Paths -> Nat] /\ \A p \in Paths : marks'[p] <= 2 * (Len(item) + 1)
    BY <1>1, <1>a
  <2>5. (list \cup closing \cup stranded)' \subseteq 1..Len(item')
    <3>1. UNCHANGED closing
      BY <1>1 DEF ToTrash
    <3>2. 1..Len(item) \subseteq 1..Len(item') /\ Len(item) + 1 \in 1..Len(item')
      BY <1>a, <2>1
    <3> QED BY <1>1, <1>a, <2>1, <3>1, <3>2
  <2>6. calls' \in 0..MaxCalls
    BY <1>1, <1>b
  <2>7. purge' \in BOOLEAN
    BY <1>1 DEF ToTrash
  <2> QED BY <2>1, <2>3, <2>4, <2>5, <2>6, <2>7 DEF TrashTypes
<1>2. ASSUME NEW p \in Paths, DeleteFile(p) PROVE TrashTypes'
  <2>1. {p} \in SUBSET Paths /\ {p} # {} /\ (\A q \in {p} : Exists(q)) /\ Call("delete") /\ ToTrash({p}, FALSE)
        /\ UNCHANGED stranded
    BY <1>2 DEF DeleteFile, losses
  <2>2. \E n \in {0, 1, 2} : marks' = [marks EXCEPT ![p] = @ + n]
    BY <1>2, DeletedFile
  <2> QED BY <1>1, <2>1, <2>2
<1>3. ASSUME NEW i \in {0, 1}, DeleteFolder(i) PROVE TrashTypes'
  <2>1. There(i) \in SUBSET Paths /\ \A p \in There(i) : Exists(p)
    BY DEF There, InFolder
  <2> QED BY <1>1, <1>3, <2>1 DEF DeleteFolder, losses
<1>4. ASSUME UNCHANGED <<trash, calls, stranded>>,
             \/ UNCHANGED marks
             \/ \E p \in Paths, n \in 1..2 : n <= marks[p] /\ marks' = [marks EXCEPT ![p] = @ - n]
      PROVE  TrashTypes'
  <2>1. marks' \in [Paths -> Nat] /\ \A p \in Paths : marks'[p] <= 2 * Len(item)
    BY <1>4, <1>a
  <2> QED BY <1>4, <1>a, <2>1 DEF trash, TrashTypes
<1>5. ASSUME UNCHANGED <<trash, marks, stranded>>, NEW c, Call(c) PROVE TrashTypes'
  BY <1>5, <1>a, <1>b DEF trash, TrashTypes
<1>6. ASSUME NEW p \in Paths, Mark(p) \/ MarkFails(p) PROVE TrashTypes'
  <2>1. \E n \in 1..2 : n <= marks[p] /\ marks' = [marks EXCEPT ![p] = @ - n]
    BY <1>6, <1>a, MarksAre DEF Mark, MarkFails
  <2>2. UNCHANGED <<trash, calls, stranded>>
    BY <1>6 DEF Mark, MarkFails, losses
  <2> QED BY <1>4, <2>1, <2>2
<1>7. ASSUME NEW i \in Ids, Restore(i) \/ RestoreNothing(i) \/ TakeOff(i) PROVE TrashTypes'
  <2>1. UNCHANGED <<item, purge, marks, stranded>>
    BY <1>7 DEF Restore, RestoreNothing, TakeOff, losses
  <2>2. calls' \in 0..MaxCalls
    BY <1>7, <1>a, <1>b DEF Restore, RestoreNothing, TakeOff
  <2>3. list' \subseteq 1..Len(item) /\ closing' \subseteq 1..Len(item)
    BY <1>7, <1>a DEF Restore, RestoreNothing, TakeOff
  <2>4. bytes' \in [Ids -> FileSets]
    BY <1>7, <1>a, EmptyFiles DEF Restore, RestoreNothing, TakeOff
  <2> QED BY <1>a, <2>1, <2>2, <2>3, <2>4 DEF TrashTypes
<1>8. CASE Purge
  <2>1. PICK n \in 0..Len(item) :
           LET S == OverQuota \cup {i \in list : i <= n} IN list' = list \ S /\ Unlink(S)
    BY <1>8 DEF Purge
  <2>2. OverQuota \cup {i \in list : i <= n} \in SUBSET list
    BY DEF OverQuota
  <2>3. list' \subseteq list /\ bytes' \in [Ids -> FileSets] /\ stranded' \subseteq 1..Len(item)
    BY <2>1, <2>2, UnlinkIs
  <2>4. purge' = FALSE /\ UNCHANGED <<item, closing, marks, calls>>
    BY <1>8 DEF Purge
  <2> QED BY <1>a, <2>3, <2>4 DEF TrashTypes
<1>9. CASE Crash
  <2>1. /\ item' \in Seq(Items) /\ Len(item') \in Nat /\ Len(item') <= MaxItems
        /\ list' \subseteq 1..Len(item')
    <3>1. CASE UNCHANGED <<item, list>>
      BY <1>a, <3>1
    <3>2. CASE \E p \in Paths : Exists(p) /\ Listed({p}, FALSE)
      <4>1. PICK p \in Paths : Listed({p}, FALSE)
        BY <3>2
      <4>2. {p} \in SUBSET Paths /\ {p} # {}
        OBVIOUS
      <4>3. /\ item' \in Seq(Items) /\ Len(item') = Len(item) + 1 /\ Len(item) + 1 <= MaxItems
            /\ list' = list \cup {Len(item) + 1}
        BY <4>1, <4>2, ListedItem
      <4>4. 1..Len(item) \subseteq 1..Len(item') /\ Len(item) + 1 \in 1..Len(item')
        BY <1>a, <4>3
      <4>5. list' \subseteq 1..Len(item')
        BY <1>a, <4>3, <4>4
      <4>6. Len(item') \in Nat /\ Len(item') <= MaxItems
        BY <1>a, <4>3
      <4> QED BY <4>3, <4>5, <4>6
    <3> QED BY <1>9, <3>1, <3>2 DEF Crash
  <2>2. bytes' \in [Ids -> FileSets] /\ stranded' \subseteq 1..Len(item')
    <3>1. CASE UNCHANGED <<bytes, losses>>
      <4>1. item' = item \/ \E p \in Paths : Exists(p) /\ Listed({p}, FALSE)
        BY <1>9 DEF Crash
      <4>2. Len(item') \in Nat /\ Len(item') >= Len(item)
        <5>1. CASE item' = item
          BY <1>a, <5>1
        <5>2. ASSUME NEW p \in Paths, Listed({p}, FALSE) PROVE Len(item') = Len(item) + 1
          <6>1. {p} \in SUBSET Paths /\ {p} # {} /\ FALSE \in BOOLEAN
            OBVIOUS
          <6> QED BY <5>2, <6>1, ListedItem
        <5>3. CASE \E p \in Paths : Exists(p) /\ Listed({p}, FALSE)
          <6>1. Len(item') = Len(item) + 1
            BY <5>2, <5>3
          <6> QED BY <1>a, <6>1
        <5> QED BY <4>1, <5>1, <5>3
      <4>3. 1..Len(item) \subseteq 1..Len(item')
        BY <1>a, <4>2
      <4> QED BY <1>a, <3>1, <4>3 DEF losses
    <3>2. ASSUME NEW n, Unlink({i \in list : i <= n}), UNCHANGED <<item, list>>
          PROVE  bytes' \in [Ids -> FileSets] /\ stranded' \subseteq 1..Len(item')
      <4>1. {i \in list : i <= n} \in SUBSET list
        OBVIOUS
      <4> QED BY <3>2, <4>1, UnlinkIs
    <3> QED BY <1>9, <3>1, <3>2 DEF Crash
  <2>3. closing' = {} /\ purge' = FALSE /\ marks' = [p \in Paths |-> 0] /\ calls' \in 0..MaxCalls
    BY <1>9, <1>b DEF Crash
  <2>4. marks' \in [Paths -> Nat] /\ \A p \in Paths : marks'[p] <= 2 * Len(item')
    BY <2>1, <2>3
  <2> QED BY <2>1, <2>2, <2>3, <2>4 DEF TrashTypes
<1>10. CASE Pass
  BY <1>4, <1>10 DEF Pass, PassOnly, losses, PassBegins, PassPrunes, PassScans, PassCompares, PassHashes,
      PassRecords, PassEnds
<1>11. ASSUME NEW u \in Uploads, Pick(u) \/ Store(u) \/ Record(u) \/ \E c \in Contents : Lookup(u, c)
       PROVE  TrashTypes'
  BY <1>4, <1>11 DEF Pick, Store, Record, Lookup, losses
<1>12. ASSUME NEW m, Rename(m) PROVE TrashTypes'
  BY <1>5, <1>12 DEF Rename
<1>13. ASSUME NEW p \in Paths, SmbRemove(p) \/ \E c \in Contents : SmbPut(p, c) PROVE TrashTypes'
  BY <1>5, <1>13 DEF SmbRemove, SmbPut
<1>14. ASSUME NEW i \in Ids, Erase(i) PROVE TrashTypes'
  <2>1. {i} \in SUBSET list /\ Unlink({i}) /\ closing' = closing \cup {i} /\ Call("erase")
        /\ UNCHANGED <<item, list, purge, marks>>
    BY <1>14 DEF Erase
  <2>2. bytes' \in [Ids -> FileSets] /\ stranded' \subseteq 1..Len(item)
    BY <2>1, UnlinkIs
  <2> QED BY <1>a, <1>b, <2>1, <2>2 DEF TrashTypes
<1> QED BY <1>2, <1>3, <1>6, <1>7, <1>8, <1>9, <1>10, <1>11, <1>12, <1>13, <1>14
        DEF Next, RenameFile, RenameFolder

LEMMA PassTypesStep == ASSUME LInv, Next PROVE PassTypes'
<1>a. /\ pass \in Passes
      /\ pass.at # "prune" => pass.missing = {}
      /\ \A p \in pass.missing : index[p] # NoEntry
      /\ pass.at = "compare" => pass.seen \in [Paths -> Maybe]
      /\ pass.at # "index" => pass.todo = {} /\ pass.path = Absent
      /\ pass.todo \subseteq DOMAIN pass.seen
      /\ pass.path # Absent => pass.path \in pass.todo /\ pass.hash \in Contents
  BY DEF LInv, Types, PassTypes
<1>b. disk \in [Paths -> Maybe] /\ index \in [Paths -> Entries \cup {NoEntry}]
  BY DEF LInv, Types, FileTypes
\* A row is never removed.
<1>1. \A p \in Paths : index[p] # NoEntry => index'[p] # NoEntry
  <2>1. CASE UNCHANGED index
    BY <2>1
  <2>2. ASSUME NEW u \in Uploads, Record(u), UNCHANGED index \/ index' # index
        PROVE  \A p \in Paths : index[p] # NoEntry => index'[p] # NoEntry
    <3>1. body[u] \in Contents
      BY <2>2 DEF Record, LInv, Types, UploadTypes
    <3>2. \A s \in Signatures(u) : s \in Maybe
      BY <1>b, <2>2, <3>1 DEF Record, Signatures, LInv, Types, UploadTypes, Maybe
    <3>3. \A s \in Signatures(u) : Recorded(index[dest[u]], body[u], s) # NoEntry
      BY <3>1, <3>2, RowIsEntry
    <3> QED BY <1>b, <2>2, <3>3 DEF Record
  <2>3. ASSUME NEW p \in Paths, Mark(p)
        PROVE  \A q \in Paths : index[q] # NoEntry => index'[q] # NoEntry
    <3>1. index[p] # NoEntry => [index[p] EXCEPT !.deleted = TRUE] # NoEntry
      BY <1>b, MarkedIsEntry
    <3> QED BY <1>b, <2>3, <3>1 DEF Mark
  <2>4. CASE PassPrunes
    <3>1. \A p \in pass.missing : [index[p] EXCEPT !.deleted = TRUE] # NoEntry
      BY <1>a, <1>b, MarkedIsEntry DEF Passes
    <3> QED BY <1>b, <2>4, <3>1 DEF PassPrunes
  <2>5. CASE PassRecords
    <3>1. pass.path \in Paths /\ pass.hash \in Contents /\ pass.seen[pass.path] \in Maybe
      BY <1>a, <2>5 DEF PassRecords, Passes
    <3>2. Recorded(index[pass.path], pass.hash, pass.seen[pass.path]) # NoEntry
      BY <3>1, RowIsEntry
    <3> QED BY <1>b, <2>5, <3>2 DEF PassRecords
  <2>6. ASSUME NEW m, Rename(m) PROVE UNCHANGED index
    BY <2>6 DEF Rename
  <2> QED BY <2>1, <2>2, <2>3, <2>4, <2>5, <2>6 DEF Next, Lookup, Pick, Store, DeleteFile, MarkFails,
          SmbRemove, SmbPut, RenameFile, DeleteFolder, RenameFolder, Restore, RestoreNothing, Erase,
          TakeOff, Purge, Pass, PassBegins, PassScans, PassCompares, PassHashes, PassEnds, Crash
<1>2. ASSUME UNCHANGED pass PROVE PassTypes'
  BY <1>1, <1>2, <1>a DEF PassTypes, Passes
<1>3. CASE Crash
  BY <1>3, RestIsPass DEF Crash, PassTypes, Resting
<1>4. CASE PassBegins
  <2>1. Missing \subseteq Paths /\ HiddenAsIs \subseteq Paths /\ \A p \in Missing : index[p] # NoEntry
    BY DEF Missing, HiddenAsIs, Live
  <2>2. /\ pass' = [pass EXCEPT !.at = "prune", !.missing = Missing, !.hidden = HiddenAsIs]
        /\ UNCHANGED index /\ pass.at = "rest"
    BY <1>4 DEF PassBegins
  <2> QED BY <1>a, <2>1, <2>2 DEF PassTypes, Passes
<1>5. CASE PassPrunes
  BY <1>5, <1>a DEF PassPrunes, PassTypes, Passes
<1>6. CASE PassScans
  <2>1. disk \in UNION {[P -> Maybe] : P \in SUBSET Paths}
    BY <1>b
  <2>2. pass' = [pass EXCEPT !.at = "compare", !.seen = disk] /\ pass.at = "scan"
    BY <1>6 DEF PassScans
  <2> QED BY <1>a, <1>b, <2>1, <2>2 DEF PassTypes, Passes
<1>7. CASE PassCompares
  <2> DEFINE todo == {p \in Paths : pass.seen[p] # Absent /\ ~Known(p)}
             seen == [p \in todo |-> pass.seen[p]]
  <2>1. pass' = [pass EXCEPT !.at = "index", !.todo = todo, !.seen = seen] /\ pass.at = "compare"
    BY <1>7 DEF PassCompares
  <2>2. seen \in [todo -> Maybe] /\ todo \in SUBSET Paths
    BY <1>a, <2>1
  <2>3. seen \in UNION {[P -> Maybe] : P \in SUBSET Paths}
    BY <2>2
  <2> HIDE DEF todo, seen
  <2> QED BY <1>a, <2>1, <2>2, <2>3 DEF PassTypes, Passes
<1>8. ASSUME NEW p \in Paths, PassHashes(p) PROVE PassTypes'
  <2>1. ReadNow(p) \in Maybe
    BY <1>b DEF ReadNow
  <2> QED BY <1>8, <1>a, <2>1 DEF PassHashes, PassTypes, Passes, Maybe
<1>9. CASE PassRecords
  BY <1>9, <1>a DEF PassRecords, PassTypes, Passes, Maybe
<1>10. CASE PassEnds
  BY <1>10, RestIsPass DEF PassEnds, PassTypes, Resting
<1>11. ASSUME NEW m, Rename(m) PROVE UNCHANGED pass
  BY <1>11 DEF Rename
<1> QED BY <1>2, <1>3, <1>4, <1>5, <1>6, <1>7, <1>8, <1>9, <1>10, <1>11 DEF Next, Lookup, Pick, Store, Record,
        DeleteFile, Mark, MarkFails, SmbRemove, SmbPut, RenameFile, DeleteFolder, RenameFolder,
        Restore, RestoreNothing, Erase, TakeOff, Purge, Pass

------------------------------------------------------------------------------
\* The trash: what is in it is listed, what is on its way out of the list is empty.
LEMMA BytesStep == ASSUME LInv, Next PROVE BytesListed' /\ ClosingEmpty'
<1>a. /\ \A i \in Ids \ stranded : bytes[i] # <<>> => i \in list
      /\ \A i \in closing \ stranded : bytes[i] = <<>>
      /\ bytes \in [Ids -> FileSets] /\ closing \subseteq 1..Len(item) /\ list \subseteq 1..Len(item)
      /\ Len(item) \in Nat
  BY DEF LInv, BytesListed, ClosingEmpty, Types, TrashTypes
<1>b. closing \subseteq Ids
  BY <1>a DEF LInv, Types, TrashTypes, Ids
<1>1. ASSUME NEW P \in SUBSET Paths, NEW folder \in BOOLEAN, ToTrash(P, folder), UNCHANGED stranded
      PROVE  BytesListed' /\ ClosingEmpty'
  <2>1. /\ list' = list \cup {Len(item) + 1} /\ closing' = closing
        /\ bytes' = [bytes EXCEPT ![Len(item) + 1] = Trashed(P)]
    BY <1>1 DEF ToTrash, Listed
  <2>2. Len(item) + 1 \notin closing
    BY <1>a
  <2> QED BY <1>1, <1>a, <1>b, <2>1, <2>2 DEF BytesListed, ClosingEmpty
<1>2. ASSUME UNCHANGED <<list, bytes, closing, stranded>> PROVE BytesListed' /\ ClosingEmpty'
  BY <1>2, <1>a DEF BytesListed, ClosingEmpty
<1>3. ASSUME NEW i \in Ids, Restore(i) PROVE BytesListed' /\ ClosingEmpty'
  <2>1. /\ bytes' = [bytes EXCEPT ![i] = <<>>] /\ closing' = closing \cup {i} /\ list' = list
        /\ stranded' = stranded
    BY <1>3 DEF Restore
  <2> QED BY <1>a, <1>b, <2>1 DEF BytesListed, ClosingEmpty
<1>4. ASSUME NEW i \in Ids, RestoreNothing(i) \/ TakeOff(i) PROVE BytesListed' /\ ClosingEmpty'
  <2>1. /\ bytes' = bytes /\ (i \notin stranded => bytes[i] = <<>>) /\ closing' \subseteq closing
        /\ list' = list \ {i} /\ stranded' = stranded
    BY <1>4, <1>a DEF RestoreNothing, TakeOff, losses
  <2> QED BY <1>a, <2>1 DEF BytesListed, ClosingEmpty
\* What is unlinked is empty, or is one of those that were not.
<1>5. ASSUME NEW S \in SUBSET list, Unlink(S), closing' \subseteq closing \cup S, list \ S \subseteq list'
      PROVE  BytesListed' /\ ClosingEmpty'
  <2>1. /\ stranded \subseteq stranded'
        /\ \A i \in Ids : /\ i \notin S => bytes'[i] = bytes[i]
                          /\ i \in S \ stranded' => bytes'[i] = <<>>
    BY <1>5, UnlinkIs
  <2>2. S \subseteq Ids
    BY DEF LInv, Types, TrashTypes, Ids
  <2>3. BytesListed'
    <3> SUFFICES ASSUME NEW i \in Ids, i \notin stranded', bytes'[i] # <<>> PROVE i \in list'
      BY DEF BytesListed
    <3>1. i \notin S /\ bytes[i] # <<>> /\ i \notin stranded
      BY <2>1
    <3> QED BY <1>5, <1>a, <3>1
  <2>4. ClosingEmpty'
    <3> SUFFICES ASSUME NEW i \in closing', i \notin stranded' PROVE bytes'[i] = <<>>
      BY DEF ClosingEmpty
    <3>1. i \in Ids /\ i \notin stranded /\ (i \in closing \/ i \in S)
      BY <1>5, <1>b, <2>1, <2>2
    <3>2. i \notin S => bytes'[i] = <<>>
      BY <1>a, <2>1, <3>1
    <3> QED BY <2>1, <3>1, <3>2
  <2> QED BY <2>3, <2>4
<1>6. CASE Purge
  <2>1. PICK n \in 0..Len(item) :
           LET S == OverQuota \cup {i \in list : i <= n} IN list' = list \ S /\ Unlink(S)
    BY <1>6 DEF Purge
  <2> DEFINE S == OverQuota \cup {i \in list : i <= n}
  <2>2. list' = list \ S /\ Unlink(S) /\ closing' = closing
    BY <1>6, <2>1 DEF Purge
  <2>3. S \in SUBSET list
    BY DEF OverQuota
  <2> HIDE DEF S
  <2> QED BY <1>5, <2>2, <2>3
<1>7. CASE Crash
  <2>1. closing' = {} /\ list \subseteq list'
    BY <1>7 DEF Crash, Listed
  <2>2. CASE UNCHANGED <<bytes, losses>>
    BY <1>a, <2>1, <2>2 DEF losses, BytesListed, ClosingEmpty
  <2>3. ASSUME NEW n, Unlink({i \in list : i <= n}) PROVE BytesListed' /\ ClosingEmpty'
    <3>1. {i \in list : i <= n} \in SUBSET list
      OBVIOUS
    <3> QED BY <1>5, <2>1, <2>3, <3>1
  <2> QED BY <1>7, <2>2, <2>3 DEF Crash
<1>8. ASSUME NEW m, Rename(m) PROVE UNCHANGED <<list, bytes, closing, stranded>>
  BY <1>8 DEF Rename, trash
<1>9. ASSUME NEW p \in Paths, DeleteFile(p) PROVE BytesListed' /\ ClosingEmpty'
  <2>1. {p} \in SUBSET Paths /\ ToTrash({p}, FALSE) /\ UNCHANGED stranded
    BY <1>9 DEF DeleteFile, losses
  <2> QED BY <1>1, <2>1
<1>10. ASSUME NEW i \in {0, 1}, DeleteFolder(i) PROVE BytesListed' /\ ClosingEmpty'
  <2>1. There(i) \in SUBSET Paths /\ ToTrash(There(i), TRUE) /\ UNCHANGED stranded
    BY <1>10 DEF DeleteFolder, There, InFolder, losses
  <2> QED BY <1>1, <2>1
<1>11. ASSUME NEW i \in Ids, Erase(i) PROVE BytesListed' /\ ClosingEmpty'
  <2>1. {i} \in SUBSET list /\ Unlink({i}) /\ closing' = closing \cup {i} /\ list' = list
    BY <1>11 DEF Erase
  <2> QED BY <1>5, <2>1
<1>12. ASSUME ~Purge, ~Crash, \A i \in Ids : ~Restore(i) /\ ~Erase(i) /\ ~RestoreNothing(i) /\ ~TakeOff(i),
              \A p \in Paths : ~DeleteFile(p), \A i \in {0, 1} : ~DeleteFolder(i)
       PROVE  UNCHANGED <<list, bytes, closing, stranded>>
  BY <1>8, <1>12 DEF Next, trash, losses, Lookup, Pick, Store, Record, Mark, MarkFails, SmbRemove, SmbPut,
      RenameFile, RenameFolder, Pass, PassOnly, PassBegins, PassPrunes, PassScans, PassCompares,
      PassHashes, PassRecords, PassEnds
<1> QED BY <1>2, <1>3, <1>4, <1>6, <1>7, <1>9, <1>10, <1>11, <1>12

\* Whoever puts a file where an upload had found none says so.
LEMMA ExposedStep == ASSUME LInv, Next PROVE Exposed'
<1>a. /\ disk \in [Paths -> Contents \cup {Absent}] /\ index \in [Paths -> Entries \cup {NoEntry}]
      /\ pc \in [Uploads -> {"new", "missed", "picked", "duplicate", "stored", "done", "died"}]
      /\ dest \in [Uploads -> Paths \cup {Absent}]
      /\ \A u \in Uploads : pc[u] = "picked" => /\ dest[u] \in Paths
                                               /\ disk[dest[u]] \in exposed \cup {Absent}
      /\ FileTypes
  BY DEF LInv, Types, FileTypes, UploadTypes, Exposed, Maybe
<1>1. ASSUME NEW u \in Uploads, NEW c \in Contents, Lookup(u, c) PROVE Exposed'
  <2>1. UNCHANGED <<disk, exposed>> /\ \A v \in Uploads : pc'[v] = "picked" => pc[v] = "picked" /\ dest'[v] = dest[v]
    BY <1>a, <1>1 DEF Lookup, files, losses
  <2> QED BY <1>a, <2>1 DEF Exposed
<1>2. ASSUME NEW u \in Uploads, Pick(u) PROVE Exposed'
  <2>1. PICK p \in Paths : Free(p) /\ dest' = [dest EXCEPT ![u] = p]
    BY <1>2 DEF Pick
  <2>2. UNCHANGED <<disk, exposed>> /\ \A v \in Uploads \ {u} : pc'[v] = pc[v]
    BY <1>a, <1>2 DEF Pick, files, losses
  <2> QED BY <1>a, <2>1, <2>2 DEF Exposed, Free, Exists
<1>3. ASSUME NEW P \in SUBSET Paths, NEW W \in SUBSET Uploads, Puts(P, W),
             disk' \in [Paths -> Contents \cup {Absent}], \A p \in Paths \ P : disk'[p] = disk[p],
             \A v \in Uploads : pc'[v] = "picked" => v \in W /\ pc[v] = "picked" /\ dest'[v] = dest[v]
      PROVE  Exposed'
  <2>1. /\ exposed \subseteq exposed'
        /\ \A u \in W : pc[u] = "picked" /\ dest[u] \in P => disk'[dest[u]] \in exposed' \cup {Absent}
    BY <1>3, <1>a, PutsAre DEF Maybe
  <2> SUFFICES ASSUME NEW v \in Uploads, pc'[v] = "picked" PROVE disk'[dest'[v]] \in exposed' \cup {Absent}
    BY DEF Exposed
  <2>2. v \in W /\ pc[v] = "picked" /\ dest'[v] = dest[v] /\ dest[v] \in Paths
        /\ disk[dest[v]] \in exposed \cup {Absent}
    BY <1>3, <1>a
  <2>3. CASE dest[v] \in P
    BY <2>1, <2>2, <2>3
  <2>4. CASE dest[v] \notin P
    BY <1>3, <2>1, <2>2, <2>4
  <2> QED BY <2>3, <2>4
<1>4. ASSUME NEW u \in Uploads, Store(u) PROVE Exposed'
  <2>1. /\ disk' = [disk EXCEPT ![dest[u]] = body[u]] /\ Puts({dest[u]}, Uploads \ {u})
        /\ pc' = [pc EXCEPT ![u] = "stored"] /\ dest' = dest /\ pc[u] = "picked"
    BY <1>4 DEF Store
  <2>2. {dest[u]} \in SUBSET Paths /\ body[u] \in Contents
    BY <2>1 DEF LInv, Types, UploadTypes
  <2>3. disk' \in [Paths -> Contents \cup {Absent}] /\ \A p \in Paths \ {dest[u]} : disk'[p] = disk[p]
    BY <1>a, <2>1, <2>2
  <2>4. \A v \in Uploads : pc'[v] = "picked" => v \in Uploads \ {u} /\ pc[v] = "picked" /\ dest'[v] = dest[v]
    BY <1>a, <2>1
  <2> QED BY <1>3, <2>1, <2>2, <2>3, <2>4
<1>5. ASSUME NEW u \in Uploads, Record(u) PROVE Exposed'
  <2>1. UNCHANGED <<disk, exposed>> /\ \A v \in Uploads : pc'[v] = "picked" => pc[v] = "picked" /\ dest'[v] = dest[v]
    BY <1>a, <1>5 DEF Record, losses
  <2> QED BY <1>a, <2>1 DEF Exposed
<1>6. ASSUME UNCHANGED <<pc, dest, exposed>>, \A p \in Paths : disk'[p] \in {disk[p], Absent}
      PROVE  Exposed'
  BY <1>6, <1>a DEF Exposed
<1>7. ASSUME NEW P \in SUBSET Paths, UNCHANGED <<uploads, exposed>>, disk' = Without(P) PROVE Exposed'
  BY <1>6, <1>7 DEF Without, uploads
<1>8. ASSUME NEW p \in Paths, DeleteFile(p) \/ SmbRemove(p) PROVE Exposed'
  <2>1. {p} \in SUBSET Paths /\ UNCHANGED <<uploads, exposed>> /\ disk' = Without({p})
    BY <1>8 DEF DeleteFile, ToTrash, SmbRemove, losses
  <2> QED BY <1>7, <2>1
<1>9. ASSUME NEW i \in {0, 1}, DeleteFolder(i) PROVE Exposed'
  <2>1. There(i) \in SUBSET Paths /\ UNCHANGED <<uploads, exposed>> /\ disk' = Without(There(i))
    BY <1>9 DEF DeleteFolder, ToTrash, There, InFolder, losses
  <2> QED BY <1>7, <2>1
<1>10. ASSUME NEW P \in SUBSET Paths, Puts(P, Uploads), UNCHANGED uploads,
              \A p \in Paths \ P : disk'[p] = disk[p], FileTypes'
       PROVE  Exposed'
  <2>1. disk' \in [Paths -> Contents \cup {Absent}] /\ UNCHANGED <<pc, dest>>
    BY <1>10 DEF FileTypes, uploads, Maybe
  <2>2. Uploads \in SUBSET Uploads /\ \A v \in Uploads : pc'[v] = "picked" => v \in Uploads /\ pc[v] = "picked" /\ dest'[v] = dest[v]
    BY <2>1
  <2> QED BY <1>3, <1>10, <2>1, <2>2
<1>11. FileTypes'
  BY FileTypesStep
<1>12. ASSUME NEW m, Rename(m), DOMAIN m \subseteq Paths, \A p \in DOMAIN m : m[p] \in Paths
       PROVE  Exposed'
  <2> DEFINE P == DOMAIN m \cup {m[p] : p \in DOMAIN m}
  <2>1. /\ P \in SUBSET Paths /\ Puts(P, Uploads) /\ disk' = Renamed(m) /\ UNCHANGED uploads
    BY <1>12 DEF Rename
  <2>2. \A p \in Paths \ P : disk'[p] = disk[p]
    BY <2>1 DEF Renamed
  <2> HIDE DEF P
  <2> QED BY <1>10, <1>11, <2>1, <2>2
<1>13. ASSUME NEW p \in Paths, NEW q \in Paths, RenameFile(p, q) PROVE Exposed'
  <2> DEFINE m == [x \in {p} |-> q]
  <2>1. Rename(m) /\ DOMAIN m \subseteq Paths /\ \A x \in DOMAIN m : m[x] \in Paths
    BY <1>13 DEF RenameFile
  <2> HIDE DEF m
  <2> QED BY <1>12, <2>1
<1>14. ASSUME NEW i \in {0, 1}, NEW j \in {0, 1}, RenameFolder(i, j) PROVE Exposed'
  <2> DEFINE m == [p \in There(i) |-> <<j, p[2]>>]
  <2>1. Rename(m) /\ DOMAIN m \subseteq Paths /\ \A x \in DOMAIN m : m[x] \in Paths
    BY <1>14 DEF RenameFolder, There, InFolder
  <2> HIDE DEF m
  <2> QED BY <1>12, <2>1
<1>15. ASSUME NEW i \in Ids, Restore(i) PROVE Exposed'
  <2> DEFINE T == {Target(i, q) : q \in DOMAIN bytes[i]}
  <2>1. T \in SUBSET Paths /\ Puts(T, Uploads) /\ UNCHANGED uploads
    BY <1>15 DEF Restore, Restorable
  <2>2. \A p \in Paths \ T : disk'[p] = disk[p]
    BY <1>15 DEF Restore
  <2> HIDE DEF T
  <2> QED BY <1>10, <1>11, <2>1, <2>2
<1>16. ASSUME NEW p \in Paths, NEW c \in Contents, SmbPut(p, c) PROVE Exposed'
  <2>1. {p} \in SUBSET Paths /\ Puts({p}, Uploads) /\ UNCHANGED uploads
    BY <1>16 DEF SmbPut
  <2>2. \A q \in Paths \ {p} : disk'[q] = disk[q]
    BY <1>a, <1>16 DEF SmbPut
  <2> QED BY <1>10, <1>11, <2>1, <2>2
<1>17. CASE Crash
  <2>1. \A u \in Uploads : pc'[u] # "picked"
    BY <1>17 DEF Crash
  <2> QED BY <2>1 DEF Exposed
<1>18. ASSUME NEW S \in SUBSET list, Unlink(S), UNCHANGED <<files, uploads>> PROVE Exposed'
  <2>1. exposed' = exposed
    BY <1>18, UnlinkIs
  <2> QED BY <1>6, <1>18, <2>1 DEF files, uploads
<1>19. ASSUME NEW i \in Ids, Erase(i) PROVE Exposed'
  <2>1. {i} \in SUBSET list /\ Unlink({i}) /\ UNCHANGED <<files, uploads>>
    BY <1>19 DEF Erase
  <2> QED BY <1>18, <2>1
<1>20. CASE Purge
  <2>1. PICK n \in 0..Len(item) : Unlink(OverQuota \cup {i \in list : i <= n})
    BY <1>20 DEF Purge
  <2>2. OverQuota \cup {i \in list : i <= n} \in SUBSET list /\ UNCHANGED <<files, uploads>>
    BY <1>20 DEF OverQuota, Purge
  <2> QED BY <1>18, <2>1, <2>2
<1>21. ASSUME UNCHANGED <<disk, pc, dest, exposed>> PROVE Exposed'
  BY <1>6, <1>21
<1>22. ASSUME \/ Pass \/ \E p \in Paths : Mark(p) \/ MarkFails(p)
              \/ \E i \in Ids : RestoreNothing(i) \/ TakeOff(i)
       PROVE  Exposed'
  BY <1>21, <1>22 DEF files, uploads, losses, Mark, MarkFails, RestoreNothing, TakeOff,
      Pass, PassOnly, PassBegins, PassPrunes, PassScans, PassCompares, PassHashes, PassRecords, PassEnds
<1> QED BY <1>1, <1>2, <1>4, <1>5, <1>8, <1>9, <1>13, <1>14, <1>15, <1>16, <1>17, <1>19, <1>20, <1>22
        DEF Next

\* A content that is somewhere, or of which a copy was destroyed or exposed, stays so.
Kept(c) == Somewhere(c) \/ c \in gone \cup exposed

\* Moving files from one set of paths to another loses none.
LEMMA RenameKeeps ==
  ASSUME LInv, NEW m, Rename(m), DOMAIN m \subseteq Paths,
         \A p \in DOMAIN m : m[p] \in Paths /\ m[p] \notin DOMAIN m /\ ~Exists(m[p]),
         \A p, q \in DOMAIN m : m[p] = m[q] => p = q,
         NEW c \in Contents, Kept(c)
  PROVE  Kept(c)'
<1>1. disk' = Renamed(m) /\ UNCHANGED <<bytes, gone>> /\ exposed \subseteq exposed'
  BY DEF Rename, trash, Puts
<1>2. ASSUME NEW p \in Paths, disk[p] = c PROVE \E q \in Paths : disk'[q] = c
  <2>1. CASE p \in DOMAIN m
    <3>1. (CHOOSE q \in DOMAIN m : m[q] = m[p]) = p
      BY <2>1
    <3>2. disk'[m[p]] = disk[p]
      BY <1>1, <2>1, <3>1 DEF Renamed
    <3> QED BY <1>2, <2>1, <3>2
  <2>2. CASE p \notin DOMAIN m
    <3>1. \A q \in DOMAIN m : m[q] # p
      BY <1>2, <2>2 DEF Exists
    <3>2. disk'[p] = disk[p]
      BY <1>1, <2>2, <3>1 DEF Renamed
    <3> QED BY <1>2, <3>2
  <2> QED BY <2>1, <2>2
<1> QED BY <1>1, <1>2 DEF Kept, Somewhere, ContentOf

\* A restore puts no two files in one place.
LEMMA TargetsDiffer ==
  ASSUME NEW i, NEW p \in Paths, NEW q \in Paths, Target(i, p) = Target(i, q)
  PROVE  p = q
<1>1. p = <<p[1], p[2]>> /\ q = <<q[1], q[2]>> /\ {p[1], p[2], q[1], q[2]} \subseteq Int
  BY DEF Paths
<1> QED BY <1>1 DEF Target, Beside, Origin

\* What was exposed is not forgotten.
LEMMA ExposedGrows == ASSUME LInv, Next PROVE exposed \subseteq exposed'
<1>1. ASSUME NEW S \in SUBSET list, Unlink(S) PROVE exposed' = exposed
  BY <1>1 DEF Unlink
<1>2. CASE Crash
  <2>1. \A n : {i \in list : i <= n} \in SUBSET list
    OBVIOUS
  <2> QED BY <1>1, <1>2, <2>1 DEF Crash, losses
<1>3. ASSUME NEW i \in Ids, Erase(i) PROVE exposed' = exposed
  BY <1>3 DEF Erase, Unlink
<1>4. CASE Purge
  BY <1>4 DEF Purge, Unlink
<1>5. ASSUME NEW m, Rename(m) PROVE exposed \subseteq exposed'
  BY <1>5 DEF Rename, Puts
<1>6. ASSUME NEW P, NEW W, Puts(P, W) PROVE exposed \subseteq exposed'
  BY <1>6 DEF Puts
<1>7. ASSUME \/ \E u \in Uploads : Store(u)
             \/ \E i \in Ids : Restore(i)
             \/ \E p \in Paths : \E c \in Contents : SmbPut(p, c)
      PROVE  exposed \subseteq exposed'
  BY <1>6, <1>7 DEF Store, Restore, SmbPut
<1> QED BY <1>2, <1>3, <1>4, <1>5, <1>7 DEF Next, losses, Lookup, Pick, Record, DeleteFile, Mark, MarkFails,
      SmbRemove, RenameFile, DeleteFolder, RenameFolder, RestoreNothing, TakeOff, Pass, PassOnly,
      PassBegins, PassPrunes, PassScans, PassCompares, PassHashes, PassRecords, PassEnds

\* A content that is somewhere stays somewhere, or a copy of it is destroyed.
LEMMA ContentKept == ASSUME LInv, Next, NEW c \in Contents, Kept(c) PROVE Kept(c)'
<1>a. /\ disk \in [Paths -> Contents \cup {Absent}] /\ bytes \in [Ids -> FileSets]
      /\ list \subseteq Ids /\ Len(item) \in Nat /\ exposed \subseteq exposed'
      /\ \A i \in Ids : bytes[i] # <<>> => i \in 1..Len(item)
  <2>1. /\ list \subseteq 1..Len(item) /\ stranded \subseteq 1..Len(item)
        /\ Len(item) \in Nat /\ Len(item) <= MaxItems
    BY DEF LInv, Types, TrashTypes
  <2>2. 1..Len(item) \subseteq Ids
    BY <2>1 DEF Ids
  <2>3. disk \in [Paths -> Contents \cup {Absent}] /\ bytes \in [Ids -> FileSets]
    BY DEF LInv, Types, FileTypes, TrashTypes, Maybe
  <2>4. \A i \in Ids \ stranded : bytes[i] # <<>> => i \in list
    BY DEF LInv, BytesListed
  <2>5. exposed \subseteq exposed'
    BY ExposedGrows
  <2> QED BY <2>1, <2>2, <2>3, <2>4, <2>5
<1>b. Kept(c) <=> \/ \E p \in Paths : disk[p] = c
                  \/ \E i \in Ids : \E p \in DOMAIN bytes[i] : bytes[i][p] = c
                  \/ c \in gone \cup exposed
  BY DEF Kept, Somewhere, ContentOf
<1>c. Kept(c)' <=> \/ \E p \in Paths : disk'[p] = c
                   \/ \E i \in Ids : \E p \in DOMAIN bytes'[i] : bytes'[i][p] = c
                   \/ c \in gone' \cup exposed'
  BY DEF Kept, Somewhere, ContentOf
<1>1. ASSUME NEW P \in SUBSET Paths, NEW folder \in BOOLEAN, ToTrash(P, folder), UNCHANGED gone
      PROVE  Kept(c)'
  <2> DEFINE n == Len(item) + 1
  <2>1. /\ disk' = [p \in Paths |-> IF p \in P THEN Absent ELSE disk[p]]
        /\ bytes' = [bytes EXCEPT ![n] = [p \in P |-> disk[p]]]
        /\ n \in Ids /\ bytes[n] = <<>>
    BY <1>1, <1>a DEF ToTrash, Listed, Without, Trashed, Ids
  <2>2. bytes'[n] = [p \in P |-> disk[p]] /\ \A i \in Ids \ {n} : bytes'[i] = bytes[i]
    BY <1>a, <2>1
  <2>3. \A p \in DOMAIN bytes[n] : FALSE
    BY <2>1
  <2> HIDE DEF n
  <2> QED BY <1>1, <1>a, <1>b, <1>c, <2>1, <2>2, <2>3
<1>2. ASSUME NEW i \in Ids, Restore(i) PROVE Kept(c)'
  <2> DEFINE T == {Target(i, q) : q \in DOMAIN bytes[i]}
             Back(p) == bytes[i][CHOOSE q \in DOMAIN bytes[i] : Target(i, q) = p]
  <2>1. /\ disk' = [p \in Paths |-> IF p \in T THEN Back(p) ELSE disk[p]]
        /\ gone' = gone \cup {disk[p] : p \in {q \in T : Exists(q)}}
        /\ bytes' = [bytes EXCEPT ![i] = <<>>]
        /\ T \subseteq Paths /\ DOMAIN bytes[i] \subseteq Paths
    BY <1>2, <1>a, FileSetsAre DEF Restore, Restorable
  <2>2. ASSUME NEW q \in DOMAIN bytes[i] PROVE disk'[Target(i, q)] = bytes[i][q]
    <3>1. (CHOOSE r \in DOMAIN bytes[i] : Target(i, r) = Target(i, q)) = q
      BY <2>1, TargetsDiffer
    <3> QED BY <2>1, <3>1
  <2>3. ASSUME NEW p \in Paths, disk[p] = c PROVE disk'[p] = c \/ c \in gone'
    BY <2>1, <2>3 DEF Exists
  <2>4. \A j \in Ids \ {i} : bytes'[j] = bytes[j]
    BY <2>1
  <2> HIDE DEF T, Back
  <2>5. \A q \in DOMAIN bytes[i] : Target(i, q) \in Paths
    BY <2>1 DEF T
  <2> QED BY <1>a, <1>b, <1>c, <2>1, <2>2, <2>3, <2>4, <2>5
<1>3. ASSUME NEW S \in SUBSET list, Unlink(S), UNCHANGED disk PROVE Kept(c)'
  <2>1. \A i \in Ids \ S : bytes'[i] = bytes[i]
    BY <1>3, UnlinkIs
  <2>2. gone \subseteq gone' /\ \A i \in S : \A p \in DOMAIN bytes[i] : bytes[i][p] \in gone'
    BY <1>3, UnlinkIs DEF ContentOf
  <2> QED BY <1>3, <1>a, <1>b, <1>c, <2>1, <2>2
<1>4. ASSUME UNCHANGED <<disk, bytes, gone>> PROVE Kept(c)'
  BY <1>4, <1>a, <1>b, <1>c
<1>5. ASSUME NEW i \in Ids, Erase(i) PROVE Kept(c)'
  <2>1. {i} \in SUBSET list /\ Unlink({i}) /\ UNCHANGED disk
    BY <1>5 DEF Erase, files
  <2> QED BY <1>3, <2>1
<1>6. CASE Purge
  <2>1. PICK n \in 0..Len(item) : Unlink(OverQuota \cup {i \in list : i <= n})
    BY <1>6 DEF Purge
  <2>2. OverQuota \cup {i \in list : i <= n} \in SUBSET list /\ UNCHANGED disk
    BY <1>6 DEF OverQuota, Purge, files
  <2> QED BY <1>3, <2>1, <2>2
<1>7. CASE Crash
  <2>1. UNCHANGED disk
    BY <1>7 DEF Crash, files
  <2>2. ASSUME NEW n, Unlink({i \in list : i <= n}) PROVE Kept(c)'
    <3>1. {i \in list : i <= n} \in SUBSET list
      OBVIOUS
    <3> QED BY <1>3, <2>1, <2>2, <3>1
  <2> QED BY <1>4, <1>7, <2>1, <2>2 DEF Crash, losses
<1>8. ASSUME NEW p \in Paths, SmbRemove(p) PROVE Kept(c)'
  <2>1. \A q \in Paths \ {p} : disk'[q] = disk[q]
    BY <1>8 DEF SmbRemove, Without
  <2>2. disk[p] \in gone' /\ gone \subseteq gone' /\ UNCHANGED bytes
    BY <1>8 DEF SmbRemove, trash
  <2> QED BY <1>a, <1>b, <1>c, <2>1, <2>2
<1>9. ASSUME NEW p \in Paths, NEW d \in Contents, SmbPut(p, d) PROVE Kept(c)'
  <2>1. \A q \in Paths \ {p} : disk'[q] = disk[q]
    BY <1>9, <1>a DEF SmbPut
  <2>2. (disk[p] # Absent => disk[p] \in gone') /\ gone \subseteq gone' /\ UNCHANGED bytes
    BY <1>9 DEF SmbPut, trash
  <2> QED BY <1>a, <1>b, <1>c, <2>1, <2>2
<1>10. ASSUME NEW u \in Uploads, Store(u) PROVE Kept(c)'
  <2>1. disk' = [disk EXCEPT ![dest[u]] = body[u]] /\ pc[u] = "picked" /\ UNCHANGED <<bytes, gone>>
    BY <1>10 DEF Store, trash
  <2>2. \A q \in Paths \ {dest[u]} : disk'[q] = disk[q]
    BY <1>a, <2>1
  <2>3. disk[dest[u]] \in exposed \cup {Absent}
    BY <2>1 DEF LInv, Exposed
  <2> QED BY <1>a, <1>b, <1>c, <2>1, <2>2, <2>3
<1>11. ASSUME NEW p \in Paths, NEW q \in Paths, RenameFile(p, q) PROVE Kept(c)'
  <2> DEFINE m == [x \in {p} |-> q]
  <2>1. /\ Rename(m) /\ DOMAIN m = {p} /\ m[p] = q /\ p # q /\ ~Exists(q)
    BY <1>11 DEF RenameFile, Free
  <2> HIDE DEF m
  <2> QED BY <2>1, RenameKeeps
<1>12. ASSUME NEW i \in {0, 1}, NEW j \in {0, 1}, RenameFolder(i, j) PROVE Kept(c)'
  <2> DEFINE m == [p \in There(i) |-> <<j, p[2]>>]
  <2>1. /\ Rename(m) /\ DOMAIN m = There(i) /\ There(i) \subseteq Paths
        /\ \A p \in There(i) : m[p] = <<j, p[2]>> /\ m[p] \in Paths /\ p[1] = i
        /\ There(j) = {} /\ There(i) # {}
    BY <1>12 DEF RenameFolder, There, InFolder
  <2>2. \A p \in There(i) : m[p] \notin There(i) /\ ~Exists(m[p])
    BY <2>1 DEF There, InFolder
  <2>3. \A p \in There(i) : p = <<p[1], p[2]>>
    BY <2>1 DEF Paths
  <2>4. \A p, q \in There(i) : m[p] = m[q] => p = q
    BY <2>1, <2>3
  <2> HIDE DEF m
  <2> QED BY <2>1, <2>2, <2>4, RenameKeeps
<1>13. ASSUME NEW p \in Paths, DeleteFile(p) PROVE Kept(c)'
  <2>1. {p} \in SUBSET Paths /\ ToTrash({p}, FALSE) /\ UNCHANGED gone
    BY <1>13 DEF DeleteFile, losses
  <2> QED BY <1>1, <2>1
<1>14. ASSUME NEW i \in {0, 1}, DeleteFolder(i) PROVE Kept(c)'
  <2>1. There(i) \in SUBSET Paths /\ ToTrash(There(i), TRUE) /\ UNCHANGED gone
    BY <1>14 DEF DeleteFolder, There, InFolder, losses
  <2> QED BY <1>1, <2>1
<1>15. ASSUME ~Purge, ~Crash, \A i \in Ids : ~Restore(i) /\ ~Erase(i), \A u \in Uploads : ~Store(u),
              \A p \in Paths : ~DeleteFile(p) /\ ~SmbRemove(p) /\ \A d \in Contents : ~SmbPut(p, d),
              \A p, q \in Paths : ~RenameFile(p, q),
              \A i, j \in {0, 1} : ~DeleteFolder(i) /\ ~RenameFolder(i, j)
       PROVE  UNCHANGED <<disk, bytes, gone>>
  BY <1>15 DEF Next, trash, files, losses, Lookup, Pick, Record, Mark, MarkFails, RestoreNothing, TakeOff,
      Pass, PassOnly, PassBegins, PassPrunes, PassScans, PassCompares, PassHashes, PassRecords, PassEnds
<1> QED BY <1>2, <1>4, <1>5, <1>6, <1>7, <1>8, <1>9, <1>10, <1>11, <1>12, <1>13, <1>14, <1>15

\* What is received is on the disk, and what was stays somewhere.
LEMMA LostStep == ASSUME LInv, Next PROVE NothingLost'
<1>1. \A c \in Received : c \in Contents /\ Kept(c)
  BY DEF LInv, NothingLost, Kept, Received, Types, UploadTypes
<1>2. ASSUME NEW c \in Received', c \notin Received PROVE \E p \in Paths : disk'[p] = c
  <2>1. PICK u \in Uploads : Store(u) /\ c = body[u]
    <3>1. PICK u \in Uploads : c = body'[u] /\ pc'[u] \in {"stored", "done"}
                               /\ ~(c = body[u] /\ pc[u] \in {"stored", "done"})
      BY <1>2 DEF Received
    <3>2. ASSUME ~Store(u) PROVE FALSE
      <4>1. /\ pc \in [Uploads -> {"new", "missed", "picked", "duplicate", "stored", "done", "died"}]
            /\ body \in [Uploads -> Maybe]
        BY DEF LInv, Types, UploadTypes
      <4>2. ASSUME NEW v \in Uploads, Store(v) \/ Record(v) PROVE FALSE
        BY <3>1, <3>2, <4>1, <4>2 DEF Store, Record
      <4>3. ASSUME NEW v \in Uploads, Pick(v) \/ \E d \in Contents : Lookup(v, d) PROVE FALSE
        BY <3>1, <4>1, <4>3 DEF Pick, Lookup
      <4>4. ASSUME Crash PROVE FALSE
        BY <3>1, <4>1, <4>4 DEF Crash
      <4>5. ASSUME UNCHANGED uploads PROVE FALSE
        BY <3>1, <4>5 DEF uploads
      <4>6. ASSUME NEW m, Rename(m) PROVE UNCHANGED uploads
        BY <4>6 DEF Rename
      <4> QED BY <4>2, <4>3, <4>4, <4>5, <4>6 DEF Next, DeleteFile, Mark, MarkFails, SmbRemove, SmbPut,
              RenameFile, DeleteFolder, RenameFolder, Restore, RestoreNothing, Erase, TakeOff, Purge,
              Pass, PassOnly, PassBegins, PassPrunes, PassScans, PassCompares, PassHashes, PassRecords,
              PassEnds
    <3> QED BY <3>1, <3>2 DEF Store
  <2>2. disk' = [disk EXCEPT ![dest[u]] = body[u]] /\ dest[u] \in Paths
    BY <2>1 DEF Store, LInv, Types, UploadTypes
  <2> QED BY <2>1, <2>2 DEF LInv, Types, FileTypes
<1> QED BY <1>1, <1>2, ContentKept DEF NothingLost, Kept, Somewhere

------------------------------------------------------------------------------
\* The paths.

\* Nobody is on the way to write the row of p.
LEMMA NotLate ==
  ASSUME NEW p \in Paths, ~Late(p), LInv
  PROVE  /\ marks[p] = 0 /\ p \notin pass.missing /\ pass.path # p
         /\ \A u \in Uploads : ~(pc[u] = "stored" /\ dest[u] = p)
  BY DEF Late, LInv, Types, TrashTypes

\* What changes files and their history alone, as "other", keeps what is said of each path.
LEMMA Moved ==
  ASSUME LInv, NEW P \in SUBSET Paths, Happens(P, "other"),
         \A p \in Paths \ P : disk'[p] = disk[p],
         UNCHANGED <<index, pass, marks, pc, dest, body>>
  PROVE  Paired'
<1> SUFFICES ASSUME NEW p \in Paths
             PROVE  Fresh(p)' /\ Dead(p)' /\ Matches(p)' /\ (pass'.at # "rest" => Follows(p)')
  BY DEF Paired
<1>1. Fresh(p) /\ Dead(p) /\ Matches(p) /\ (pass.at # "rest" => Follows(p))
  BY DEF LInv, Paired
<1>2. Matches(p)'
  BY <1>1 DEF Matches, Happens
<1>3. CASE p \in P
  <2>1. last'[p] = "other"
    BY <1>3 DEF Happens
  <2>2. pass.at # "rest" => p \in touched'
    BY <1>3 DEF Happens, Touch
  <2> QED BY <1>2, <2>1, <2>2 DEF Fresh, Dead, Follows
<1>4. CASE p \notin P
  <2>1. last'[p] = last[p] /\ (p \in raced' <=> p \in raced) /\ disk'[p] = disk[p]
    BY <1>4 DEF Happens
  <2>2. pass.at # "rest" => (p \in touched' <=> p \in touched)
    BY <1>4 DEF Happens, Touch
  <2>3. Live(p)' <=> Live(p)
    BY DEF Live
  <2>4. Fresh(p)' /\ Dead(p)'
    BY <1>1, <2>1, <2>3 DEF Fresh, Dead
  <2>5. pass'.at # "rest" => Follows(p)'
    BY <1>1, <2>1, <2>2, <2>3 DEF Follows
  <2> QED BY <1>2, <2>4, <2>5
<1> QED BY <1>3, <1>4

\* The lookup and the choice of a path write nothing of it.
LEMMA LookupPaired ==
  ASSUME LInv, NEW u \in Uploads, Pick(u) \/ \E c \in Contents : Lookup(u, c)
  PROVE  Paired'
<1> SUFFICES ASSUME NEW p \in Paths
             PROVE  Fresh(p)' /\ Dead(p)' /\ Matches(p)' /\ (pass'.at # "rest" => Follows(p)')
  BY DEF Paired
<1>1. Fresh(p) /\ Dead(p) /\ Matches(p) /\ (pass.at # "rest" => Follows(p))
  BY DEF LInv, Paired
<1>2. UNCHANGED <<disk, last, raced, index, marks, pass, touched, spoiled>>
  BY DEF Pick, Lookup, files
<1>3. \A v \in Uploads : pc'[v] = "stored" =>
         pc[v] = "stored" /\ dest'[v] = dest[v] /\ body'[v] = body[v]
  <2>1. /\ pc \in [Uploads -> {"new", "missed", "picked", "duplicate", "stored", "done", "died"}]
        /\ body \in [Uploads -> Maybe] /\ dest \in [Uploads -> Paths \cup {Absent}]
    BY DEF LInv, Types, UploadTypes
  <2> QED BY <2>1 DEF Pick, Lookup
<1>4. Live(p)' <=> Live(p)
  BY <1>2 DEF Live
<1> QED BY <1>1, <1>2, <1>3, <1>4 DEF Fresh, Dead, Matches, Follows

\* Who meets nobody on the way to its path is fresh.
LEMMA StorePaired ==
  ASSUME LInv, NEW u \in Uploads, Store(u)
  PROVE  Paired'
<1> SUFFICES ASSUME NEW p \in Paths
             PROVE  Fresh(p)' /\ Dead(p)' /\ Matches(p)' /\ (pass'.at # "rest" => Follows(p)')
  BY DEF Paired
<1>1. Fresh(p) /\ Dead(p) /\ Matches(p) /\ (pass.at # "rest" => Follows(p))
  BY DEF LInv, Paired
<1> DEFINE q == dest[u]
<1>2. q \in Paths /\ disk' = [disk EXCEPT ![q] = body[u]] /\ Happens({q}, "storing")
  BY DEF Store, LInv, Types, UploadTypes
<1>3. UNCHANGED <<body, dest, index, marks, pass>> /\ pc' = [pc EXCEPT ![u] = "stored"]
  BY DEF Store
<1>4. /\ pc \in [Uploads -> {"new", "missed", "picked", "duplicate", "stored", "done", "died"}]
      /\ dest \in [Uploads -> Paths \cup {Absent}] /\ disk \in [Paths -> Maybe]
      /\ body[u] \in Contents
  BY DEF LInv, Types, UploadTypes, FileTypes, Store
<1> HIDE DEF q
<1>5. Matches(p)'
  BY <1>1, <1>2, <1>3 DEF Matches, Happens
<1>6. /\ dest'[u] = q /\ pc'[u] = "stored"
      /\ \A v \in Uploads \ {u} : dest'[v] = dest[v] /\ pc'[v] = pc[v]
  BY <1>2, <1>3, <1>4 DEF q
<1>7. CASE p = q
  <2>1. last'[p] = "storing" /\ disk'[p] = body[u] /\ (pass.at # "rest" => p \in touched')
    BY <1>2, <1>4, <1>7 DEF Happens, Touch
  <2>2. Fresh(p)'
    <3> SUFFICES ASSUME p \notin raced' PROVE Fresh(p)'
      BY DEF Fresh
    <3>1. ~Late(p)
      BY <1>2, <1>7 DEF Happens
    <3>2. /\ marks[p] = 0 /\ p \notin pass.missing /\ pass.path # p
          /\ \A v \in Uploads : ~(pc[v] = "stored" /\ dest[v] = p)
      BY <3>1, NotLate
    <3>3. \A v \in Uploads : pc'[v] = "stored" /\ dest'[v] = p => v = u
      BY <1>6, <3>2
    <3> QED BY <1>3, <1>4, <2>1, <3>2, <3>3 DEF Fresh
  <2> QED BY <1>3, <1>5, <2>1, <2>2 DEF Dead, Follows
<1>8. CASE p # q
  <2>1. last'[p] = last[p] /\ (p \in raced' <=> p \in raced) /\ disk'[p] = disk[p]
    BY <1>2, <1>4, <1>8 DEF Happens
  <2>2. pass.at # "rest" => (p \in touched' <=> p \in touched)
    BY <1>2, <1>8 DEF Happens, Touch
  <2>3. \A v \in Uploads : pc'[v] = "stored" /\ dest'[v] = p => pc[v] = "stored" /\ dest[v] = p
    BY <1>6, <1>8
  <2>4. Live(p)' <=> Live(p)
    BY <1>3 DEF Live
  <2> QED BY <1>1, <1>3, <1>5, <2>1, <2>2, <2>3, <2>4 DEF Fresh, Dead, Follows
<1> QED BY <1>7, <1>8

\* A row recorded by an upload has the hash of its body: the file's, if it is fresh.
LEMMA RecordPaired ==
  ASSUME LInv, NEW u \in Uploads, Record(u)
  PROVE  Paired'
<1> SUFFICES ASSUME NEW p \in Paths
             PROVE  Fresh(p)' /\ Dead(p)' /\ Matches(p)' /\ (pass'.at # "rest" => Follows(p)')
  BY DEF Paired
<1>1. Fresh(p) /\ Dead(p) /\ Matches(p) /\ (pass.at # "rest" => Follows(p))
  BY DEF LInv, Paired
<1>2. /\ pc \in [Uploads -> {"new", "missed", "picked", "duplicate", "stored", "done", "died"}]
      /\ dest \in [Uploads -> Paths \cup {Absent}] /\ disk \in [Paths -> Maybe]
      /\ pc[u] = "stored" /\ body[u] \in Contents /\ dest[u] \in Paths
      /\ index \in [Paths -> Entries \cup {NoEntry}] /\ last \in [Paths -> Events]
  BY DEF LInv, Types, UploadTypes, FileTypes, Record
<1>3. /\ UNCHANGED <<disk, raced, body, marks, pass>>
      /\ pc' = [pc EXCEPT ![u] = "done"] /\ dest' = [dest EXCEPT ![u] = Absent]
      /\ Touch({dest[u]})
  BY DEF Record
<1>4. \A v \in Uploads : pc'[v] = "stored" => v # u /\ pc[v] = "stored" /\ dest'[v] = dest[v]
  BY <1>2, <1>3
<1>5. CASE p # dest[u]
  <2>1. index'[p] = index[p] /\ last'[p] = last[p] /\ (p \in spoiled' <=> p \in spoiled)
    BY <1>2, <1>5 DEF Record
  <2>2. pass.at # "rest" => (p \in touched' <=> p \in touched)
    BY <1>3, <1>5 DEF Touch
  <2>3. Live(p)' <=> Live(p)
    BY <2>1 DEF Live
  <2> QED BY <1>1, <1>3, <1>4, <2>1, <2>2, <2>3 DEF Fresh, Dead, Matches, Follows
<1>6. CASE p = dest[u]
  <2>1. pass'.at # "rest" => p \in touched'
    BY <1>3, <1>6 DEF Touch
  <2>2. Dead(p)'
    <3>1. last'[p] \in {"deleting", "deleted"} => last[p] = last'[p]
      BY <1>2, <1>6 DEF Record
    <3> QED BY <1>1, <1>2, <1>3, <1>6, <3>1 DEF Dead
  <2>4. ASSUME NEW s \in Signatures(u),
               index' = [index EXCEPT ![p] = Recorded(@, body[u], s)],
               spoiled' = IF s = body[u] THEN spoiled \ {p} ELSE spoiled \cup {p},
               last' = IF last[p] = "storing" THEN [last EXCEPT ![p] = "uploaded"] ELSE last
        PROVE  Fresh(p)' /\ Matches(p)'
    <3>1. s \in Maybe
      BY <1>2 DEF Signatures, Maybe
    <3>2. /\ index'[p] = Recorded(index[p], body[u], s)
          /\ index'[p] # NoEntry /\ ~index'[p].deleted
          /\ index'[p].hash = body[u] /\ index'[p].sig = s
      BY <1>2, <2>4, <3>1, RowIsEntry
    <3>3. Matches(p)'
      BY <2>4, <3>2 DEF Matches
    <3>4. last'[p] \in {"storing", "uploaded"} => last[p] \in {"storing", "uploaded"}
      BY <1>2, <2>4
    <3>5. Live(p)'
      BY <3>2 DEF Live
    <3>6. Fresh(p)'
      BY <1>1, <1>2, <1>3, <1>4, <1>6, <3>2, <3>4, <3>5 DEF Fresh
    <3> QED BY <3>3, <3>6
  <2>5. Fresh(p)' /\ Matches(p)'
    <3>1. CASE UNCHANGED <<index, spoiled>> /\ last' = IF last[p] = "storing" THEN [last EXCEPT ![p] = "other"] ELSE last
      <4>1. Fresh(p)'
        <5>1. last'[p] # "storing" /\ (last'[p] = "uploaded" => last[p] = "uploaded")
          BY <1>2, <3>1
        <5>2. Live(p)' <=> Live(p)
          BY <3>1 DEF Live
        <5> QED BY <1>1, <1>3, <1>4, <3>1, <5>1, <5>2 DEF Fresh
      <4> QED BY <1>1, <3>1, <4>1 DEF Matches
    <3> QED BY <1>6, <2>4, <3>1 DEF Record
  <2> QED BY <2>1, <2>2, <2>5 DEF Follows
<1> QED BY <1>5, <1>6

\* A step that does not concern a path keeps what is said of it.
LEMMA PathKept ==
  ASSUME NEW q \in Paths, LInv,
         disk'[q] = disk[q], index'[q] = index[q], last'[q] = last[q], marks'[q] = marks[q],
         q \in raced' <=> q \in raced, q \in spoiled' <=> q \in spoiled,
         pass.at # "rest" => (q \in touched' <=> q \in touched),
         UNCHANGED <<pass, pc, dest, body>>
  PROVE  Fresh(q)' /\ Dead(q)' /\ Matches(q)' /\ (pass'.at # "rest" => Follows(q)')
<1>1. Fresh(q) /\ Dead(q) /\ Matches(q) /\ (pass.at # "rest" => Follows(q))
  BY DEF LInv, Paired
<1>2. Live(q)' <=> Live(q)
  BY DEF Live
<1>3. Fresh(q)'
  BY <1>1, <1>2 DEF Fresh
<1>4. Dead(q)'
  BY <1>1, <1>2 DEF Dead
<1>5. Matches(q)'
  BY <1>1 DEF Matches
<1>6. pass'.at # "rest" => Follows(q)'
  BY <1>1, <1>2 DEF Follows
<1> QED BY <1>3, <1>4, <1>5, <1>6

\* Who meets nobody on the way to its path is dead.
LEMMA DeleteFilePaired ==
  ASSUME LInv, NEW p \in Paths, DeleteFile(p)
  PROVE  Paired'
<1> SUFFICES ASSUME NEW q \in Paths
             PROVE  Fresh(q)' /\ Dead(q)' /\ Matches(q)' /\ (pass'.at # "rest" => Follows(q)')
  BY DEF Paired
<1>1. /\ disk \in [Paths -> Maybe] /\ marks \in [Paths -> Nat]
  BY DEF LInv, Types, FileTypes, TrashTypes
<1>2. disk' = Without({p}) /\ UNCHANGED <<pc, body, dest, index, pass>>
  BY DEF DeleteFile, ToTrash, uploads
<1>6. PICK what \in {"other", "deleting"} : Happens({p}, what)
  BY DeletedFile
<1>3. \A r \in Paths \ {p} : marks'[r] = marks[r]
  BY <1>1, DeletedFile
<1>4. CASE q # p
  <2>1. /\ disk'[q] = disk[q] /\ last'[q] = last[q] /\ (q \in raced' <=> q \in raced)
        /\ (q \in spoiled' <=> q \in spoiled)
        /\ (pass.at # "rest" => (q \in touched' <=> q \in touched))
    BY <1>2, <1>4, <1>6 DEF Without, Happens, Touch
  <2> QED BY <1>2, <1>3, <1>4, <2>1, PathKept
<1>5. CASE q = p
  <2>1. /\ disk'[p] = Absent /\ last'[p] = what /\ (pass.at # "rest" => p \in touched')
    BY <1>2, <1>6 DEF Without, Happens, Touch
  <2>2. Dead(p)'
    <3> SUFFICES ASSUME p \notin raced', what = "deleting" PROVE Dead(p)'
      BY <2>1 DEF Dead
    <3>1. ~Late(p)
      BY <1>6 DEF Happens
    <3> QED BY <1>2, <2>1, <3>1, NotLate DEF Dead
  <2>3. Matches(p)'
    BY <1>2, <1>6 DEF Matches, Happens, LInv, Paired
  <2> QED BY <1>2, <1>5, <2>1, <2>2, <2>3 DEF Fresh, Follows
<1> QED BY <1>4, <1>5

\* A mark is due of no fresh path.
LEMMA MarkPaired ==
  ASSUME LInv, NEW p \in Paths, Mark(p)
  PROVE  Paired'
<1> SUFFICES ASSUME NEW q \in Paths
             PROVE  Fresh(q)' /\ Dead(q)' /\ Matches(q)' /\ (pass'.at # "rest" => Follows(q)')
  BY DEF Paired
<1>1. /\ index \in [Paths -> Entries \cup {NoEntry}] /\ marks \in [Paths -> Nat]
      /\ last \in [Paths -> Events]
  BY DEF LInv, Types, FileTypes, TrashTypes
<1>2. /\ UNCHANGED <<disk, raced, pc, body, dest, pass, spoiled>> /\ Touch({p})
      /\ marks[p] > 0
  BY DEF Mark, uploads
<1>3. CASE q # p
  <2>1. index'[q] = index[q] /\ last'[q] = last[q] /\ marks'[q] = marks[q]
    BY <1>1, <1>3 DEF Mark
  <2>2. pass.at # "rest" => (q \in touched' <=> q \in touched)
    BY <1>2, <1>3 DEF Touch
  <2> QED BY <1>2, <2>1, <2>2, PathKept
<1>4. CASE q = p
  <2>1. pass.at # "rest" => p \in touched'
    BY <1>2 DEF Touch
  <2>2. Fresh(p) /\ Dead(p) /\ Matches(p)
    BY DEF LInv, Paired
  <2>3. /\ last'[p] \in {"storing", "uploaded"} => last'[p] = last[p]
        /\ last'[p] \in {"deleting", "deleted"} => last[p] \in {"deleting", "deleted"}
    BY <1>1 DEF Mark
  <2>4. ~Live(p)' /\ Matches(p)'
    <3>1. CASE index[p] = NoEntry
      BY <1>2, <2>2, <3>1 DEF Mark, Live, Matches
    <3>2. CASE index[p] # NoEntry
      <4>1. index'[p] = [index[p] EXCEPT !.deleted = TRUE] /\ index[p] \in Entries
        BY <1>1, <3>2 DEF Mark
      <4>2. index'[p].deleted /\ index'[p].hash = index[p].hash /\ index'[p].sig = index[p].sig
        BY <4>1, MarkedIsEntry
      <4> QED BY <1>2, <2>2, <3>2, <4>2 DEF Live, Matches
    <3> QED BY <3>1, <3>2
  <2>5. Fresh(p)'
    BY <1>1, <1>2, <2>2, <2>3 DEF Fresh
  <2>6. Dead(p)'
    BY <1>2, <2>2, <2>3, <2>4 DEF Dead
  <2> QED BY <1>2, <1>4, <2>1, <2>4, <2>5, <2>6 DEF Follows
<1> QED BY <1>3, <1>4

LEMMA MarkFailsPaired ==
  ASSUME LInv, NEW p \in Paths, MarkFails(p)
  PROVE  Paired'
<1> SUFFICES ASSUME NEW q \in Paths
             PROVE  Fresh(q)' /\ Dead(q)' /\ Matches(q)' /\ (pass'.at # "rest" => Follows(q)')
  BY DEF Paired
<1>1. marks \in [Paths -> Nat] /\ last \in [Paths -> Events]
  BY DEF LInv, Types, FileTypes, TrashTypes
<1>2. UNCHANGED <<disk, raced, pc, body, dest, index, pass, touched, spoiled>>
  BY DEF MarkFails, uploads
<1>a. \E n \in {1, 2} : n <= marks[p] /\ marks' = [marks EXCEPT ![p] = @ - n]
  <2>1. \E n \in 1..2 : n <= marks[p] /\ marks' = [marks EXCEPT ![p] = @ - n]
    BY MarksAre DEF MarkFails
  <2>2. 1..2 = {1, 2}
    OBVIOUS
  <2> QED BY <2>1, <2>2
<1>3. marks[p] > 0
  BY <1>1, <1>a
<1>4. CASE q # p
  <2>1. last'[q] = last[q] /\ marks'[q] = marks[q]
    BY <1>1, <1>4, <1>a DEF MarkFails
  <2> QED BY <1>2, <2>1, PathKept
<1>5. CASE q = p
  <2>1. Fresh(p) /\ Dead(p) /\ Matches(p) /\ (pass.at # "rest" => Follows(p))
    BY DEF LInv, Paired
  <2>2. /\ last'[p] \in {"storing", "uploaded"} => last'[p] = last[p]
        /\ last'[p] \in {"deleting", "deleted"} => last'[p] = last[p]
    BY <1>1 DEF MarkFails
  <2>3. Live(p)' <=> Live(p)
    BY <1>2 DEF Live
  <2>4. Fresh(p)'
    BY <1>1, <1>2, <1>3, <2>1, <2>2 DEF Fresh
  <2>5. Dead(p)'
    BY <1>2, <2>1, <2>2, <2>3 DEF Dead
  <2>6. pass'.at # "rest" => Follows(p)'
    <3>1. pass.at # "rest" => p \in touched
      BY <1>1, <1>3, <2>1 DEF Follows
    <3> QED BY <1>2, <3>1 DEF Follows
  <2>7. Matches(p)'
    BY <1>2, <2>1 DEF Matches
  <2> QED BY <1>5, <2>4, <2>5, <2>6, <2>7
<1> QED BY <1>4, <1>5

\* The handlers whose doings the index is not told of.
LEMMA MovesPaired ==
  ASSUME LInv, Next,
         \/ \E i \in {0, 1} : DeleteFolder(i) \/ \E j \in {0, 1} : RenameFolder(i, j)
         \/ \E p, q \in Paths : RenameFile(p, q)
         \/ \E i \in Ids : Restore(i)
         \/ \E p \in Paths : SmbRemove(p) \/ \E c \in Contents : SmbPut(p, c)
  PROVE  Paired'
<1>a. disk \in [Paths -> Maybe]
  BY DEF LInv, Types, FileTypes
<1>1. ASSUME NEW i \in {0, 1}, DeleteFolder(i) PROVE Paired'
  <2>1. /\ There(i) \in SUBSET Paths /\ Happens(There(i), "other")
        /\ disk' = Without(There(i)) /\ UNCHANGED <<index, pass, marks, pc, dest, body>>
    BY <1>1 DEF DeleteFolder, ToTrash, There, InFolder, uploads
  <2>2. \A p \in Paths \ There(i) : disk'[p] = disk[p]
    BY <2>1 DEF Without
  <2> QED BY <2>1, <2>2, Moved
<1>2. ASSUME NEW m, Rename(m), DOMAIN m \subseteq Paths, \A p \in DOMAIN m : m[p] \in Paths
      PROVE  Paired'
  <2> DEFINE P == DOMAIN m \cup {m[p] : p \in DOMAIN m}
  <2>1. /\ P \in SUBSET Paths /\ Happens(P, "other") /\ disk' = Renamed(m)
        /\ UNCHANGED <<index, pass, marks, pc, dest, body>>
    BY <1>2 DEF Rename, uploads
  <2>2. \A p \in Paths \ P : disk'[p] = disk[p]
    BY <2>1 DEF Renamed
  <2> HIDE DEF P
  <2> QED BY <2>1, <2>2, Moved
<1>3. ASSUME NEW p \in Paths, NEW q \in Paths, RenameFile(p, q) PROVE Paired'
  <2> DEFINE m == [x \in {p} |-> q]
  <2>1. Rename(m) /\ DOMAIN m \subseteq Paths /\ \A x \in DOMAIN m : m[x] \in Paths
    BY <1>3 DEF RenameFile
  <2> HIDE DEF m
  <2> QED BY <1>2, <2>1
<1>4. ASSUME NEW i \in {0, 1}, NEW j \in {0, 1}, RenameFolder(i, j) PROVE Paired'
  <2> DEFINE m == [p \in There(i) |-> <<j, p[2]>>]
  <2>1. Rename(m) /\ DOMAIN m \subseteq Paths /\ \A x \in DOMAIN m : m[x] \in Paths
    BY <1>4 DEF RenameFolder, There, InFolder
  <2> HIDE DEF m
  <2> QED BY <1>2, <2>1
<1>5. ASSUME NEW i \in Ids, Restore(i) PROVE Paired'
  <2> DEFINE T == {Target(i, q) : q \in DOMAIN bytes[i]}
  <2>1. /\ T \in SUBSET Paths /\ Happens(T, "other")
        /\ UNCHANGED <<index, pass, marks, pc, dest, body>>
    BY <1>5 DEF Restore, Restorable, uploads
  <2>2. \A p \in Paths \ T : disk'[p] = disk[p]
    BY <1>5 DEF Restore
  <2> HIDE DEF T
  <2> QED BY <2>1, <2>2, Moved
<1>6. ASSUME NEW p \in Paths, SmbRemove(p) \/ \E c \in Contents : SmbPut(p, c) PROVE Paired'
  <2>1. /\ {p} \in SUBSET Paths /\ Happens({p}, "other")
        /\ UNCHANGED <<index, pass, marks, pc, dest, body>>
    BY <1>6 DEF SmbRemove, SmbPut, uploads
  <2>2. \A q \in Paths \ {p} : disk'[q] = disk[q]
    BY <1>a, <1>6 DEF SmbRemove, SmbPut, Without
  <2> QED BY <2>1, <2>2, Moved
<1> QED BY <1>1, <1>3, <1>4, <1>5, <1>6

\* The trash alone.
LEMMA TrashPaired ==
  ASSUME LInv, Purge \/ \E i \in Ids : RestoreNothing(i) \/ Erase(i) \/ TakeOff(i)
  PROVE  Paired'
<1>1. UNCHANGED <<disk, last, raced, index, marks, pc, dest, body, pass, touched, spoiled>>
  BY DEF Purge, RestoreNothing, Erase, TakeOff, files, uploads
<1> SUFFICES ASSUME NEW q \in Paths
             PROVE  Fresh(q)' /\ Dead(q)' /\ Matches(q)' /\ (pass'.at # "rest" => Follows(q)')
  BY DEF Paired
<1> QED BY <1>1, PathKept

\* A crash takes away those who were on their way.
LEMMA CrashPaired ==
  ASSUME LInv, Crash
  PROVE  Paired'
<1>1. /\ UNCHANGED <<disk, last, raced, body, dest, index, spoiled>>
      /\ pass' = Resting /\ marks' = [p \in Paths |-> 0]
      /\ pc' = [u \in Uploads |-> IF pc[u] \in {"missed", "picked", "stored"} THEN "died" ELSE pc[u]]
  BY DEF Crash, files
<1>2. \A u \in Uploads : pc'[u] # "stored"
  BY <1>1
<1> SUFFICES ASSUME NEW q \in Paths
             PROVE  Fresh(q)' /\ Dead(q)' /\ Matches(q)' /\ pass'.at = "rest"
  BY DEF Paired
<1>3. Fresh(q) /\ Dead(q) /\ Matches(q)
  BY DEF LInv, Paired
<1>4. pass'.at = "rest" /\ pass'.missing = {} /\ pass'.path = Absent /\ marks'[q] = 0
  BY <1>1 DEF Resting
<1>5. Live(q)' <=> Live(q)
  BY <1>1 DEF Live
<1>6. Fresh(q)'
  BY <1>1, <1>2, <1>3, <1>4, <1>5 DEF Fresh
<1>7. Dead(q)'
  BY <1>1, <1>2, <1>3, <1>4, <1>5 DEF Dead
<1>8. Matches(q)'
  BY <1>1, <1>3 DEF Matches
<1> QED BY <1>4, <1>6, <1>7, <1>8

\* The pass, phase by phase.
LEMMA PassBeginsPaired ==
  ASSUME LInv, PassBegins
  PROVE  Paired'
<1> SUFFICES ASSUME NEW p \in Paths
             PROVE  Fresh(p)' /\ Dead(p)' /\ Matches(p)' /\ Follows(p)'
  BY DEF Paired
<1>1. /\ pass.at = "rest" /\ pass.path = Absent /\ pass \in Passes
      /\ Fresh(p) /\ Dead(p) /\ Matches(p)
  BY DEF PassBegins, LInv, Types, PassTypes, Paired
<1>2. /\ UNCHANGED <<disk, last, raced, pc, body, dest, marks, index, spoiled>>
      /\ touched' = {q \in Paths : Late(q)}
  BY DEF PassBegins, PassOnly, files, uploads
<1>3. /\ pass'.at = "prune" /\ pass'.path = Absent
      /\ pass'.missing = Missing /\ pass'.hidden = HiddenAsIs
  BY <1>1 DEF PassBegins, Passes
<1>4. Live(p)' <=> Live(p)
  BY <1>2 DEF Live
<1>5. Fresh(p)'
  BY <1>1, <1>2, <1>3, <1>4 DEF Fresh, Missing, Exists
<1>6. Dead(p)'
  BY <1>1, <1>2, <1>3, <1>4 DEF Dead
<1>7. Matches(p)'
  BY <1>1, <1>2 DEF Matches
<1>8. Follows(p)'
  <2> SUFFICES ASSUME p \notin touched' PROVE Follows(p)'
    BY DEF Follows
  <2>1. /\ marks[p] = 0
        /\ \A u \in Uploads : ~(pc[u] = "stored" /\ dest[u] = p)
    BY <1>2, NotLate
  <2>2. disk[p] # Absent /\ index[p] # NoEntry /\ index[p].sig = disk[p]
          => p \in HiddenAsIs \/ Live(p)
    BY DEF HiddenAsIs, Live
  <2>3. (disk[p] = Absent => ~Live(p) \/ p \in Missing) /\ (p \in Missing => disk[p] = Absent)
    BY DEF Missing, Exists
  <2> QED BY <1>2, <1>3, <1>4, <2>1, <2>2, <2>3 DEF Follows
<1> QED BY <1>5, <1>6, <1>7, <1>8

\* What the prune marks is neither fresh nor, unless touched, on the disk.
LEMMA PassPrunesPaired ==
  ASSUME LInv, PassPrunes
  PROVE  Paired'
<1> SUFFICES ASSUME NEW p \in Paths
             PROVE  Fresh(p)' /\ Dead(p)' /\ Matches(p)' /\ Follows(p)'
  BY DEF Paired
<1>1. /\ pass.at = "prune" /\ pass.path = Absent /\ pass \in Passes
      /\ Fresh(p) /\ Dead(p) /\ Matches(p) /\ Follows(p)
      /\ \A q \in pass.missing : index[q] # NoEntry
      /\ index \in [Paths -> Entries \cup {NoEntry}]
  BY DEF PassPrunes, LInv, Types, FileTypes, PassTypes, Paired
<1>2. UNCHANGED <<disk, last, raced, pc, body, dest, marks, touched, spoiled>>
  BY DEF PassPrunes, PassOnly, files, uploads
<1>3. /\ pass'.at = "scan" /\ pass'.path = Absent
      /\ pass'.missing = {} /\ pass'.hidden = pass.hidden
  BY <1>1 DEF PassPrunes, Passes
<1>4. CASE p \in pass.missing
  <2>1. index'[p] = [index[p] EXCEPT !.deleted = TRUE] /\ index[p] \in Entries
    BY <1>1, <1>4 DEF PassPrunes
  <2>2. /\ index'[p].deleted /\ index'[p] # NoEntry
        /\ index'[p].hash = index[p].hash /\ index'[p].sig = index[p].sig
    BY <2>1, MarkedIsEntry
  <2>3. ~Live(p)'
    BY <2>2 DEF Live
  <2>4. Fresh(p)'
    BY <1>1, <1>2, <1>4 DEF Fresh
  <2>5. Dead(p)'
    BY <1>1, <1>2, <1>3, <2>3 DEF Dead
  <2>6. Matches(p)'
    BY <1>1, <1>2, <2>2, <1>4 DEF Matches
  <2>7. Follows(p)'
    BY <1>1, <1>2, <1>3, <1>4, <2>3 DEF Follows
  <2> QED BY <2>4, <2>5, <2>6, <2>7
<1>5. CASE p \notin pass.missing
  <2>1. index'[p] = index[p]
    BY <1>5 DEF PassPrunes
  <2>2. Live(p)' <=> Live(p)
    BY <2>1 DEF Live
  <2>3. Fresh(p)'
    BY <1>1, <1>2, <1>3, <2>1, <2>2 DEF Fresh
  <2>4. Dead(p)'
    BY <1>1, <1>2, <1>3, <2>2 DEF Dead
  <2>5. Matches(p)'
    BY <1>1, <1>2, <2>1 DEF Matches
  <2>6. Follows(p)'
    BY <1>1, <1>2, <1>3, <1>5, <2>1, <2>2 DEF Follows
  <2> QED BY <2>3, <2>4, <2>5, <2>6
<1> QED BY <1>4, <1>5

\* What the scan read is what is there, unless touched since.
LEMMA PassReadsPaired ==
  ASSUME LInv, PassScans \/ PassCompares
  PROVE  Paired'
<1> SUFFICES ASSUME NEW p \in Paths
             PROVE  Fresh(p)' /\ Dead(p)' /\ Matches(p)' /\ Follows(p)'
  BY DEF Paired
<1>1. /\ pass.at \in {"scan", "compare"} /\ pass.path = Absent /\ pass.missing = {} /\ pass \in Passes
      /\ Fresh(p) /\ Dead(p) /\ Matches(p) /\ Follows(p)
      /\ disk \in [Paths -> Maybe]
      /\ pass.at = "compare" => pass.seen \in [Paths -> Maybe]
  BY DEF PassScans, PassCompares, LInv, Types, FileTypes, PassTypes, Paired
<1>2. UNCHANGED <<disk, last, raced, pc, body, dest, marks, index, touched, spoiled>>
  BY DEF PassScans, PassCompares, PassOnly, files, uploads
<1>3. /\ pass'.path = Absent /\ pass'.missing = {} /\ pass'.hidden = pass.hidden
      /\ pass'.at \in {"compare", "index"}
  BY <1>1 DEF PassScans, PassCompares, Passes
<1>4. Live(p)' <=> Live(p)
  BY <1>2 DEF Live
<1>5. Fresh(p)'
  BY <1>1, <1>2, <1>3, <1>4 DEF Fresh
<1>6. Dead(p)'
  BY <1>1, <1>2, <1>3, <1>4 DEF Dead
<1>7. Matches(p)'
  BY <1>1, <1>2 DEF Matches
<1>8. Follows(p)'
  <2> SUFFICES ASSUME p \notin touched' PROVE Follows(p)'
    BY DEF Follows
  <2>1. CASE PassScans
    <3>1. pass'.seen = disk /\ pass'.at = "compare"
      BY <1>1, <2>1 DEF PassScans, Passes
    <3> QED BY <1>1, <1>2, <1>3, <1>4, <3>1 DEF Follows
  <2>2. CASE PassCompares
    <3> DEFINE todo == {q \in Paths : pass.seen[q] # Absent /\ ~Known(q)}
    <3>1. pass'.seen = [q \in todo |-> pass.seen[q]] /\ pass'.todo = todo /\ pass.at = "compare"
      BY <1>1, <2>2 DEF PassCompares, Passes
    <3>2. pass.seen[p] = disk[p]
      BY <1>1, <1>2, <3>1 DEF Follows
    <3>3. p \in DOMAIN pass'.seen => pass'.seen[p] = disk[p]
      BY <3>1, <3>2
    <3>4. p \notin pass'.todo /\ disk[p] # Absent => index[p] # NoEntry /\ index[p].sig = disk[p]
      BY <3>1, <3>2 DEF Known
    <3> QED BY <1>1, <1>2, <1>3, <1>4, <3>3, <3>4 DEF Follows
  <2> QED BY <2>1, <2>2
<1> QED BY <1>5, <1>6, <1>7, <1>8

\* What is hashed exists, so that it is not dead.
LEMMA PassHashesPaired ==
  ASSUME LInv, NEW r \in Paths, PassHashes(r)
  PROVE  Paired'
<1> SUFFICES ASSUME NEW p \in Paths
             PROVE  Fresh(p)' /\ Dead(p)' /\ Matches(p)' /\ (pass'.at # "rest" => Follows(p)')
  BY DEF Paired
<1>1. /\ r \in pass.todo /\ pass.path = Absent /\ pass \in Passes /\ pass.at = "index"
      /\ Fresh(p) /\ Dead(p) /\ Matches(p) /\ Follows(p)
  BY DEF PassHashes, LInv, Types, PassTypes, Paired
<1>2. UNCHANGED <<disk, last, raced, pc, body, dest, marks, index, touched, spoiled>>
  BY DEF PassHashes, PassOnly, files, uploads
<1>3. /\ pass'.at = "index" /\ pass'.missing = pass.missing /\ pass'.hidden = pass.hidden
      /\ pass'.seen = pass.seen
      /\ \/ disk[r] # Absent /\ pass'.path = r /\ pass'.hash = disk[r] /\ pass'.todo = pass.todo
         \/ disk[r] = Absent /\ pass'.path = Absent /\ pass'.todo = pass.todo \ {r}
  BY <1>1 DEF PassHashes, ReadNow, Passes
<1>4. Live(p)' <=> Live(p)
  BY <1>2 DEF Live
<1>5. Fresh(p)'
  BY <1>1, <1>2, <1>3, <1>4 DEF Fresh
<1>6. Dead(p)'
  BY <1>1, <1>2, <1>3, <1>4 DEF Dead
<1>7. Matches(p)'
  BY <1>1, <1>2 DEF Matches
<1>8. Follows(p)'
  BY <1>1, <1>2, <1>3, <1>4 DEF Follows
<1> QED BY <1>5, <1>6, <1>7, <1>8

\* The hash of now and the signature of the scan agree, unless touched since.
LEMMA PassRecordsPaired ==
  ASSUME LInv, PassRecords
  PROVE  Paired'
<1> SUFFICES ASSUME NEW p \in Paths
             PROVE  Fresh(p)' /\ Dead(p)' /\ Matches(p)' /\ (pass'.at # "rest" => Follows(p)')
  BY DEF Paired
<1> DEFINE r == pass.path
<1>1. /\ r \in Paths /\ r # Absent /\ r \in pass.todo /\ r \in DOMAIN pass.seen
      /\ pass.hash \in Contents /\ pass \in Passes /\ pass.at = "index"
      /\ Fresh(p) /\ Dead(p) /\ Matches(p) /\ Follows(p)
      /\ index \in [Paths -> Entries \cup {NoEntry}]
  BY DEF PassRecords, LInv, Types, FileTypes, PassTypes, Passes, Paired
<1>2. UNCHANGED <<disk, last, raced, pc, body, dest, marks>>
  BY DEF PassRecords, PassOnly, files, uploads
<1>3. /\ pass'.at = "index" /\ pass'.missing = pass.missing /\ pass'.hidden = pass.hidden
      /\ pass'.seen = pass.seen /\ pass'.path = Absent /\ pass'.todo = pass.todo \ {r}
  BY <1>1 DEF PassRecords, Passes
<1>4. pass.seen[r] \in Maybe
  BY <1>1 DEF Passes
<1>5. CASE p # r
  <2>1. index'[p] = index[p] /\ (p \in spoiled' <=> p \in spoiled) /\ (p \in touched' <=> p \in touched)
    <3>1. CASE UNCHANGED <<index, spoiled>> /\ touched' = touched \cup {r}
      BY <1>5, <3>1
    <3>2. CASE /\ index' = [index EXCEPT ![r] = Recorded(@, pass.hash, pass.seen[r])]
               /\ spoiled' = IF r \in touched THEN spoiled \cup {r} ELSE spoiled \ {r}
               /\ UNCHANGED touched
      BY <1>1, <1>5, <3>2
    <3> QED BY <3>1, <3>2 DEF PassRecords
  <2>2. Live(p)' <=> Live(p)
    BY <2>1 DEF Live
  <2>3. Fresh(p)'
    BY <1>1, <1>2, <1>3, <2>1, <2>2 DEF Fresh
  <2>4. Dead(p)'
    BY <1>1, <1>2, <1>3, <2>2 DEF Dead
  <2>5. Matches(p)'
    BY <1>1, <2>1 DEF Matches
  <2>6. Follows(p)'
    BY <1>1, <1>2, <1>3, <1>5, <2>1, <2>2 DEF Follows
  <2> QED BY <2>3, <2>4, <2>5, <2>6
<1>6. CASE p = r
  <2>1. Dead(p)'
    BY <1>1, <1>2, <1>6 DEF Dead
  <2>2. CASE UNCHANGED <<index, spoiled>> /\ touched' = touched \cup {r}
    <3>1. Live(p)' <=> Live(p)
      BY <2>2 DEF Live
    <3>2. Fresh(p)'
      BY <1>1, <1>2, <1>3, <3>1, <2>2 DEF Fresh
    <3>3. Matches(p)' /\ Follows(p)'
      BY <1>1, <1>6, <2>2 DEF Matches, Follows
    <3> QED BY <2>1, <3>2, <3>3
  <2>3. CASE /\ index' = [index EXCEPT ![r] = Recorded(@, pass.hash, pass.seen[r])]
             /\ spoiled' = IF r \in touched THEN spoiled \cup {r} ELSE spoiled \ {r}
             /\ UNCHANGED touched
    <3>1. /\ index'[p] # NoEntry /\ Live(p)'
          /\ index'[p].hash = pass.hash /\ index'[p].sig = pass.seen[p]
      <4>1. index'[p] = Recorded(index[p], pass.hash, pass.seen[p])
        BY <1>1, <1>6, <2>3
      <4> QED BY <1>1, <1>4, <1>6, <4>1, RowIsEntry DEF Live
    <3>2. p \notin touched => pass.seen[p] = disk[p] /\ pass.hash = disk[p]
      BY <1>1, <1>6 DEF Follows
    <3>3. Fresh(p)'
      BY <1>1, <1>2, <1>3, <1>6, <3>1 DEF Fresh
    <3>4. Matches(p)'
      BY <1>6, <2>3, <3>1, <3>2 DEF Matches
    <3>5. Follows(p)'
      BY <1>1, <1>2, <1>3, <1>6, <2>3, <3>1, <3>2 DEF Follows
    <3> QED BY <2>1, <3>3, <3>4, <3>5
  <2> QED BY <2>2, <2>3 DEF PassRecords
<1> QED BY <1>5, <1>6

LEMMA PassEndsPaired ==
  ASSUME LInv, PassEnds
  PROVE  Paired'
<1> SUFFICES ASSUME NEW p \in Paths
             PROVE  Fresh(p)' /\ Dead(p)' /\ Matches(p)' /\ pass'.at = "rest"
  BY DEF Paired
<1>1. Fresh(p) /\ Dead(p) /\ Matches(p)
  BY DEF LInv, Paired
<1>2. UNCHANGED <<disk, last, raced, pc, body, dest, marks, index, spoiled>>
  BY DEF PassEnds, PassOnly, files, uploads
<1>3. pass'.at = "rest" /\ pass'.missing = {} /\ pass'.path = Absent
  BY DEF PassEnds, Resting
<1>4. Live(p)' <=> Live(p)
  BY <1>2 DEF Live
<1>5. Fresh(p)'
  BY <1>1, <1>2, <1>3, <1>4 DEF Fresh
<1>6. Dead(p)'
  BY <1>1, <1>2, <1>3, <1>4 DEF Dead
<1>7. Matches(p)'
  BY <1>1, <1>2 DEF Matches
<1> QED BY <1>3, <1>5, <1>6, <1>7

LEMMA PairedStep == ASSUME LInv, Next PROVE Paired'
<1>1. CASE \E u \in Uploads : Pick(u) \/ Store(u) \/ Record(u) \/ \E c \in Contents : Lookup(u, c)
  BY <1>1, LookupPaired, StorePaired, RecordPaired
<1>2. CASE \E p \in Paths : DeleteFile(p) \/ Mark(p) \/ MarkFails(p)
  BY <1>2, DeleteFilePaired, MarkPaired, MarkFailsPaired
<1>3. CASE Pass
  BY <1>3, PassBeginsPaired, PassPrunesPaired, PassReadsPaired, PassHashesPaired, PassRecordsPaired,
     PassEndsPaired DEF Pass
<1>4. CASE Crash
  BY <1>4, CrashPaired
<1>5. CASE Purge \/ \E i \in Ids : RestoreNothing(i) \/ Erase(i) \/ TakeOff(i)
  BY <1>5, TrashPaired
<1>6. CASE \/ \E i \in {0, 1} : DeleteFolder(i) \/ \E j \in {0, 1} : RenameFolder(i, j)
           \/ \E p, q \in Paths : RenameFile(p, q)
           \/ \E i \in Ids : Restore(i)
           \/ \E p \in Paths : SmbRemove(p) \/ \E c \in Contents : SmbPut(p, c)
  BY <1>6, MovesPaired
<1> QED BY <1>1, <1>2, <1>3, <1>4, <1>5, <1>6 DEF Next

------------------------------------------------------------------------------
\* What is said of each path, each item and each content holds at every step
\* of the handlers of file_routes.py, media_routes.py and trash_routes.py, of
\* the writers of media_index.py, of media_reconciler.py's pass and of a crash.
THEOREM LibraryInvariant == Spec => []LInv
<1>1. Init => LInv
  BY InitInv
<1>2. LInv /\ [Next]_vars => LInv'
  <2> SUFFICES ASSUME LInv, [Next]_vars PROVE LInv'
    OBVIOUS
  <2>1. CASE Next
    BY <2>1, FileTypesStep, UploadTypesStep, TrashTypesStep, PassTypesStep, BytesStep, ExposedStep,
       LostStep, PairedStep DEF LInv, Types
  <2>2. CASE UNCHANGED vars
    <3> USE <2>2 DEF vars, files, trash, uploads, losses
    <3>1. FileTypes' /\ UploadTypes'
      BY DEF LInv, Types, FileTypes, UploadTypes
    <3>2. TrashTypes' /\ PassTypes'
      BY DEF LInv, Types, TrashTypes, PassTypes
    <3>3. BytesListed' /\ ClosingEmpty' /\ Exposed'
      BY DEF LInv, BytesListed, ClosingEmpty, Exposed
    <3>4. NothingLost'
      BY DEF LInv, NothingLost, Received, Somewhere, ContentOf
    <3>5. Paired'
      <4> SUFFICES ASSUME NEW p \in Paths
                   PROVE  Fresh(p)' /\ Dead(p)' /\ Matches(p)' /\ (pass'.at # "rest" => Follows(p)')
        BY DEF Paired
      <4> QED BY PathKept
    <3> QED BY <3>1, <3>2, <3>3, <3>4, <3>5 DEF LInv, Types
  <2> QED BY <2>1, <2>2
<1> QED BY <1>1, <1>2, PTL DEF Spec

\* The variables keep their types; no more than two marks are ever due for each
\* delete that was listed, and no list or counter grows past its bound.
THEOREM LibraryTypes == Spec => []TypeOK
<1>1. LInv => TypeOK
  <2> SUFFICES ASSUME LInv PROVE TypeOK
    OBVIOUS
  <2>1. FileTypes /\ UploadTypes /\ TrashTypes /\ PassTypes
    BY DEF LInv, Types
  <2>2. /\ disk \in [Paths -> Contents \cup {Absent}] /\ index \in [Paths -> Entries \cup {NoEntry}]
        /\ raced \cup touched \cup spoiled \subseteq Paths /\ gone \cup exposed \subseteq Contents
    BY <2>1 DEF FileTypes, Maybe
  <2>3. /\ pc \in [Uploads -> {"new", "missed", "picked", "duplicate", "stored", "done", "died"}]
        /\ body \in [Uploads -> Contents \cup {Absent}] /\ dest \in [Uploads -> Paths \cup {Absent}]
    BY <2>1 DEF UploadTypes, Maybe
  <2>4. marks \in [Paths -> 0..2 * MaxItems]
    <3>1. Len(item) \in Nat /\ Len(item) <= MaxItems
      BY <2>1 DEF TrashTypes
    <3>2. \A p \in Paths : marks[p] \in 0..2 * MaxItems
      BY <2>1, <3>1 DEF TrashTypes
    <3> QED BY <2>1, <3>2 DEF TrashTypes
  <2>5. /\ item \in Seq([from : Paths, folder : BOOLEAN, size : 1..Cardinality(Paths)])
        /\ Len(item) <= MaxItems /\ list \subseteq 1..Len(item) /\ purge \in BOOLEAN
        /\ calls \in 0..MaxCalls
    BY <2>1 DEF TrashTypes, Items
  <2>6. closing \subseteq Ids /\ stranded \subseteq Ids
    BY <2>1 DEF TrashTypes, Ids
  <2>7. \A i \in Ids : bytes[i] \in [DOMAIN bytes[i] -> Contents] /\ DOMAIN bytes[i] \subseteq Paths
    <3> SUFFICES ASSUME NEW i \in Ids
                 PROVE  bytes[i] \in [DOMAIN bytes[i] -> Contents] /\ DOMAIN bytes[i] \subseteq Paths
      OBVIOUS
    <3>1. bytes[i] \in FileSets
      BY <2>1 DEF TrashTypes
    <3> QED BY <3>1 DEF FileSets
  <2>8. /\ pass.at \in {"rest", "prune", "scan", "compare", "index"}
        /\ pass.missing \cup pass.hidden \cup pass.todo \subseteq Paths
        /\ pass.path \in Paths \cup {Absent} /\ pass.hash \in Contents \cup {Absent}
    BY <2>1 DEF PassTypes, Passes, Maybe
  <2> QED BY <2>2, <2>3, <2>4, <2>5, <2>6, <2>7, <2>8 DEF TypeOK
<1> QED BY <1>1, LibraryInvariant, PTL

\* Whatever is in the trash directory is on trash.json's list, where a restore
\* and the quota see it, wherever the process dies: _soft_delete_resolved()
\* lists an item before it moves the file, and an item is taken off the list
\* after its files; unless one of them could not be unlinked, which nobody notes.
THEOREM TrashIsListed == Spec => []BytesListed
<1>1. LInv => BytesListed
  BY DEF LInv
<1> QED BY <1>1, LibraryInvariant, PTL

\* Whatever order uploads, deletes, renames, restores, purges and crashes come
\* in, a file that was stored is in the library or in the trash until a copy of
\* it is destroyed on purpose, or by a restore to a "_restored" that exists, or
\* comes to a path that an upload, about to rename its own file, had found free.
THEOREM NothingIsLost == Spec => []NothingLost
<1>1. LInv => NothingLost
  BY DEF LInv
<1> QED BY <1>1, LibraryInvariant, PTL

\* A file that ingest() stored and recorded stays live in the index with its
\* hash, unless its path met a delete handler or a prune that had the former
\* file in mind.
THEOREM UploadsStayLive == Spec => []UploadedIsLive
<1>1. LInv => UploadedIsLive
  <2> SUFFICES ASSUME LInv, NEW p \in Paths \ raced, last[p] = "uploaded"
               PROVE  Live(p) /\ index[p].hash = disk[p]
    BY DEF UploadedIsLive
  <2>1. Fresh(p)
    BY DEF LInv, Paired
  <2> QED BY <2>1 DEF Fresh
<1> QED BY <1>1, LibraryInvariant, PTL

\* A file whose delete handler has marked its row is not shown again, unless an
\* upload or the pass was about to record it when it was deleted.  The handler
\* finds the row by the path the client sent: who spells it otherwise, and the
\* bot, mark none, and the theorem promises nothing of their files.
THEOREM DeletedStaysHidden == Spec => []DeletedIsHidden
<1>1. LInv => DeletedIsHidden
  <2> SUFFICES ASSUME LInv, NEW p \in Paths \ raced, last[p] = "deleted"
               PROVE  ~Live(p)
    BY DEF DeletedIsHidden
  <2>1. Dead(p)
    BY DEF LInv, Paired
  <2> QED BY <2>1 DEF Dead
<1> QED BY <1>1, LibraryInvariant, PTL

\* When reconcile_once() ends, the index agrees with the disk on every path that
\* was not changed meanwhile, however its reads were interleaved with the
\* handlers; but for rows that were hidden before and hashes that were spoiled.
THEOREM PassCatchesUp == Spec => []CaughtUp
<1>1. LInv => CaughtUp
  <2> SUFFICES ASSUME LInv, PassDone, NEW p \in Paths \ touched
               PROVE  IF Exists(p) THEN /\ index[p] # NoEntry /\ index[p].sig = disk[p]
                                        /\ p \in spoiled \/ index[p].hash = disk[p]
                                        /\ p \in pass.hidden \/ Live(p)
                                   ELSE ~Live(p)
    BY DEF CaughtUp
  <2>1. pass.at = "index" /\ pass.todo = {} /\ pass.missing = {} /\ Matches(p) /\ Follows(p)
    BY DEF PassDone, LInv, Types, PassTypes, Paired
  <2> QED BY <2>1 DEF Matches, Follows, Exists
<1> QED BY <1>1, LibraryInvariant, PTL
=============================================================================
