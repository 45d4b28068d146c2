------------------------------ MODULE Duplicates ------------------------------
(***************************************************************************)
(* Duplicate files: the scan of duplicate_scanner.py and its review in the *)
(* chats of admins (telegram/search_handlers.py).                          *)
(*                                                                         *)
(* A scan takes minutes, beside everything else; its result, two lists in  *)
(* kv.json, stands until the next one. The lists are sorted, and a removal *)
(* keeps their order: they are sets here, of sets of copies, and Before is *)
(* the order.                                                              *)
(*                                                                         *)
(* The bot handles one press after another (telegram_bot.py:94-108). A     *)
(* button names a set by its hash or by its place in the list, and a copy  *)
(* by its place in the set; what that means is looked up when it is        *)
(* pressed, so that every button of the lists as they stand can be pressed *)
(* and no other one does anything.                                         *)
(***************************************************************************)
EXTENDS Focus, Integers, FiniteSets

CONSTANTS
    InLibrary,      \* path -> content at the start; a smaller number is a larger file
    LookOf,         \* content -> perceptual hash
    MaxTouches      \* bound: files removed or replaced otherwise

Places == DOMAIN InLibrary
Gone == 0

ASSUME DuplicatesAssumption ==
    /\ IsFiniteSet(Places) /\ Places \subseteq Nat
    /\ InLibrary \in [Places -> DOMAIN LookOf]
    /\ DOMAIN LookOf \subseteq Nat \ {Gone} /\ MaxTouches \in Nat

VARIABLES
    held,       \* path -> content, or Gone
    binned,     \* what the review last moved to the trash: [path, content, by]
    exact,      \* duplicate_scan_results
    similar,    \* similar_scan_results
    quiet,      \* the white lists: contents, and pairs of hashes
    scan,       \* the scan under way
    press,      \* the press that is being handled
    touches

vars_duplicates == <<held, binned, exact, similar, quiet, scan, press, touches>>

NoScan == [stage |-> "idle", quiet |-> [exact |-> {}, pairs |-> {}], exact |-> {}, similar |-> {}]
NoPress == [kind |-> "none", sets |-> {}, todo |-> {}, done |-> {}, at |-> 0]

DuplicatesInit ==
    /\ held = InLibrary
    /\ binned = {}
    /\ exact = {} /\ similar = {}
    /\ quiet = NoScan.quiet
    /\ scan = NoScan
    /\ press = NoPress
    /\ touches = 0

\* _compute_phash_sync, kept by path and time; within the distance means equal here.
Phash(content) == LookOf[content]

Copy(p) == [path |-> p, content |-> held[p]]

\* Copies of large files come first.
Before(c, d) == c.content < d.content \/ (c.content = d.content /\ c.path < d.path)

------------------------------------------------------------------------------
\* Wrong versions of definitions below; the runs' mutants put them in place.

EvenOne(copies) == copies # {}

------------------------------------------------------------------------------
\* The scan.

Several(copies) == \E c, d \in copies : c # d
WithoutCopy(copies, p) == {c \in copies : c.path # p}

\* Sets of at least two with one key.
GroupsBy(key) ==
    LET alike(k) == {Copy(p) : p \in {q \in Places : held[q] # Gone /\ key[held[q]] = k}}
    IN  {s \in {alike(key[c]) : c \in DOMAIN key} : Several(s)}
Pairs(copies) == {{Phash(e[1].content), Phash(e[2].content)} :
                      e \in {both \in copies \X copies : both[1] # both[2]}}

\* The white lists are read before anything else; a second scan at once is refused.
StartScan ==
    /\ scan = NoScan
    /\ scan' = [NoScan EXCEPT !.stage = "exact", !.quiet = quiet]
    /\ UNCHANGED <<held, binned, exact, similar, quiet, press, touches>>

HashAll ==
    /\ scan.stage = "exact"
    /\ scan' = [scan EXCEPT !.stage = "similar",
                    !.exact = {s \in GroupsBy([c \in DOMAIN LookOf |-> c]) :
                                   \A c \in s : c.content \notin scan.quiet.exact}]
    /\ UNCHANGED <<held, binned, exact, similar, quiet, press, touches>>

CompareAll ==
    /\ scan.stage = "similar"
    /\ scan' = [scan EXCEPT !.stage = "save",
                    !.similar = {s \in GroupsBy([c \in DOMAIN LookOf |-> Phash(c)]) :
                                     ~(Pairs(s) \subseteq scan.quiet.pairs)}]
    /\ UNCHANGED <<held, binned, exact, similar, quiet, press, touches>>

SaveScan ==
    /\ scan.stage = "save"
    /\ exact' = scan.exact /\ similar' = scan.similar
    /\ scan' = NoScan
    /\ UNCHANGED <<held, binned, quiet, press, touches>>

------------------------------------------------------------------------------
\* The review.

Free == press = NoPress

\* The buttons: a set has one for each of its copies; a similar one is shown by its place in
\* the list, the number of sets with a larger first copy.
CopyButtons(s) == s
PlaceOf(s) == Cardinality({t \in similar : \E c \in t : \A d \in s : Before(c, d)})

\* _move_to_dup_trash
Bin(p, by) == /\ held' = [held EXCEPT ![p] = Gone]
              /\ binned' = {[path |-> p, content |-> held[p], by |-> by]}

\* Removing the copy from the document index lets others run before the list is pruned.
DeleteCopy(c) ==
    /\ Free /\ \E s \in exact : c \in CopyButtons(s)
    /\ held[c.path] # Gone
    /\ Bin(c.path, "exact")
    /\ press' = [NoPress EXCEPT !.kind = "exact", !.todo = {c}]
    /\ UNCHANGED <<exact, similar, quiet, scan, touches>>

PruneExact ==
    /\ press.kind = "exact"
    /\ \E c \in press.todo :
          exact' = {s \in {WithoutCopy(t, c.path) : t \in exact} : Several(s)}
    /\ press' = NoPress
    /\ UNCHANGED <<held, binned, similar, quiet, scan, touches>>

\* "Keep all, don't ask again"
KeepAll(s) ==
    /\ Free /\ s \in exact
    /\ LET hash == {c.content : c \in s}
       IN  /\ quiet' = [quiet EXCEPT !.exact = @ \cup hash]
           /\ exact' = {t \in exact : {c.content : c \in t} # hash}
    /\ UNCHANGED <<held, binned, similar, scan, press, touches>>

\* The list is read once; the files go one after another, the index asked for each.
Extras(copies) == {c \in copies : \E d \in copies : Before(d, c)}

CleanAll ==
    /\ Free /\ exact # {}
    /\ press' = [NoPress EXCEPT !.kind = "clean", !.sets = exact,
                     !.todo = UNION {Extras(s) : s \in exact}]
    /\ UNCHANGED <<held, binned, exact, similar, quiet, scan, touches>>

CleanNext ==
    /\ press.kind = "clean"
    /\ \E c \in press.todo :
          /\ \A d \in press.todo : ~Before(d, c)
          /\ IF held[c.path] = Gone THEN UNCHANGED <<held, binned>> ELSE Bin(c.path, "exact")
          /\ press' = [press EXCEPT !.todo = @ \ {c}, !.done = @ \cup {c.path}]
    /\ UNCHANGED <<exact, similar, quiet, scan, touches>>

CleanEnds ==
    /\ press.kind = "clean" /\ press.todo = {}
    /\ exact' = {}
    /\ press' = NoPress
    /\ UNCHANGED <<held, binned, similar, quiet, scan, touches>>

\* "Delete the larger" or "the smaller" one; the set at that place then leaves the list.
Picked(copies, large) ==
    {c \in copies : \A d \in copies : IF large THEN ~Before(d, c) ELSE ~Before(c, d)}

DeleteSimilar(s, large) ==
    /\ Free /\ s \in similar
    /\ \E c \in Picked(s, large) :
          IF held[c.path] = Gone THEN UNCHANGED <<held, binned>> ELSE Bin(c.path, "similar")
    /\ press' = [NoPress EXCEPT !.kind = "similar", !.at = PlaceOf(s)]
    /\ UNCHANGED <<exact, similar, quiet, scan, touches>>

PruneSimilar ==
    /\ press.kind = "similar"
    /\ similar' = {s \in similar : PlaceOf(s) # press.at}
    /\ press' = NoPress
    /\ UNCHANGED <<held, binned, exact, quiet, scan, touches>>

KeepBoth(s) ==
    /\ Free /\ s \in similar
    /\ quiet' = [quiet EXCEPT !.pairs = @ \cup Pairs(s)]
    /\ similar' = similar \ {s}
    /\ UNCHANGED <<held, binned, exact, scan, press, touches>>

------------------------------------------------------------------------------
\* The family, meanwhile.

TouchFile(p, content) ==
    /\ trouble = "touch" /\ touches < MaxTouches /\ held[p] # content
    /\ touches' = touches + 1
    /\ held' = [held EXCEPT ![p] = content]
    /\ UNCHANGED <<binned, exact, similar, quiet, scan, press>>

\* Lists and white lists are on disk.
DuplicatesCrash ==
    /\ trouble = "crash"
    /\ press' = NoPress /\ scan' = NoScan
    /\ UNCHANGED <<held, binned, exact, similar, quiet, touches>>

DuplicatesNext ==
    \/ StartScan \/ HashAll \/ CompareAll \/ SaveScan
    \/ PruneExact \/ CleanAll \/ CleanNext \/ CleanEnds \/ PruneSimilar \/ DuplicatesCrash
    \/ \E s \in exact : KeepAll(s) \/ \E c \in s : DeleteCopy(c)
    \/ \E s \in similar : KeepBoth(s) \/ \E large \in BOOLEAN : DeleteSimilar(s, large)
    \/ \E p \in Places, content \in {Gone} \cup DOMAIN LookOf : TouchFile(p, content)

------------------------------------------------------------------------------
\* Properties.

\* A set that the library no longer agrees with: a copy was removed or replaced since, and
\* not by the clean-up under way.
OutOfDate(copies) == \E c \in copies : held[c.path] # c.content /\ c.path \notin press.done
Lists == exact \cup similar \cup press.sets

\* What the review moves to the trash is in the library a second time: the same bytes for a
\* copy, for a similar image one that looks the same, also when a scan ends meanwhile, when
\* the server dies between the removal and the list, and when a clean-up repeats one
\* (search_handlers.py:672-1139). Left out: a set of which a file has gone or changed since
\* the scan, which keeps a file that may not be there (search_handlers.py:843-846).
ReviewKeepsOne ==
    [][ \A b \in binned' \ binned :
          \/ \E q \in Places :
                /\ held'[q] # Gone
                /\ IF b.by = "similar" THEN Phash(held'[q]) = Phash(b.content)
                   ELSE held'[q] = b.content
          \/ \E s \in Lists : OutOfDate(s) /\ \E c \in s : c.path = b.path
      ]_vars_duplicates
=============================================================================
