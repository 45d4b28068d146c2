----------------------------- MODULE MediaLibrary -----------------------------
(***************************************************************************)
(* The files of the library, the index the app browses and the trash: the  *)
(* handlers of file_routes.py, media_routes.py and trash_routes.py that    *)
(* move files, the writers of media_index.py, and the nightly pass of      *)
(* media_reconciler.py, which looks for what they have missed.             *)
(*                                                                         *)
(* A handler is a coroutine: it moves the file in one step, and the index  *)
(* follows in a later one, after an await.  The pass is spread over many   *)
(* steps, each in an executor thread, and acts on what earlier ones read.  *)
(* Files are named by their content; equal hashes, and equal sizes and     *)
(* modification times, are equal contents.  The files are of one owner.    *)
(***************************************************************************)
EXTENDS Integers, Sequences, FiniteSets, FiniteSetsExt

CONSTANTS
    Contents,
    Stock,        \* what is in the library, and in the index, to begin with
    Uploads,      \* the uploads there will be; what comes before the dedup
                  \* lookup, and how a free path is found, is in Ingest
    Calls,        \* which other calls clients make, and which changes over SMB
    MaxCalls,     \* bound: how many of them, and crashes
    MaxItems,     \* bound: number of deletes
    Quota         \* trash quota: 10 % of the disk, counted in files

CONSTANTS Absent, NoEntry

\* "d/a" is <<0, 0>>: the folder with i times "_restored", the file with j times.
Paths == {<<0, 0>>, <<0, 1>>, <<1, 0>>}
InFolder(i) == {p \in Paths : p[1] = i}

AllCalls == {"delete", "delete_folder", "rename", "restore", "erase", "smb", "crash"}

ASSUME LibraryAssumption ==
    /\ Calls \subseteq AllCalls
    /\ MaxCalls \in Nat /\ MaxItems \in Nat /\ Quota \in Nat
    /\ Absent \notin Contents
    /\ DOMAIN Stock \subseteq Paths /\ \A p \in DOMAIN Stock : Stock[p] \in Contents

Ids == 1..MaxItems
Entries == [hash : Contents, sig : Contents \cup {Absent}, deleted : BOOLEAN]

\* No row and no path, as None in the code.
ASSUME NoEntryAssumption == NoEntry \notin Entries /\ Absent \notin Paths

VARIABLES
    disk,      \* path -> content
    index,     \* path -> row of entries and blobs; it is never removed
    pc,        \* where each upload is
    body,      \* its content
    dest,      \* where it was stored, or the path the dedup lookup found
    marks,     \* path -> rows still to be marked deleted by a delete handler
    item,      \* every item ever put into the trash, in that order
    list,      \* trash.json: the items it lists
    bytes,     \* the trash directory: item -> its files
    closing,   \* items whose handler has still to take them off the list
    purge,     \* is a purge task scheduled?
    pass,      \* the reconciler
    calls,
    \* History, for the properties:
    last,      \* path -> what last happened to it
    raced,     \* paths where that met a late writer of the index
    touched,   \* paths changed since the pass began
    spoiled,   \* paths recorded by a pass, or an upload, during which they changed
    gone,      \* contents of which a copy was destroyed on purpose
    exposed,   \* contents put where an upload, having found no file, will put its own
    stranded   \* items of which some file could not be unlinked

files == <<disk, last, raced>>
trash == <<item, list, bytes, closing, purge>>
uploads == <<pc, body, dest>>
losses == <<gone, exposed, stranded>>
vars == <<files, trash, uploads, index, marks, pass, calls, touched, spoiled, losses>>

Resting == [at |-> "rest", missing |-> {}, hidden |-> {}, seen |-> <<>>,
            todo |-> {}, path |-> Absent, hash |-> Absent]

Init == /\ disk = [p \in Paths |-> IF p \in DOMAIN Stock THEN Stock[p] ELSE Absent]
        /\ index = [p \in Paths |->
                       IF p \in DOMAIN Stock
                       THEN [hash |-> Stock[p], sig |-> Stock[p], deleted |-> FALSE]
                       ELSE NoEntry]
        /\ pc = [u \in Uploads |-> "new"]
        /\ body = [u \in Uploads |-> Absent]
        /\ dest = [u \in Uploads |-> Absent]
        /\ marks = [p \in Paths |-> 0]
        /\ item = <<>>
        /\ list = {}
        /\ bytes = [i \in Ids |-> <<>>]
        /\ closing = {}
        /\ purge = FALSE
        /\ pass = Resting
        /\ calls = 0
        /\ last = [p \in Paths |-> IF p \in DOMAIN Stock THEN "uploaded" ELSE "other"]
        /\ raced = {}
        /\ touched = {}
        /\ spoiled = {}
        /\ gone = {}
        /\ exposed = {}
        /\ stranded = {}

Exists(p) == disk[p] # Absent
Live(p) == index[p] # NoEntry /\ ~index[p].deleted
Call(c) == c \in Calls /\ calls < MaxCalls /\ calls' = calls + 1

\* Index writers that were on their way to p before what happens to p now.
Late(p) == \/ marks[p] > 0
           \/ p \in pass.missing
           \/ pass.path = p
           \/ \E u \in Uploads : pc[u] = "stored" /\ dest[u] = p

Touch(P) == touched' = IF pass.at = "rest" THEN {} ELSE touched \cup P

\* What happens to the paths of P now.
Happens(P, what) ==
    /\ last' = [p \in Paths |-> IF p \in P THEN what ELSE last[p]]
    /\ raced' = (raced \ P) \cup {p \in P : what # "other" /\ Late(p)}
    /\ Touch(P)
    /\ UNCHANGED spoiled

\* Files come to P, where the uploads of W may have found none.
Puts(P, W) == exposed' = exposed \cup
    ({disk'[p] : p \in P \cap {dest[u] : u \in {v \in W : pc[v] = "picked"}}} \ {Absent})

------------------------------------------------------------------------------
\* Wrong versions of definitions below; the runs' mutants put them in place.

AnyPath(p) == TRUE
RecordedAsItWas(old, c, s) ==
    [hash |-> c, sig |-> s, deleted |-> IF old = NoEntry THEN FALSE ELSE old.deleted]
EmptiedOfFiles(S, F) == [i \in Ids |-> IF i \in S /\ ~item[i].folder THEN <<>> ELSE bytes[i]]
ReadFromScan(p) == pass.seen[p]
KnownAnywhere(p) == \E q \in Paths : index[q] # NoEntry /\ index[q].sig = pass.seen[p]

------------------------------------------------------------------------------
\* ingest(), from the dedup lookup on.

Free(p) == ~Exists(p)

\* ON CONFLICT(rel_path) keeps the row and clears deleted.
Recorded(old, c, s) == [hash |-> c, sig |-> s, deleted |-> FALSE]

Hits(c) == {p \in Paths : Live(p) /\ index[p].hash = c}

\* A hit is answered as a duplicate of the file found.
Lookup(u, c) ==
    /\ pc[u] = "new"
    /\ body' = [body EXCEPT ![u] = c]
    /\ IF Hits(c) = {}
       THEN pc' = [pc EXCEPT ![u] = "missed"] /\ UNCHANGED dest
       ELSE \E p \in Hits(c) : /\ dest' = [dest EXCEPT ![u] = p]
                               /\ pc' = [pc EXCEPT ![u] = "duplicate"]
    /\ UNCHANGED <<files, trash, index, marks, pass, calls, touched, spoiled, losses>>

\* _unique_dest() finds a free path ...
Pick(u) ==
    /\ pc[u] = "missed"
    /\ \E p \in Paths : Free(p) /\ dest' = [dest EXCEPT ![u] = p]
    /\ pc' = [pc EXCEPT ![u] = "picked"]
    /\ UNCHANGED <<files, trash, body, index, marks, pass, calls, touched, spoiled, losses>>

\* ... and the rename, in an executor thread, replaces what is there by now.
Store(u) ==
    /\ pc[u] = "picked"
    /\ disk' = [disk EXCEPT ![dest[u]] = body[u]]
    /\ Happens({dest[u]}, "storing") /\ Puts({dest[u]}, Uploads \ {u})
    /\ pc' = [pc EXCEPT ![u] = "stored"]
    /\ UNCHANGED <<trash, body, dest, index, marks, pass, calls, gone, stranded>>

\* The size that was received and the time that was set on what is at dest by
\* now; they may be those of a file that has replaced the upload.
Signatures(u) == IF Exists(dest[u]) THEN {body[u], disk[dest[u]]} ELSE {Absent}

\* record_entry() and the answer; a failure of the index is only logged.
Record(u) ==
    /\ pc[u] = "stored"
    /\ LET p == dest[u]
       IN  \/ \E s \in Signatures(u) :
                 /\ index' = [index EXCEPT ![p] = Recorded(@, body[u], s)]
                 /\ spoiled' = IF s = body[u] THEN spoiled \ {p} ELSE spoiled \cup {p}
                 /\ last' = IF last[p] = "storing" THEN [last EXCEPT ![p] = "uploaded"] ELSE last
           \/ /\ UNCHANGED <<index, spoiled>>
              /\ last' = IF last[p] = "storing" THEN [last EXCEPT ![p] = "other"] ELSE last
    /\ pc' = [pc EXCEPT ![u] = "done"]
    /\ Touch({dest[u]})
    /\ dest' = [dest EXCEPT ![u] = Absent]
    /\ UNCHANGED <<disk, raced, trash, body, marks, pass, calls, losses>>

------------------------------------------------------------------------------
\* _soft_delete_resolved(): the item is listed, then the file or the folder is
\* moved, with no await in between.  If the move fails the item is taken off
\* again.  A folder exists here as long as a file in it does.

Trashed(P) == [p \in P |-> disk[p]]
Without(P) == [p \in Paths |-> IF p \in P THEN Absent ELSE disk[p]]

Listed(P, folder) ==
    /\ Len(item) < MaxItems
    /\ item' = Append(item, [from |-> CHOOSE p \in P : \A q \in P : p[2] <= q[2],
                             folder |-> folder, size |-> Cardinality(P)])
    /\ list' = list \cup {Len(item) + 1}

ToTrash(P, folder) ==
    /\ Listed(P, folder)
    /\ bytes' = [bytes EXCEPT ![Len(item) + 1] = Trashed(P)]
    /\ disk' = Without(P)
    /\ purge' = TRUE
    /\ UNCHANGED closing

\* The marks a handler makes: the row whose path is, letter for letter, the one
\* the client sent and, if it was called with the id of an entry, the entry's row
\* once more.  Another spelling of the path finds the file and no row, and the
\* bot's review of duplicates moves a file and marks nothing.
Marks(how) == CASE how = "path" -> 1
                [] how = "id" -> 2
                [] how = "other" -> 0

DeleteFile(p) ==
    /\ Call("delete") /\ Exists(p)
    /\ ToTrash({p}, FALSE)
    /\ \E how \in {"path", "other"} \cup {h \in {"id"} : Live(p)} :
          /\ marks' = [marks EXCEPT ![p] = @ + Marks(how)]
          /\ Happens({p}, IF how = "other" THEN "other" ELSE "deleting")
    /\ UNCHANGED <<uploads, index, pass, losses>>

Mark(p) ==
    /\ marks[p] > 0
    /\ marks' = [marks EXCEPT ![p] = @ - 1]
    /\ index' = IF index[p] = NoEntry THEN index ELSE [index EXCEPT ![p].deleted = TRUE]
    /\ last' = IF last[p] = "deleting" THEN [last EXCEPT ![p] = "deleted"] ELSE last
    /\ Touch({p})
    /\ UNCHANGED <<disk, raced, trash, uploads, pass, calls, spoiled, losses>>

\* The index fails, and the handler with it, whichever of its marks are left.
MarkFails(p) ==
    /\ \E n \in 1..Marks("id") : /\ n <= marks[p]
                                /\ marks' = [marks EXCEPT ![p] = @ - n]
    /\ last' = IF last[p] = "deleting" THEN [last EXCEPT ![p] = "other"] ELSE last
    /\ UNCHANGED <<disk, raced, trash, uploads, index, pass, calls, touched, spoiled, losses>>

\* "if was_file": the entries of a folder's files are not marked.
There(i) == {p \in InFolder(i) : Exists(p)}

DeleteFolder(i) ==
    /\ Call("delete_folder") /\ There(i) # {}
    /\ ToTrash(There(i), TRUE)
    /\ Happens(There(i), "other")
    /\ UNCHANGED <<uploads, index, marks, pass, losses>>

------------------------------------------------------------------------------
\* rename_file(), for a file and for a folder: the index is not told.

Renamed(m) == [q \in Paths |-> IF \E p \in DOMAIN m : m[p] = q
                              THEN disk[CHOOSE p \in DOMAIN m : m[p] = q]
                              ELSE IF q \in DOMAIN m THEN Absent ELSE disk[q]]

Rename(m) ==
    /\ Call("rename")
    /\ disk' = Renamed(m)
    /\ LET P == DOMAIN m \cup {m[p] : p \in DOMAIN m}
       IN  Happens(P, "other") /\ Puts(P, Uploads)
    /\ UNCHANGED <<trash, uploads, index, marks, pass, gone, stranded>>

RenameFile(p, q) == p[1] = q[1] /\ Exists(p) /\ Free(q) /\ Rename([x \in {p} |-> q])

RenameFolder(i, j) == /\ There(i) # {} /\ There(j) = {}
                      /\ \A p \in There(i) : <<j, p[2]>> \in Paths
                      /\ Rename([p \in There(i) |-> <<j, p[2]>>])

------------------------------------------------------------------------------
\* trash_routes.py

\* Where the file q of item i goes: a second "_restored" is not looked for.
Origin(i, q) == q
Beside(i, q) == IF item[i].folder THEN <<q[1] + 1, q[2]>> ELSE <<q[1], q[2] + 1>>
Taken(i) == IF item[i].folder THEN There(item[i].from[1]) # {} ELSE Exists(item[i].from)
Target(i, q) == IF Taken(i) THEN Beside(i, q) ELSE Origin(i, q)

\* A folder whose second name is taken too would go into that folder: left out.
Restorable(i) == /\ \A q \in DOMAIN bytes[i] : Target(i, q) \in Paths
                 /\ item[i].folder /\ Taken(i) => There(item[i].from[1] + 1) = {}

Restore(i) ==
    /\ Call("restore") /\ i \in list /\ bytes[i] # <<>> /\ Restorable(i)
    /\ LET T == {Target(i, q) : q \in DOMAIN bytes[i]}
           Back(p) == bytes[i][CHOOSE q \in DOMAIN bytes[i] : Target(i, q) = p]
       IN  /\ disk' = [p \in Paths |-> IF p \in T THEN Back(p) ELSE disk[p]]
           /\ gone' = gone \cup {disk[p] : p \in {q \in T : Exists(q)}}
           /\ Happens(T, "other") /\ Puts(T, Uploads)
    /\ bytes' = [bytes EXCEPT ![i] = <<>>]
    /\ closing' = closing \cup {i}
    /\ UNCHANGED <<item, list, purge, uploads, index, marks, pass, stranded>>

\* The item has lost its files: it is taken off the list.
RestoreNothing(i) ==
    /\ Call("restore") /\ i \in list /\ bytes[i] = <<>>
    /\ list' = list \ {i}
    /\ UNCHANGED <<item, bytes, closing, purge, files, uploads, index, marks, pass, touched, spoiled, losses>>

ContentOf(S) == UNION {{bytes[i][p] : p \in DOMAIN bytes[i]} : i \in S}
FilesOf(S) == UNION {{i} \X DOMAIN bytes[i] : i \in S}

\* _unlink_trash_item() of the items of S, which swallows every error: the files
\* of F stay, and their items are treated like the others.
Emptied(S, F) == [i \in Ids |-> [p \in {q \in DOMAIN bytes[i] : i \in S => <<i, q>> \in F} |-> bytes[i][p]]]

Unlink(S) ==
    /\ \E F \in SUBSET FilesOf(S) : /\ bytes' = Emptied(S, F)
                                    /\ stranded' = stranded \cup {f[1] : f \in F}
    /\ gone' = gone \cup ContentOf(S)
    /\ UNCHANGED exposed

\* permanent_delete_trash_item()
Erase(i) ==
    /\ Call("erase") /\ i \in list
    /\ Unlink({i})
    /\ closing' = closing \cup {i}
    /\ UNCHANGED <<item, list, purge, files, uploads, index, marks, pass, touched, spoiled>>

\* The end of a restore or a permanent delete.
TakeOff(i) ==
    /\ i \in closing
    /\ list' = list \ {i}
    /\ closing' = closing \ {i}
    /\ UNCHANGED <<item, bytes, purge, files, uploads, index, marks, pass, calls, touched, spoiled, losses>>

Sizes(S) == FoldSet(LAMBDA i, n : item[i].size + n, 0, S)

\* _decide(): oldest first, until what is listed is within the quota; before
\* that, what is too old, if the user has asked for it.
OverQuota == {i \in list : Sizes({j \in list : j >= i}) > Quota}

Purge ==
    /\ purge
    /\ \E n \in 0..Len(item) :
          LET S == OverQuota \cup {i \in list : i <= n}
          IN  list' = list \ S /\ Unlink(S)
    /\ purge' = FALSE
    /\ UNCHANGED <<item, closing, files, uploads, index, marks, pass, calls, touched, spoiled>>

------------------------------------------------------------------------------
\* reconcile_once(), but for the repair of the buckets.

PassOnly == UNCHANGED <<files, trash, uploads, marks, calls, losses>>

\* mark_missing_deleted() reads the rows and looks at the disk ...
Missing == {p \in Paths : Live(p) /\ ~Exists(p)}

\* Files whose rows are deleted, and would otherwise be theirs: restored ones.
HiddenAsIs == {p \in Paths : /\ index[p] # NoEntry /\ index[p].deleted
                             /\ index[p].sig = disk[p]}

PassBegins ==
    /\ pass.at = "rest"
    /\ pass' = [pass EXCEPT !.at = "prune", !.missing = Missing,
                            !.hidden = HiddenAsIs]
    /\ touched' = {p \in Paths : Late(p)}
    /\ PassOnly /\ UNCHANGED <<index, spoiled>>

\* ... and marks what it missed.
PassPrunes ==
    /\ pass.at = "prune"
    /\ index' = [p \in Paths |-> IF p \in pass.missing THEN [index[p] EXCEPT !.deleted = TRUE]
                                 ELSE index[p]]
    /\ pass' = [pass EXCEPT !.at = "scan", !.missing = {}]
    /\ PassOnly /\ UNCHANGED <<touched, spoiled>>

PassScans ==
    /\ pass.at = "scan"
    /\ pass' = [pass EXCEPT !.at = "compare", !.seen = disk]
    /\ PassOnly /\ UNCHANGED <<index, touched, spoiled>>

\* A file is skipped if a row of its path has its size and time, deleted or not.
Known(p) == index[p] # NoEntry /\ index[p].sig = pass.seen[p]

PassCompares ==
    /\ pass.at = "compare"
    /\ LET todo == {p \in Paths : pass.seen[p] # Absent /\ ~Known(p)}
       IN  pass' = [pass EXCEPT !.at = "index", !.todo = todo,
                                !.seen = [p \in todo |-> pass.seen[p]]]
    /\ PassOnly /\ UNCHANGED <<index, touched, spoiled>>

\* A file that is no longer there is logged and left.
ReadNow(p) == disk[p]

PassHashes(p) ==
    /\ p \in pass.todo /\ pass.path = Absent
    /\ pass' = IF ReadNow(p) # Absent THEN [pass EXCEPT !.path = p, !.hash = ReadNow(p)]
               ELSE [pass EXCEPT !.todo = @ \ {p}]
    /\ PassOnly /\ UNCHANGED <<index, touched, spoiled>>

\* The row gets the hash of now, and the size and time of the scan.
PassRecords ==
    /\ pass.path # Absent
    /\ LET p == pass.path
       IN  /\ \/ /\ index' = [index EXCEPT ![p] = Recorded(@, pass.hash, pass.seen[p])]
                 /\ spoiled' = IF p \in touched THEN spoiled \cup {p} ELSE spoiled \ {p}
                 /\ UNCHANGED touched
              \/ UNCHANGED <<index, spoiled>> /\ touched' = touched \cup {p}
           /\ pass' = [pass EXCEPT !.todo = @ \ {p}, !.path = Absent, !.hash = Absent]
    /\ PassOnly

PassDone == pass.at = "index" /\ pass.todo = {}

PassEnds ==
    /\ PassDone
    /\ pass' = Resting
    /\ touched' = {}
    /\ PassOnly /\ UNCHANGED <<index, spoiled>>

Pass == \/ PassBegins \/ PassPrunes \/ PassScans \/ PassCompares
        \/ (\E p \in Paths : PassHashes(p)) \/ PassRecords \/ PassEnds

------------------------------------------------------------------------------
\* The world around it.

SmbRemove(p) ==
    /\ Call("smb") /\ Exists(p)
    /\ disk' = Without({p})
    /\ gone' = gone \cup {disk[p]}
    /\ Happens({p}, "other")
    /\ UNCHANGED <<trash, uploads, index, marks, pass, exposed, stranded>>

SmbPut(p, c) ==
    /\ Call("smb") /\ disk[p] # c
    /\ disk' = [disk EXCEPT ![p] = c]
    /\ gone' = gone \cup ({disk[p]} \ {Absent})
    /\ Happens({p}, "other") /\ Puts({p}, Uploads)
    /\ UNCHANGED <<trash, uploads, index, marks, pass, stranded>>

\* The process dies, perhaps between the two writes of a delete or when a purge,
\* which goes from old to new, has unlinked some of its items and saved nothing.
Crash ==
    /\ Call("crash")
    /\ \/ UNCHANGED <<item, list, bytes, losses>>
       \/ /\ \E p \in Paths : Exists(p) /\ Listed({p}, FALSE)
          /\ UNCHANGED <<bytes, losses>>
       \/ \E n \in 1..Len(item) :
             /\ purge
             /\ Unlink({i \in list : i <= n})
             /\ UNCHANGED <<item, list>>
    /\ pc' = [u \in Uploads |-> IF pc[u] \in {"missed", "picked", "stored"} THEN "died" ELSE pc[u]]
    /\ marks' = [p \in Paths |-> 0]
    /\ closing' = {}
    /\ purge' = FALSE
    /\ pass' = Resting
    /\ touched' = {}
    /\ UNCHANGED <<files, body, dest, index, spoiled>>

Next ==
    \/ \E u \in Uploads : Pick(u) \/ Store(u) \/ Record(u) \/ \E c \in Contents : Lookup(u, c)
    \/ \E p \in Paths : \/ DeleteFile(p) \/ Mark(p) \/ MarkFails(p) \/ SmbRemove(p)
                        \/ \E c \in Contents : SmbPut(p, c)
                        \/ \E q \in Paths : RenameFile(p, q)
    \/ \E i \in {0, 1} : DeleteFolder(i) \/ \E j \in {0, 1} : RenameFolder(i, j)
    \/ \E i \in Ids : Restore(i) \/ RestoreNothing(i) \/ Erase(i) \/ TakeOff(i)
    \/ Purge \/ Pass \/ Crash

Spec == Init /\ [][Next]_vars

------------------------------------------------------------------------------
\* The types of the variables.
TypeOK ==
    /\ disk \in [Paths -> Contents \cup {Absent}]
    /\ index \in [Paths -> Entries \cup {NoEntry}]
    /\ pc \in [Uploads -> {"new", "missed", "picked", "duplicate", "stored", "done", "died"}]
    /\ body \in [Uploads -> Contents \cup {Absent}]
    /\ dest \in [Uploads -> Paths \cup {Absent}]
    /\ marks \in [Paths -> 0..2 * MaxItems]
    /\ item \in Seq([from : Paths, folder : BOOLEAN, size : 1..Cardinality(Paths)])
    /\ Len(item) <= MaxItems /\ list \subseteq 1..Len(item) /\ closing \subseteq Ids
    /\ \A i \in Ids : bytes[i] \in [DOMAIN bytes[i] -> Contents] /\ DOMAIN bytes[i] \subseteq Paths
    /\ purge \in BOOLEAN
    /\ pass.at \in {"rest", "prune", "scan", "compare", "index"}
    /\ pass.missing \cup pass.hidden \cup pass.todo \subseteq Paths
    /\ pass.path \in Paths \cup {Absent} /\ pass.hash \in Contents \cup {Absent}
    /\ calls \in 0..MaxCalls
    /\ raced \cup touched \cup spoiled \subseteq Paths
    /\ gone \cup exposed \subseteq Contents /\ stranded \subseteq Ids

\* Whatever is in the trash directory is on the list, so that it can be
\* restored and counts for the quota, wherever the process died; but for files
\* that could not be unlinked, whose items leave the list all the same.
BytesListed == \A i \in Ids \ stranded : bytes[i] # <<>> => i \in list

\* A file that was stored is in the library or in the trash, until a copy of it
\* is destroyed by a purge, a permanent delete or over SMB, by a restore to a
\* "_restored" that exists; but for a file that came to a path after an upload had
\* found it free, which the upload's rename replaces.
Somewhere(c) == (\E p \in Paths : disk[p] = c) \/ c \in ContentOf(Ids)
Received == {Stock[p] : p \in DOMAIN Stock} \cup {body[u] : u \in {v \in Uploads : pc[v] \in {"stored", "done"}}}
NothingLost == \A c \in Received \ (gone \cup exposed) : Somewhere(c)

\* A file that was uploaded and not touched since is in the index, live and with
\* its hash, unless it met a late writer of the index: a delete handler or a
\* prune that still had the path's former file in mind.
UploadedIsLive == \A p \in Paths \ raced : last[p] = "uploaded" =>
                     Live(p) /\ index[p].hash = disk[p]

\* A file that was deleted under the path of its row, and not by the bot, is not
\* live in the index, unless an upload or the pass was about to record it.
DeletedIsHidden == \A p \in Paths \ raced : last[p] = "deleted" => ~Live(p)

\* At the end of a pass the index agrees with the disk on what was not changed
\* meanwhile, with two exceptions: a file that was hidden before stays hidden,
\* and a hash recorded while the file was being replaced may stay wrong.
CaughtUp == PassDone => \A p \in Paths \ touched :
    IF Exists(p) THEN /\ index[p] # NoEntry /\ index[p].sig = disk[p]
                      /\ p \in spoiled \/ index[p].hash = disk[p]
                      /\ p \in pass.hidden \/ Live(p)
                 ELSE ~Live(p)

\* A restore puts files back and takes none away, whatever is in their place.
RestoreOnlyAdds ==
    [][\A i \in Ids : i \in list /\ bytes'[i] # bytes[i] /\ disk' # disk
          => \A p \in Paths : Exists(p) => disk'[p] = disk[p]]_vars

\* An upload is answered as a duplicate only of a file that is there.
DuplicateIsThere ==
    [][\A u \in Uploads : pc[u] = "new" /\ pc'[u] = "duplicate" => disk[dest'[u]] = body'[u]]_vars
==============================================================================
