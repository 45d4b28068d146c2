---------------------------- MODULE SemanticIndex ----------------------------
(***************************************************************************)
(* The semantic index: semantic_indexer.py (the run), vector_store.py (one *)
(* table per shard, the matrices kept in memory, the move of the old       *)
(* database), vector_index.py (the approximate index) and workload.py (the *)
(* gate between batches).                                                  *)
(*                                                                         *)
(* A run looks for files whose vector is missing or has another content    *)
(* key, embeds them batch by batch, builds the approximate index of large  *)
(* shards, and embeds the images with a second model.                      *)
(***************************************************************************)
EXTENDS Focus, Integers, FiniteSets, Sequences

CONSTANTS
    Shards, Shared,     \* the shards; the one that is always there
    ShardOf,            \* shard_for_path: file -> shard
    Images,             \* is_image
    BlobId,             \* blobs.id, the order in which SQLite finds the files
    Slice,              \* embedding_slice_size
    IvfMinItems,        \* IVF_MIN_ITEMS
    MaxResidentShards,  \* _MAX_RESIDENT_SHARDS
    Touched,            \* bound: files that are edited or removed
    MaxVersion,         \* bound: contents of a file
    MaxFailures,        \* bound: failures in a behaviour
    MaxRequests,        \* bound: requests in a behaviour
    Idle                \* no load under way

Files == DOMAIN ShardOf
Models == {"text", "image"}

ASSUME SemanticAssumption ==
    /\ IsFiniteSet(Files) /\ IsFiniteSet(Shards) /\ Shared \in Shards /\ ShardOf \in [Files -> Shards]
    /\ BlobId \in [Files -> Nat] /\ Images \cup Touched \subseteq Files
    /\ {Slice, IvfMinItems, MaxResidentShards} \subseteq Nat \ {0}
    /\ {MaxVersion, MaxFailures, MaxRequests} \subseteq Nat

VARIABLES
    disk,       \* file -> version of its bytes, 0 when it is gone
    hash,       \* media.db: blob -> version
    live,       \* media.db: files with an entry that is not deleted
    words,      \* docs.db: file -> version its text was taken from, 0 for no text
    table,      \* shard -> its rows, in rowid order
    ann,        \* shard -> [rows, names], the files of the approximate index and paths.json
    resident,   \* the matrices in memory, oldest first
    load,       \* a search between reading the rows and keeping them, or Idle
    legacy,     \* rows of the database of before the shards
    run,        \* the worker thread and its job
    busy,       \* is someone using the server?
    failures,   \* bound: failures so far
    requests,   \* bound: requests so far
    \* History.
    owed        \* file -> the version a request saw, 0 when a look passed the file over

vars_semantic == <<disk, hash, live, words, table, ann, resident, load, legacy, run, busy, failures, requests, owed>>

\* What a vector is made of: what media.db says of the file, or its bytes; and the text of the
\* document, with the one that was there when the key was read.
Content(entry, text, known) == [entry |-> entry, text |-> text, known |-> known]
Row(p, model, key, of) == [path |-> p, model |-> model, key |-> key, of |-> of]
NoRun == [stage |-> "idle", back |-> "idle", shards |-> {}, todo |-> {}, keys |-> << >>,
          known |-> << >>, of |-> << >>, job |-> "none", late |-> FALSE]
NoIndex == [rows |-> << >>, names |-> << >>]

SemanticInit ==
    /\ disk = [p \in Files |-> 1]
    /\ hash = [p \in Files |-> 1]
    /\ live = Files
    /\ words = [p \in Files |-> 0]
    /\ table = [s \in Shards |-> << >>]
    /\ ann = [s \in Shards |-> NoIndex]
    /\ resident = << >>
    /\ load = Idle
    /\ legacy \in {<< >>} \cup (IF part = "semantic"
                                THEN {<<Row(p, "text", 1, Content(1, 0, 0))>> : p \in Files} ELSE {})
    /\ run = [NoRun EXCEPT !.stage = "down"]
    /\ busy = FALSE
    /\ failures = 0
    /\ requests = 0
    /\ owed = [p \in Files |-> 0]

\* The elements of s at the places in I, in their order: SelectSeq, with its recursion in the
\* open for the proofs.
Picked(s, I) ==
    LET k[i \in 0..Len(s)] ==
            IF i = 0 THEN << >> ELSE IF i \in I THEN Append(k[i - 1], s[i]) ELSE k[i - 1]
    IN  k[Len(s)]

Rows(rows, model) == Picked(rows, {i \in DOMAIN rows : rows[i].model = model})
RowsOf(s, model) == Rows(table[s], model)
Paths(rows) == [i \in DOMAIN rows |-> rows[i].path]

------------------------------------------------------------------------------
\* Wrong versions of definitions below; the runs' mutants put them in place.

ForTextOnly(s, models) ==
    Picked(resident, {i \in DOMAIN resident : resident[i].shard # s \/ resident[i].model # "text"})
OnceIndexed(s, model) ==
    {p \in live : ~\E i \in DOMAIN table[s] : table[s][i].path = p /\ table[s][i].model = model}
PatientGate == FALSE

------------------------------------------------------------------------------
\* The store.

\* _invalidate; it follows every commit.
Invalidated(s, models) ==
    Picked(resident, {i \in DOMAIN resident : resident[i].shard # s \/ resident[i].model \notin models})

\* INSERT ... ON CONFLICT(rel_path, model) DO UPDATE: a row keeps its place.
Upserted(rows, row) ==
    LET same == {i \in DOMAIN rows : rows[i].path = row.path /\ rows[i].model = row.model}
    IN  IF same = {} THEN Append(rows, row) ELSE [i \in DOMAIN rows |-> IF i \in same THEN row ELSE rows[i]]

\* INSERT OR REPLACE, as the move of the old database has it: a row loses its place. The rows
\* that are moved come from one table, so that no two have one key.
Replaced(rows, moved) ==
    Picked(rows, {i \in DOMAIN rows : \A j \in DOMAIN moved :
                      moved[j].path # rows[i].path \/ moved[j].model # rows[i].model}) \o moved

\* rebuild_required_from_db compares all of media.db with the table of ONE shard, and what it
\* may return is cut before the caller drops the files of other shards.
Due(s, model) ==
    {p \in live : ~\E i \in DOMAIN table[s] :
        table[s][i].path = p /\ table[s][i].model = model /\ table[s][i].key = hash[p]}
First(due, limit) == {p \in due : Cardinality({q \in due : BlobId[q] < BlobId[p]}) < limit}
Mine(s, files) == {p \in files : ShardOf[p] = s}
Orphans(s, model) == {table[s][i].path : i \in {j \in DOMAIN table[s] :
                          table[s][j].model = model /\ table[s][j].path \notin live}}

\* delete() asks for no model.
DropRows(s, files) ==
    /\ table' = [table EXCEPT ![s] = Picked(@, {i \in DOMAIN @ : @[i].path \notin files})]
    /\ resident' = IF files = {} THEN resident ELSE Invalidated(s, Models)

Store(p, model, key, of) ==
    /\ table' = [table EXCEPT ![ShardOf[p]] = Upserted(@, Row(p, model, key, of))]
    /\ resident' = Invalidated(ShardOf[p], {model})

\* _known_shards; blobs are never removed. Whatever goes wrong, it falls back on the shared
\* shard, and the run goes on without the files of the others.
KnownShards == {Shared} \cup {ShardOf[p] : p \in Files}
Enumerated == {KnownShards} \cup (IF trouble = "fail" THEN {{Shared}} ELSE {})
PassesOver(shards) == [p \in Files |-> IF ShardOf[p] \in shards THEN owed[p] ELSE 0]

------------------------------------------------------------------------------
\* The process.

\* Rows of the old database are moved at every start for as long as it cannot be renamed.
SemanticBoot ==
    /\ run.stage = "down"
    /\ table' = [s \in Shards |-> Replaced(table[s], Picked(legacy, {i \in DOMAIN legacy : ShardOf[legacy[i].path] = s}))]
    /\ legacy' \in {<< >>} \cup (IF trouble = "rename" THEN {legacy} ELSE {})
    /\ run' = NoRun
    /\ UNCHANGED <<disk, hash, live, words, ann, resident, load, busy, failures, requests, owed>>

SemanticCrash ==
    /\ trouble \in {"crash", "rename"} /\ run.stage # "down" /\ failures < MaxFailures
    /\ run' = [NoRun EXCEPT !.stage = "down"]
    /\ resident' = << >>
    /\ load' = Idle
    /\ failures' = failures + 1
    /\ UNCHANGED <<disk, hash, live, words, table, ann, legacy, busy, requests, owed>>

\* request_from_db. A request during a run extends it: it is seen by the next look, if there
\* is one.
LooksAgain == run.stage \in {"keys", "embed"} \/ (run.stage = "gate" /\ run.back = "embed")
RequestIndex ==
    /\ run.stage # "down" /\ requests < MaxRequests
    /\ requests' = requests + 1
    /\ \E shards \in Enumerated :
          /\ run' = IF run.stage = "idle"
                    THEN [NoRun EXCEPT !.stage = "look", !.shards = shards, !.job = "running"]
                    ELSE [run EXCEPT !.late = @ \/ ~LooksAgain]
          /\ owed' = [p \in Files |-> IF p \in live /\ (run.stage = "idle" => ShardOf[p] \in shards)
                                      THEN hash[p] ELSE 0]
    /\ UNCHANGED <<disk, hash, live, words, table, ann, resident, load, legacy, busy, failures>>

------------------------------------------------------------------------------
\* The run.

RunAt(stage) == run.stage = stage
UNCHANGED_Outside == UNCHANGED <<disk, hash, live, words, legacy, busy, failures, requests, load>>
UNCHANGED_Library == UNCHANGED_Outside /\ UNCHANGED owed

\* Files of other shards, which the table of this one will never have, fill its slice.
Starved(p) == Cardinality({q \in live : ShardOf[q] # ShardOf[p] /\ BlobId[q] < BlobId[p]}) >= Slice

Look(s) ==
    /\ RunAt("look") /\ s \in run.shards
    /\ DropRows(s, Orphans(s, "text"))
    /\ LET todo == run.todo \cup Mine(s, First(Due(s, "text"), Slice))
           more == run.shards \ {s}
       IN  \E shards \in Enumerated :
              /\ run' = IF more # {} THEN [run EXCEPT !.shards = more, !.todo = todo]
                        ELSE IF todo = {} THEN [run EXCEPT !.stage = "ann", !.shards = shards]
                        ELSE [run EXCEPT !.stage = "keys", !.shards = {}, !.todo = todo]
              /\ owed' = [p \in Files |->
                             IF \/ ShardOf[p] = s /\ Starved(p)
                                \/ more = {} /\ todo = {} /\ ShardOf[p] \notin shards
                             THEN 0 ELSE owed[p]]
    /\ UNCHANGED ann /\ UNCHANGED_Outside

\* content_keys_for, before anything is embedded.
ReadKeys ==
    /\ RunAt("keys")
    /\ run' = [run EXCEPT !.stage = "embed", !.keys = [p \in run.todo |-> hash[p]],
                            !.known = [p \in run.todo |-> words[p]]]
    /\ UNCHANGED <<table, resident, ann>> /\ UNCHANGED_Library

StoredKey(p) == run.keys[p]

\* A batch is one file. A text vector is made of what the two databases say, whatever the
\* second one has by now, or nothing of it after an error; an image vector of the file, which
\* is left out when it cannot be read.
Made(p) ==
    IF RunAt("embed") THEN {Content(hash[p], text, run.known[p]) : text \in {words[p], 0}}
    ELSE IF disk[p] = 0 THEN {} ELSE {Content(disk[p], 0, 0)}

Embed(p) ==
    /\ run.stage \in {"embed", "images"} /\ p \in run.todo /\ run.of = << >>
    /\ \/ Made(p) = {} /\ run' = [run EXCEPT !.todo = @ \ {p}]
       \/ \E made \in Made(p) : run' = [run EXCEPT !.todo = @ \ {p}, !.of = [q \in {p} |-> made]]
    /\ UNCHANGED <<table, resident, ann>> /\ UNCHANGED_Library

\* upsert_many
Upsert(p) ==
    /\ p \in DOMAIN run.of
    /\ Store(p, IF RunAt("embed") THEN "text" ELSE "image", StoredKey(p), run.of[p])
    /\ run' = [run EXCEPT !.of = << >>, !.stage = "gate", !.back = run.stage]
    /\ UNCHANGED ann /\ UNCHANGED_Library

EmbedFails(p) ==
    /\ RunAt("embed") /\ p \in DOMAIN run.of /\ trouble = "embed" /\ failures < MaxFailures
    /\ run' = [run EXCEPT !.of = << >>]
    /\ failures' = failures + 1
    /\ UNCHANGED <<disk, hash, live, words, table, ann, resident, load, legacy, busy, requests, owed>>

LookAgain ==
    /\ RunAt("embed") /\ run.todo = {} /\ run.of = << >>
    /\ \E shards \in Enumerated :
          /\ run' = [run EXCEPT !.stage = "look", !.shards = shards, !.late = FALSE]
          /\ owed' = PassesOver(shards)
    /\ UNCHANGED <<table, resident, ann>> /\ UNCHANGED_Outside

\* workload.gate_sync: until nobody is active, or for a day.
Gate ==
    /\ RunAt("gate") /\ ~busy
    /\ run' = [run EXCEPT !.stage = run.back]
    /\ UNCHANGED <<table, resident, ann>> /\ UNCHANGED_Library

GivesUpWaiting == TRUE
GateTimesOut ==
    /\ RunAt("gate") /\ busy /\ GivesUpWaiting
    /\ run' = [run EXCEPT !.stage = run.back]
    /\ UNCHANGED <<table, resident, ann>> /\ UNCHANGED_Library

\* build_ann_index: a shard below the threshold is left as it is.
BuildRows(s) ==
    /\ RunAt("ann") /\ s \in run.shards
    /\ IF Len(RowsOf(s, "text")) < IvfMinItems
       THEN /\ run' = [run EXCEPT !.shards = @ \ {s}]
            /\ UNCHANGED ann
       ELSE /\ run' = [run EXCEPT !.stage = "names", !.shards = {s} \cup @, !.todo = Mine(s, Files)]
            /\ ann' = [ann EXCEPT ![s].rows = Paths(RowsOf(s, "text"))]
    /\ UNCHANGED <<table, resident>> /\ UNCHANGED_Library

Indexed(s) == [ann EXCEPT ![s].names = Paths(RowsOf(s, "text"))]
WriteNames(s) ==
    /\ RunAt("names") /\ s \in run.shards /\ run.todo = Mine(s, Files)
    /\ ann' = Indexed(s)
    /\ resident' = Invalidated(s, {"text"})
    /\ run' = [run EXCEPT !.stage = "ann", !.shards = @ \ {s}, !.todo = {}]
    /\ UNCHANGED table /\ UNCHANGED_Library

\* An error of the build is caught shard by shard: before the index is written, between it and
\* its names, or in the middle of the names, which then cannot be read.
BuildFails(s) ==
    /\ trouble = "fail" /\ s \in run.shards
    /\ \/ /\ RunAt("ann") /\ Len(RowsOf(s, "text")) >= IvfMinItems
          /\ UNCHANGED ann
       \/ /\ RunAt("names") /\ run.todo = Mine(s, Files)
          /\ \E names \in {ann[s].names, << >>} : ann' = [ann EXCEPT ![s].names = names]
    /\ run' = [run EXCEPT !.stage = "ann", !.shards = @ \ {s}, !.todo = {}]
    /\ owed' = PassesOver(Shards \ {s})
    /\ UNCHANGED <<table, resident>> /\ UNCHANGED_Outside

ToImages ==
    /\ RunAt("ann") /\ run.shards = {}
    /\ \E shards \in Enumerated : run' = [run EXCEPT !.stage = "images", !.shards = shards]
    /\ UNCHANGED <<table, resident, ann>> /\ UNCHANGED_Library

\* _index_images, shard by shard: the diff, then the keys, then the batches.
LookImages(s) ==
    /\ RunAt("images") /\ run.todo = {} /\ run.of = << >> /\ s \in run.shards
    /\ DropRows(s, Orphans(s, "image"))
    /\ LET todo == Mine(s, Due(s, "image")) \cap Images
       IN  run' = [run EXCEPT !.shards = @ \ {s}, !.todo = todo, !.keys = [p \in todo |-> hash[p]]]
    /\ UNCHANGED ann /\ UNCHANGED_Library

\* What goes wrong with the images ends their part of the run, which completes.
ImagesFail ==
    /\ RunAt("images") /\ trouble = "fail"
    /\ run' = [run EXCEPT !.shards = {}, !.todo = {}, !.of = << >>]
    /\ UNCHANGED <<table, resident, ann>> /\ UNCHANGED_Library

\* _finish
FinishRun ==
    /\ RunAt("images") /\ run.shards = {} /\ run.todo = {} /\ run.of = << >>
    /\ run' = [NoRun EXCEPT !.job = "completed", !.late = run.late]
    /\ UNCHANGED <<table, resident, ann>> /\ UNCHANGED_Library

RunFails ==
    /\ run.stage \in {"look", "keys"} /\ trouble = "fail" /\ failures < MaxFailures
    /\ run' = [NoRun EXCEPT !.job = "failed"]
    /\ failures' = failures + 1
    /\ UNCHANGED <<disk, hash, live, words, table, ann, resident, load, legacy, busy, requests, owed>>

WorkerStep ==
    \/ ReadKeys \/ LookAgain \/ Gate \/ GateTimesOut \/ ToImages \/ ImagesFail \/ FinishRun \/ RunFails
    \/ \E s \in Shards : Look(s) \/ BuildRows(s) \/ WriteNames(s) \/ BuildFails(s) \/ LookImages(s)
    \/ \E p \in Files : Embed(p) \/ Upsert(p) \/ EmbedFails(p)

------------------------------------------------------------------------------
\* Searches: _resident reads the rows without a lock and keeps them afterwards.

KeptResident(entries) == IF Len(entries) < MaxResidentShards THEN entries
                 ELSE SubSeq(entries, Len(entries) - MaxResidentShards + 2, Len(entries))

LoadRows(s, model) ==
    /\ trouble = "search" /\ run.stage # "down" /\ load = Idle /\ RowsOf(s, model) # << >>
    /\ \A i \in DOMAIN resident : resident[i].shard # s \/ resident[i].model # model
    /\ load' = [shard |-> s, model |-> model, rows |-> RowsOf(s, model)]
    /\ UNCHANGED <<disk, hash, live, words, table, ann, resident, legacy, run, busy, failures, requests, owed>>

KeepRows ==
    /\ load # Idle
    /\ resident' = Append(KeptResident(resident),
                          [shard |-> load.shard, model |-> load.model, rows |-> load.rows,
                           raced |-> load.rows # RowsOf(load.shard, load.model)])
    /\ load' = Idle
    /\ UNCHANGED <<disk, hash, live, words, table, ann, legacy, run, busy, failures, requests, owed>>

------------------------------------------------------------------------------
\* The family and the media index.

EditFile(p) ==
    /\ p \in Touched /\ trouble = "edit" /\ disk[p] \in 1..(MaxVersion - 1)
    /\ disk' = [disk EXCEPT ![p] = @ + 1]
    /\ UNCHANGED <<hash, live, words, table, ann, resident, load, legacy, run, busy, failures, requests, owed>>

IndexFile(p) ==
    /\ disk[p] # 0 /\ (p \notin live \/ hash[p] # disk[p])
    /\ hash' = [hash EXCEPT ![p] = disk[p]]
    /\ live' = live \cup {p}
    /\ UNCHANGED <<disk, words, table, ann, resident, load, legacy, run, busy, failures, requests, owed>>

\* The document index follows when it comes to the file, and may find no text in it.
IndexText(p) ==
    /\ p \in Touched /\ trouble = "edit" /\ disk[p] # 0
    /\ \E text \in {0, disk[p]} : text # words[p] /\ words' = [words EXCEPT ![p] = text]
    /\ UNCHANGED <<disk, hash, live, table, ann, resident, load, legacy, run, busy, failures, requests, owed>>

RemoveFile(p) ==
    /\ p \in Touched \cap live /\ trouble \in {"remove", "search", "crash"}
    /\ disk' = [disk EXCEPT ![p] = 0]
    /\ live' = live \ {p}
    /\ owed' = [owed EXCEPT ![p] = 0]
    /\ UNCHANGED <<hash, words, table, ann, resident, load, legacy, run, busy, failures, requests>>

UseServer ==
    /\ RunAt("gate") /\ trouble = "busy"
    /\ busy' = ~busy
    /\ UNCHANGED <<disk, hash, live, words, table, ann, resident, load, legacy, run, failures, requests, owed>>

SemanticNext ==
    \/ SemanticBoot \/ SemanticCrash \/ RequestIndex \/ WorkerStep \/ KeepRows \/ UseServer
    \/ \E s \in Shards, model \in Models : LoadRows(s, model)
    \/ \E p \in Files : EditFile(p) \/ IndexFile(p) \/ IndexText(p) \/ RemoveFile(p)

------------------------------------------------------------------------------
\* Properties.

\* A matrix in memory is what its table holds, whichever write came last: an upsert of its
\* model, a removal, the rebuild of an index, the bound on how many are kept
\* (vector_store.py:495-528). Left out: a matrix whose rows were read before a write and kept
\* after it, which nothing prevents.
ResidentFresh ==
    \A i \in DOMAIN resident :
        resident[i].raced \/ resident[i].rows = RowsOf(resident[i].shard, resident[i].model)

\* A vector is never taken for newer than the entry or the bytes it was made of, however files
\* and their hashes change while it is computed (semantic_indexer.py:355-377): else the file
\* would never be embedded again.
KeysNotAhead == \A s \in Shards : \A i \in DOMAIN table[s] : table[s][i].key <= table[s][i].of.entry

\* The text of the document in it is none, after an error, or at least as new as the text that
\* was known when the key was read. It may be older than the key, since the document index
\* follows in its own time, and then it stays until the file changes: of that nothing is said
\* (semantic_indexer.py:209-227, embedding_context.py:113-161).
TextNotBehind ==
    \A s \in Shards : \A i \in DOMAIN table[s] :
        table[s][i].of.text = 0 \/ table[s][i].of.text >= table[s][i].of.known

\* A search reads vectors that agree with their table, and the table never passes an old
\* vector off as a new one, whatever is written, removed or edited while a run computes
\* (vector_store.py:409-528, semantic_indexer.py:354-377).
VectorsAgree == ResidentFresh /\ KeysNotAhead /\ TextNotBehind

Searchable(p) ==
    LET s == ShardOf[p] IN
    /\ \E i \in DOMAIN table[s] :
          table[s][i].path = p /\ table[s][i].model = "text" /\ table[s][i].key >= owed[p]
    /\ \/ ann[s].names = << >>
       \/ \E i \in DOMAIN ann[s].rows : i \in DOMAIN ann[s].names /\ ann[s].names[i] = p
       \/ Len(RowsOf(s, "text")) < IvfMinItems

\* When a run has completed, every file that was there at the last request and still is can be
\* found by its text (semantic_indexer.py:179-206, 299-423; vector_store.py:592-623). Left out:
\* a request that came after the last look of the run, which nobody takes up; an approximate
\* index of a shard that has since become too small for one; a file that as many files
\* of other shards come before as fit into a slice, which no look ever reaches; and, until the
\* next request, the files of a shard that the run passed over since the shards could not be
\* enumerated (92-94), or whose approximate index it failed to build (405-411), although the
\* job of that run is reported as completed (422).
AskedIsFound ==
    run.job = "completed" /\ ~run.late =>
        \A p \in Files : owed[p] # 0 => Searchable(p)

\* A run ends, also in a house where somebody is always using the server, as long as batches
\* do not fail for ever (semantic_indexer.py:315-422, workload.py:194-224).
RunEnds == run.stage \notin {"idle", "down"} ~> run.stage \in {"idle", "down"}
=============================================================================
