------------------------------ MODULE Documents ------------------------------
(***************************************************************************)
(* The searchable text of documents: document_index.py (the table),        *)
(* index_watcher.py (the sweep that follows the file system), the re-scan  *)
(* of POST /files/reindex, and the indexing that uploads, renames and      *)
(* restores start themselves.                                              *)
(*                                                                         *)
(* Everyone reads a file, perhaps for minutes, and only then replaces its  *)
(* row; nobody asks whether the file is still there and still the same.    *)
(***************************************************************************)
EXTENDS Focus, Integers, FiniteSets

CONSTANTS
    Docs,       \* paths of documents
    MaxText,    \* bound: contents of a path
    Lost        \* a state file that cannot be read

Sweeps == {"watch", "reindex"}
NoRow == -1     \* a row has the version its text was taken from, 0 for no text

ASSUME DocumentsAssumption == IsFiniteSet(Docs) /\ MaxText \in Nat

VARIABLES
    docs,       \* path -> version, 0 when there is no file
    newest,     \* path -> the last version it had
    rowText,    \* doc_index
    seen,       \* the watcher's state: path -> signature (version), 0 when not in it
    kept,       \* the state file
    sweep,      \* the two passes over the library
    task,       \* path -> an indexing that an upload or restore started
    mischance,  \* bound: has the trouble of this behaviour happened?
    \* History.
    strays      \* excuses: rows that are wrong when nothing will look again

vars_documents == <<docs, newest, rowText, seen, kept, sweep, task, mischance, strays>>

NoSweep == [stage |-> "idle", prev |-> [d \in Docs |-> 0], cur |-> [d \in Docs |-> 0],
            todo |-> {}, text |-> << >>]
NoTask == [stage |-> "none", text |-> 0]
Nowhere == [d \in Docs |-> 0]

DocumentsInit ==
    /\ docs = Nowhere
    /\ newest = Nowhere
    /\ rowText = [d \in Docs |-> NoRow]
    /\ seen = Nowhere
    /\ kept = Lost
    /\ sweep = [a \in Sweeps |-> NoSweep]
    /\ task = [d \in Docs |-> NoTask]
    /\ mischance = FALSE
    /\ strays = {}

------------------------------------------------------------------------------
\* Wrong versions of definitions below; the runs' mutants put them in place.

OnlyNew(prev, cur) == {d \in Docs : cur[d] # 0 /\ prev[d] = 0}

------------------------------------------------------------------------------
\* index_document: the gate, the text, the row.

\* _extract_text never raises: no file, a failed or timed out OCR make an empty text.
Texts(d) == {docs[d]} \cup (IF trouble = "ocr" THEN {0} ELSE {})

\* A row can be written from what the file was, or from a file that has gone since.
Strays(d, text) == IF docs[d] # 0 /\ (text = docs[d] \/ (text = 0 /\ trouble = "ocr"))
                   THEN strays \ {d} ELSE strays \cup {d}

\* A failed write is logged and forgotten: the row stays, or goes all the same with the next
\* commit of the pooled connection, which nobody rolls back.
IndexFails(d, text) ==
    /\ trouble = "disk"
    /\ \E t \in {rowText[d], NoRow, text} : rowText' = [rowText EXCEPT ![d] = t]
    /\ strays' = strays \cup {d}

Indexes(d, text) ==
    \/ rowText' = [rowText EXCEPT ![d] = text] /\ strays' = Strays(d, text)
    \/ IndexFails(d, text)

StartTask(d) == task' = [task EXCEPT ![d] = [stage |-> "read", text |-> 0]]

TaskReads(d) ==
    /\ task[d].stage = "read"
    /\ \E text \in Texts(d) : task' = [task EXCEPT ![d] = [stage |-> "write", text |-> text]]
    /\ UNCHANGED <<docs, newest, rowText, seen, kept, sweep, mischance, strays>>

TaskWrites(d) ==
    /\ task[d].stage = "write"
    /\ Indexes(d, task[d].text)
    /\ task' = [task EXCEPT ![d] = NoTask]
    /\ UNCHANGED <<docs, newest, seen, kept, sweep, mischance>>

------------------------------------------------------------------------------
\* What happens to files.

Unasked(d) == task[d].stage = "none"

\* An upload or a rename to this name indexes what it stores (file_sorter, telegram); a copy
\* over SMB does not.
Put(d) ==
    /\ newest[d] < MaxText
    /\ newest' = [newest EXCEPT ![d] = @ + 1]
    /\ docs' = [docs EXCEPT ![d] = newest[d] + 1]
    /\ \/ Unasked(d) /\ StartTask(d)
       \/ UNCHANGED task
    /\ UNCHANGED <<rowText, seen, kept, sweep, mischance, strays>>

\* DELETE /files/delete moves the file first and then asks of the path it left what it is, so
\* that no row is removed.
WillKnow(d) == (IF sweep["watch"].stage = "idle" THEN seen[d] ELSE sweep["watch"].cur[d]) # 0

Delete(d) ==
    /\ docs[d] # 0
    /\ docs' = [docs EXCEPT ![d] = 0]
    /\ strays' = IF WillKnow(d) THEN strays ELSE strays \cup {d}
    /\ UNCHANGED <<newest, rowText, seen, kept, sweep, task, mischance>>

\* POST /trash/{id}/restore
RestoreDoc(d) ==
    /\ trouble = "trash" /\ docs[d] = 0 /\ newest[d] # 0 /\ Unasked(d)
    /\ docs' = [docs EXCEPT ![d] = newest[d]]
    /\ StartTask(d)
    /\ UNCHANGED <<newest, rowText, seen, kept, sweep, mischance, strays>>

\* PUT /files/rename takes the row of the old name away itself.
RenameAway(d) ==
    /\ trouble \in {"rename", "disk"} /\ docs[d] # 0
    /\ docs' = [docs EXCEPT ![d] = 0]
    /\ \/ rowText' = [rowText EXCEPT ![d] = NoRow] /\ strays' = strays \ {d}
       \/ IndexFails(d, NoRow)
    /\ UNCHANGED <<newest, seen, kept, sweep, task, mischance>>

------------------------------------------------------------------------------
\* sync_once, which the watcher and the re-scan share.

Changed(prev, cur) == {d \in Docs : cur[d] # 0 /\ prev[d] # cur[d]}
Removed(prev, cur) == {d \in Docs : prev[d] # 0 /\ cur[d] = 0}
PersistedState == IF kept = Lost THEN Nowhere ELSE kept

\* _scan_documents_sync: the signatures of all that is there.
Scanned == docs

\* A re-scan has pruned the rows without files, and also reads again what has no text.
StartSweep(a) ==
    /\ sweep[a].stage = "idle"
    /\ LET prev == IF a = "watch" THEN seen ELSE PersistedState
           redo == IF a = "watch" THEN {} ELSE {d \in Docs : docs[d] # 0 /\ rowText[d] <= 0}
       IN  sweep' = [sweep EXCEPT ![a] = [stage |-> "prune", prev |-> prev, cur |-> Scanned,
                         todo |-> Changed(prev, Scanned) \cup redo, text |-> << >>]]
    /\ rowText' = IF a = "watch" THEN rowText
                  ELSE [d \in Docs |-> IF docs[d] = 0 THEN NoRow ELSE rowText[d]]
    /\ a = "reindex" => ~mischance /\ trouble \in {"reindex", "ocr"}
    /\ mischance' = (mischance \/ a = "reindex")
    /\ UNCHANGED <<docs, newest, seen, kept, task, strays>>

\* Rows of what is gone are removed first; remove_document swallows that it could not.
Prune(a) ==
    /\ sweep[a].stage = "prune"
    /\ LET gone == Removed(sweep[a].prev, sweep[a].cur) IN
       \E left \in SUBSET gone :
          /\ left = {} \/ trouble = "disk"
          /\ rowText' = [d \in Docs |-> IF d \in gone \ left THEN NoRow ELSE rowText[d]]
          /\ strays' = (strays \ gone) \cup left \cup {d \in gone : docs[d] # 0}
    /\ sweep' = [sweep EXCEPT ![a].stage = "index", ![a].prev = Nowhere]
    /\ UNCHANGED <<docs, newest, seen, kept, task, mischance>>

SweepReads(a, d) ==
    /\ sweep[a].stage = "index" /\ d \in sweep[a].todo
    /\ d \notin DOMAIN sweep[a].text
    /\ \E text \in Texts(d) :
          sweep' = [sweep EXCEPT ![a].text = [e \in {d} \cup DOMAIN @ |-> IF e = d THEN text ELSE @[e]]]
    /\ UNCHANGED <<docs, newest, rowText, seen, kept, task, mischance, strays>>

SweepWrites(a, d) ==
    /\ d \in DOMAIN sweep[a].text
    /\ Indexes(d, sweep[a].text[d])
    /\ sweep' = [sweep EXCEPT ![a].todo = @ \ {d},
                              ![a].text = [e \in DOMAIN @ \ {d} |-> @[e]]]
    /\ UNCHANGED <<docs, newest, seen, kept, task, mischance>>

\* The state file may stay as it was or break; that is logged.
EndSweep(a) ==
    /\ sweep[a].stage = "index" /\ sweep[a].todo = {}
    /\ seen' = IF a = "watch" THEN sweep[a].cur ELSE seen
    /\ kept' = sweep[a].cur \/ (trouble = "disk" /\ kept' \in {kept, Lost})
    /\ sweep' = [sweep EXCEPT ![a] = NoSweep]
    /\ UNCHANGED <<docs, newest, rowText, task, mischance, strays>>

\* POST /files/reindex/cancel: between batches, and nothing is saved.
CancelReindex ==
    /\ sweep["reindex"].stage = "index" /\ sweep["reindex"].text = << >>
    /\ sweep' = [sweep EXCEPT !["reindex"] = NoSweep]
    /\ UNCHANGED <<docs, newest, rowText, seen, kept, task, mischance, strays>>

------------------------------------------------------------------------------
\* The process: a stop saves the watcher's state, a crash does not, and one in the middle of
\* the write leaves a file that cannot be read. The start removes rows without files, and is
\* not a start if it cannot.

DocumentsRestart ==
    /\ trouble \in {"stop", "crash", "disk"} /\ ~mischance
    /\ LET left == IF trouble = "stop" THEN {seen} ELSE {kept, Lost} IN
       \E k \in left : /\ kept' = k
                       /\ seen' = IF k = Lost THEN Nowhere ELSE k
    /\ rowText' = [d \in Docs |-> IF docs[d] = 0 THEN NoRow ELSE rowText[d]]
    /\ sweep' = [a \in Sweeps |-> NoSweep]
    /\ task' = [d \in Docs |-> NoTask]
    /\ mischance' = TRUE
    /\ UNCHANGED <<docs, newest, strays>>

DocumentsNext ==
    \/ CancelReindex \/ DocumentsRestart
    \/ \E d \in Docs : TaskReads(d) \/ TaskWrites(d) \/ Put(d) \/ Delete(d)
                       \/ RestoreDoc(d) \/ RenameAway(d)
    \/ \E a \in Sweeps : StartSweep(a) \/ Prune(a) \/ EndSweep(a)
    \/ \E a \in Sweeps, d \in Docs : SweepReads(a, d) \/ SweepWrites(a, d)

------------------------------------------------------------------------------
\* Properties.

\* When the watcher has seen the library as it is and nobody is indexing, each document is found
\* by its present text and no row is left of a file that is gone, through uploads, removals,
\* renames and restores during a pass, re-scans, cancelled ones, restarts and lost state files
\* (index_watcher.py:109-166, 205-228; document_index.py:286-296, 411-424). Left out: a row
\* written from an old reading after the watcher has seen the file; a file that came and
\* went between two passes, whose row nobody removes; and, until it is written well, a row
\* whose write or removal failed, since the pass goes on and saves the file as seen
\* (document_index.py:372-375, 470-477).
TextCaughtUp ==
    sweep["watch"].stage = "idle" /\ sweep["reindex"].stage = "idle" /\ seen = docs =>
        \A d \in Docs \ strays :
            task[d].stage = "none" =>
                IF docs[d] = 0 THEN rowText[d] = NoRow
                ELSE rowText[d] = docs[d] \/ (rowText[d] = 0 /\ trouble = "ocr")
=============================================================================
