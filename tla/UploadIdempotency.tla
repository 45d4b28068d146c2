-------------------------- MODULE UploadIdempotency --------------------------
(***************************************************************************)
(* POST /upload with an Idempotency-Key: the table of keys of              *)
(* upload_idempotency.py and the handler upload_file of file_routes.py     *)
(* that claims a key, stores the bytes, records the response and releases  *)
(* the claim when it fails.                                                *)
(*                                                                         *)
(* Requests run concurrently: a client that lost its connection retries    *)
(* while the first request is still being served, and the process may die  *)
(* and start again between any two steps.  The bytes of one logical upload *)
(* (a key of a user) are one value; each time they are stored they become  *)
(* the next copy of that upload.  Time is the age of a row, capped past    *)
(* the retention, so that it needs no bound.                               *)
(***************************************************************************)
EXTENDS Integers, FiniteSets

CONSTANTS
    Keys,                 \* UUIDv7 keys minted by clients
    Users,
    Requests,             \* the requests the server may be serving at once
    Stale,                \* STALE_CLAIM_SECONDS, in ticks
    Ttl,                  \* KEY_TTL_SECONDS, in ticks
    MaxCopies,            \* bound: how often one upload may be stored
    MaxCrashes,           \* bound: how often the process may die
    HolderOutlivesClaim   \* may a request still run when its claim is stale?

CONSTANTS NoRow, NoReq, NoResp, Unreadable

ASSUME IdemAssumption ==
    /\ Stale \in Nat \ {0} /\ Ttl \in Nat /\ Stale <= Ttl
    /\ MaxCopies \in Nat /\ MaxCrashes \in Nat
    /\ HolderOutlivesClaim \in BOOLEAN

Copies    == 1..MaxCopies
Responses == Users \X Copies           \* names the copy that was stored
Rows == [user : Users, status : {"in_progress", "done"},
         resp : Responses \cup {NoResp, Unreadable}, age : 0..Ttl + 1]
Phases == {"claimed", "missed", "renamed", "stored"}
Reqs == [pc : Phases, key : Keys, user : Users, copy : 0..MaxCopies]

ASSUME NullAssumption ==
    /\ NoRow \notin Rows /\ NoReq \notin Reqs \cup Requests
    /\ {NoResp, Unreadable} \cap Responses = {} /\ NoResp # Unreadable

VARIABLES
    up,        \* is the process serving requests?
    row,       \* upload_keys: one row per key, or none
    req,       \* the requests being served
    copies,    \* how many copies of an upload are on disk
    indexed,   \* which of them the media index knows (what the dedup finds)
    answers,   \* responses given for a key since its row was last forgotten
    excused,   \* keys with a cause for a second copy: see StoredOnce
    crashes

vars == <<up, row, req, copies, indexed, answers, excused, crashes>>

Init == /\ up = TRUE
        /\ row = [k \in Keys |-> NoRow]
        /\ req = [r \in Requests |-> NoReq]
        /\ copies = [l \in Keys \X Users |-> 0]
        /\ indexed = [l \in Keys \X Users |-> {}]
        /\ answers = [k \in Keys |-> {}]
        /\ excused = {}
        /\ crashes = 0

------------------------------------------------------------------------------
\* Wrong versions of definitions below; the runs' mutants put them in place.

TakeOverAtAnyAge(k, u) == row[k].user = u /\ row[k].status = "in_progress"
TakeOverFromAnyone(k, u) == row[k].status = "in_progress" /\ row[k].age >= Stale
NeverTakeOver(k, u) == FALSE
DiscardAnyDone(k, u) == row[k].user = u /\ row[k].status = "done"
FinishNothing(k, resp) == row' = row

------------------------------------------------------------------------------
\* The table.

Working(r, k) == req[r] # NoReq /\ req[r].key = k

\* begin(): a request claims a key nobody else claimed, takes over a stale
\* claim of its user, or drops a response it cannot read and claims afresh.
FreshClaim(u) == [user |-> u, status |-> "in_progress", resp |-> NoResp, age |-> 0]

CanTakeOver(k, u) == /\ row[k].user = u
                     /\ row[k].status = "in_progress"
                     /\ row[k].age >= Stale

MustDiscard(k, u) == /\ row[k].user = u
                     /\ row[k].status = "done"
                     /\ row[k].resp = Unreadable

StartWork(r, k, u) ==
    req' = [req EXCEPT ![r] = [pc |-> "claimed", key |-> k, user |-> u, copy |-> 0]]

BeginFresh(r, k, u) ==
    /\ row[k] = NoRow
    /\ row' = [row EXCEPT ![k] = FreshClaim(u)]
    /\ StartWork(r, k, u)
    /\ UNCHANGED <<answers, excused>>

BeginTakeOver(r, k, u) ==
    /\ row[k] # NoRow
    /\ CanTakeOver(k, u)
    /\ row' = [row EXCEPT ![k].age = 0]
    /\ StartWork(r, k, u)
    /\ UNCHANGED <<answers, excused>>

BeginDiscard(r, k, u) ==
    /\ row[k] # NoRow
    /\ MustDiscard(k, u)
    /\ row' = [row EXCEPT ![k] = FreshClaim(u)]
    /\ StartWork(r, k, u)
    /\ answers' = [answers EXCEPT ![k] = {}]
    /\ excused' = excused \cup {k}

BeginReplay(r, k, u) ==
    /\ row[k] # NoRow
    /\ row[k].user = u /\ row[k].status = "done" /\ row[k].resp # Unreadable
    /\ answers' = [answers EXCEPT ![k] = @ \cup {row[k].resp}]
    /\ UNCHANGED <<row, req, excused>>

\* A retry of k by u.  In the remaining cases, a claim that is not stale and
\* a key of another user, begin() answers "in_progress" and changes nothing.
Begin(r, k, u) ==
    /\ up /\ req[r] = NoReq
    /\ \/ BeginFresh(r, k, u)
       \/ BeginTakeOver(r, k, u)
       \/ BeginDiscard(r, k, u)
       \/ BeginReplay(r, k, u)
    /\ UNCHANGED <<up, copies, indexed, crashes>>

\* finish(): whatever row the key has now becomes done.
FinishRow(k, resp) ==
    row' = IF row[k] = NoRow THEN row
           ELSE [row EXCEPT ![k].status = "done", ![k].resp = resp]

\* abandon(): deletes the key's row unless it is done.
AbandonRow(k) ==
    row' = IF row[k] # NoRow /\ row[k].status = "in_progress"
           THEN [row EXCEPT ![k] = NoRow] ELSE row

\* prune(): rows past the retention, whatever their status.
Prunable == {k \in Keys : row[k] # NoRow /\ row[k].age > Ttl}

------------------------------------------------------------------------------
\* The handler, one step per await.

Upload(r) == <<req[r].key, req[r].user>>

\* ingest() has the bytes in a temp file and asks the media index for them.
\* The answer may be empty for want of an index (_dedup_lookup never raises).
LookupHit(r) ==
    /\ req[r] # NoReq /\ req[r].pc = "claimed"
    /\ \E n \in indexed[Upload(r)] :
          req' = [req EXCEPT ![r].pc = "stored", ![r].copy = n]
    /\ UNCHANGED <<up, row, copies, indexed, answers, excused, crashes>>

LookupMiss(r) ==
    /\ req[r] # NoReq /\ req[r].pc = "claimed"
    /\ req' = [req EXCEPT ![r].pc = "missed"]
    /\ UNCHANGED <<up, row, copies, indexed, answers, excused, crashes>>

\* The temp file is renamed: one more copy.
Rename(r) ==
    /\ req[r] # NoReq /\ req[r].pc = "missed"
    /\ copies[Upload(r)] < MaxCopies
    /\ copies' = [copies EXCEPT ![Upload(r)] = @ + 1]
    /\ req' = [req EXCEPT ![r].pc = "renamed", ![r].copy = copies[Upload(r)] + 1]
    /\ UNCHANGED <<up, row, indexed, answers, excused, crashes>>

\* record_entry() returns; it may have failed, which it only logs.
Record(r) ==
    /\ req[r] # NoReq /\ req[r].pc = "renamed"
    /\ \E new \in {{}, {req[r].copy}} :
          indexed' = [indexed EXCEPT ![Upload(r)] = @ \cup new]
    /\ req' = [req EXCEPT ![r].pc = "stored"]
    /\ UNCHANGED <<up, row, copies, answers, excused, crashes>>

\* No await separates the return of ingest(), finish() and the 201.
Finish(r) ==
    /\ req[r] # NoReq /\ req[r].pc = "stored"
    /\ LET k == req[r].key
           resp == <<req[r].user, req[r].copy>>
       IN  /\ FinishRow(k, resp)
           /\ answers' = [answers EXCEPT ![k] = @ \cup {resp}]
    /\ req' = [req EXCEPT ![r] = NoReq]
    /\ UNCHANGED <<up, copies, indexed, excused, crashes>>

\* Where no file is in place yet.
NothingStored == {"claimed", "missed"}

\* The upload stalls, is too large, finds the disk full or is refused, or the
\* rename fails: the claim is released, unless abandon() raises as well.
Fail(r) ==
    /\ req[r] # NoReq /\ req[r].pc \in NothingStored
    /\ AbandonRow(req[r].key) \/ row' = row
    /\ req' = [req EXCEPT ![r] = NoReq]
    /\ UNCHANGED <<up, copies, indexed, answers, excused, crashes>>

\* The file is in place and the request fails all the same: finish() raises, or
\* the request is cancelled while the entry is recorded.  The handler gives the
\* claim up as after any failure; if only the commit of finish() failed, its
\* UPDATE still stands and the DELETE of abandon() finds a row that is done.
FailStored(r) ==
    /\ req[r] # NoReq /\ req[r].pc \notin NothingStored
    /\ \/ AbandonRow(req[r].key)
       \/ row' = row
       \/ req[r].pc = "stored" /\ FinishRow(req[r].key, <<req[r].user, req[r].copy>>)
    /\ req' = [req EXCEPT ![r] = NoReq]
    /\ excused' = excused \cup {req[r].key}
    /\ UNCHANGED <<up, copies, indexed, answers, crashes>>

Serve(r) == \/ LookupHit(r) \/ LookupMiss(r) \/ Rename(r)
            \/ Record(r) \/ Finish(r) \/ Fail(r) \/ FailStored(r)

------------------------------------------------------------------------------
\* The world around it.

MayTick == HolderOutlivesClaim
           \/ \A r \in Requests : req[r] # NoReq => row[req[r].key] # NoRow
                                     /\ row[req[r].key].age + 1 < Stale

Older(rw) == IF rw = NoRow \/ rw.age > Ttl THEN rw ELSE [rw EXCEPT !.age = @ + 1]

Tick == /\ MayTick
        /\ row' = [k \in Keys |-> Older(row[k])]
        /\ UNCHANGED <<up, req, copies, indexed, answers, excused, crashes>>

\* The process dies.  A key whose upload was already stored and not yet
\* answered is excused from StoredOnce.
Crash == /\ up /\ crashes < MaxCrashes
         /\ up' = FALSE
         /\ crashes' = crashes + 1
         /\ excused' = excused \cup {req[r].key : r \in {q \in Requests :
                            req[q] # NoReq /\ req[q].pc \in {"renamed", "stored"}}}
         /\ req' = [r \in Requests |-> NoReq]
         /\ UNCHANGED <<row, copies, indexed, answers>>

\* The lifespan opens the table and prunes it, once per start.
Start == /\ ~up
         /\ up' = TRUE
         /\ row' = [k \in Keys |-> IF k \in Prunable THEN NoRow ELSE row[k]]
         /\ answers' = [k \in Keys |-> IF k \in Prunable THEN {} ELSE answers[k]]
         /\ excused' = excused \cup Prunable
         /\ UNCHANGED <<req, copies, indexed, crashes>>

\* A stored response becomes unreadable on the medium.
Rot(k) == /\ row[k] # NoRow /\ row[k].resp \in Responses
          /\ row' = [row EXCEPT ![k].resp = Unreadable]
          /\ UNCHANGED <<up, req, copies, indexed, answers, excused, crashes>>

Next == \/ \E r \in Requests : \/ Serve(r)
                               \/ \E k \in Keys, u \in Users : Begin(r, k, u)
        \/ Tick \/ Crash \/ Start
        \/ \E k \in Keys : Rot(k)

Spec == Init /\ [][Next]_vars

\* Time passes, the process is restarted by systemd, a request ends (a gap of
\* stall_timeout_s between chunks ends it), and a client goes on retrying its
\* key until it is answered; other requests may take the slot in between.
Fairness == /\ WF_vars(Tick) /\ WF_vars(Start)
            /\ \A r \in Requests : WF_vars(Serve(r))
            /\ \A k \in Keys, u \in Users : SF_vars(\E r \in Requests : Begin(r, k, u))

FairSpec == Spec /\ Fairness

------------------------------------------------------------------------------
TypeOK == /\ up \in BOOLEAN
          /\ row \in [Keys -> Rows \cup {NoRow}]
          /\ req \in [Requests -> Reqs \cup {NoReq}]
          /\ copies \in [Keys \X Users -> 0..MaxCopies]
          /\ indexed \in [Keys \X Users -> SUBSET Copies]
          /\ answers \in [Keys -> SUBSET Responses]
          /\ excused \subseteq Keys
          /\ crashes \in Nat

\* Two requests never perform the same upload at once, although no row says who
\* holds a claim and finish() and abandon() do not ask.
OneWorker == \A k \in Keys : \A r, q \in Requests :
                Working(r, k) /\ Working(q, k) => r = q

\* A success that was answered stands: until the retention ends, the row
\* replays that response and no other was ever given for the key.
AnswerStands == \A k \in Keys : answers[k] # {} =>
                    /\ row[k] # NoRow /\ row[k].status = "done"
                    /\ row[k].resp = Unreadable \/ answers[k] = {row[k].resp}

\* What a key replays to its user is the copy stored for that user: a late
\* finish() never writes one user's response into the row of another.
ReplayIsOwn == \A k \in Keys : row[k] # NoRow /\ row[k].resp \in Responses
                                  => row[k].resp[1] = row[k].user

\* Both, of the responses that retries are given (upload_idempotency.py:115-180).
AnswersHold == AnswerStands /\ ReplayIsOwn

\* A retried upload is stored once.  The excuses are the only ways to a second
\* copy: the process died, or the request failed, between the rename and the
\* row's update, the row was pruned, or its response was unreadable.
StoredOnce == \A k \in Keys, u \in Users : k \notin excused => copies[<<k, u>>] <= 1

\* A claim orphaned by a crash does not block its key for ever.
Orphaned(k) == /\ row[k] # NoRow /\ row[k].status = "in_progress"
               /\ \A r \in Requests : ~Working(r, k)
OrphanRecovers == \A k \in Keys : Orphaned(k) ~> ~Orphaned(k)

\* The row without a holder implements a lock with one.
holderBar == [k \in Keys |-> IF \E r \in Requests : Working(r, k)
                             THEN CHOOSE r \in Requests : Working(r, k) ELSE NoReq]
outcomeBar == [k \in Keys |-> IF row[k] = NoRow \/ row[k].status = "in_progress"
                              THEN NoResp ELSE row[k].resp]

Claim == INSTANCE UploadClaim WITH Outcomes <- Responses, Nobody <- NoReq,
            NoOutcome <- NoResp, Damaged <- Unreadable,
            holder <- holderBar, outcome <- outcomeBar
ImplementsClaim == Claim!Spec
==============================================================================
