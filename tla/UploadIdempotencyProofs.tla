---------------------- MODULE UploadIdempotencyProofs ----------------------
(***************************************************************************)
(* Proofs about UploadIdempotency, for every set of keys, users and        *)
(* requests and every length of the stale claim and of the retention.      *)
(*                                                                         *)
(* The table does not say who holds a claim, so none of the properties is  *)
(* inductive.  What makes them so is Inv: as long as no request outlives   *)
(* its claim, the row of a key that is being worked on is the claim of the *)
(* request that works on it.  On it rest both that an upload is stored     *)
(* once (OneAtHome) and that the table implements the lock of UploadClaim. *)
(***************************************************************************)
EXTENDS UploadIdempotency, TLAPS

\* The row of a key that is being worked on is the worker's claim.
ClaimHeld == \A r \in Requests, k \in Keys : Working(r, k) =>
                /\ row[k] # NoRow /\ row[k].status = "in_progress"
                /\ row[k].user = req[r].user /\ row[k].age < Stale

\* A process that is down serves no request.
DownIsIdle == ~up => \A r \in Requests : req[r] = NoReq

\* A row that is done has a response, readable or not.
DoneHasResponse == \A k \in Keys : row[k] # NoRow /\ row[k].status = "done" => row[k].resp # NoResp

\* A request that has stored its bytes knows which copy they are.
CopyIsStored == \A r \in Requests : req[r] # NoReq /\ req[r].pc \in {"renamed", "stored"}
                                     => req[r].copy # 0

Inv == /\ TypeOK /\ ClaimHeld /\ OneWorker /\ DownIsIdle
       /\ CopyIsStored /\ DoneHasResponse /\ ReplayIsOwn /\ AnswerStands

------------------------------------------------------------------------------
USE IdemAssumption, NullAssumption

\* The initial state is of the right type.
LEMMA InitTypeOK == Init => TypeOK
  BY DEF Init, TypeOK, Responses, Copies

\* Starting work for a key keeps the requests of the right type.
LEMMA StartWorkType ==
  ASSUME TypeOK, NEW r \in Requests, NEW k \in Keys, NEW u \in Users, StartWork(r, k, u)
  PROVE  req' \in [Requests -> Reqs \cup {NoReq}]
  BY DEF TypeOK, StartWork, Reqs, Phases

\* A fresh claim is a row.
LEMMA FreshClaimType == \A u \in Users : FreshClaim(u) \in Rows
  BY DEF FreshClaim, Rows

\* The claims of begin(), and its replay, keep the type.
LEMMA BeginType ==
  ASSUME TypeOK, DoneHasResponse, NEW r \in Requests, NEW k \in Keys, NEW u \in Users, Begin(r, k, u)
  PROVE  TypeOK'
<1>1. CASE BeginFresh(r, k, u)
  BY <1>1, StartWorkType, FreshClaimType DEF Begin, BeginFresh, TypeOK
<1>2. CASE BeginTakeOver(r, k, u)
  <2>1. [row[k] EXCEPT !.age = 0] \in Rows
    BY <1>2 DEF BeginTakeOver, TypeOK, Rows
  <2>2. row' = [row EXCEPT ![k] = [row[k] EXCEPT !.age = 0]]
    BY <1>2 DEF BeginTakeOver
  <2> QED BY <1>2, <2>1, <2>2, StartWorkType DEF Begin, BeginTakeOver, TypeOK
<1>3. CASE BeginDiscard(r, k, u)
  BY <1>3, StartWorkType, FreshClaimType DEF Begin, BeginDiscard, TypeOK
<1>4. CASE BeginReplay(r, k, u)
  <2>1. row[k].resp \in Responses
    BY <1>4 DEF BeginReplay, TypeOK, Rows, DoneHasResponse
  <2> QED BY <1>4, <2>1 DEF Begin, BeginReplay, TypeOK
<1> QED BY <1>1, <1>2, <1>3, <1>4 DEF Begin

\* finish() writes a row.
LEMMA FinishRowType ==
  ASSUME TypeOK, NEW k \in Keys, NEW resp \in Responses, FinishRow(k, resp)
  PROVE  row' \in [Keys -> Rows \cup {NoRow}]
<1>1. row[k] # NoRow => [row[k] EXCEPT !.status = "done", !.resp = resp] \in Rows
  <2>1. ASSUME NEW w \in Rows
        PROVE  [w EXCEPT !.status = "done", !.resp = resp] \in Rows
    BY DEF Rows
  <2> QED BY <2>1 DEF TypeOK
<1>2. row[k] # NoRow => row' = [row EXCEPT ![k] = [row[k] EXCEPT !.status = "done", !.resp = resp]]
  BY DEF FinishRow
<1> QED BY <1>1, <1>2 DEF FinishRow, TypeOK

\* A step of the handler keeps the type.
LEMMA ServeType ==
  ASSUME TypeOK, CopyIsStored, NEW r \in Requests, Serve(r)
  PROVE  TypeOK'
<1> SUFFICES ASSUME req[r] # NoReq
             PROVE  TypeOK'
  BY DEF Serve, LookupHit, LookupMiss, Rename, Record, Finish, Fail, FailStored
<1>0. /\ req[r] \in Reqs /\ req[r].key \in Keys /\ Upload(r) \in Keys \X Users
  BY DEF TypeOK, Reqs, Upload
<1>1. CASE LookupHit(r)
  <2> PICK n \in indexed[Upload(r)] : req' = [req EXCEPT ![r].pc = "stored", ![r].copy = n]
    BY <1>1 DEF LookupHit
  <2>1. n \in 0..MaxCopies
    BY <1>0 DEF TypeOK, Copies
  <2>2. [req[r] EXCEPT !.pc = "stored", !.copy = n] \in Reqs
    BY <1>0, <2>1 DEF Reqs, Phases
  <2>3. req' = [req EXCEPT ![r] = [req[r] EXCEPT !.pc = "stored", !.copy = n]]
    OBVIOUS
  <2> QED BY <1>1, <2>2, <2>3 DEF LookupHit, TypeOK
<1>2. CASE LookupMiss(r)
  <2>1. [req[r] EXCEPT !.pc = "missed"] \in Reqs
    BY <1>0 DEF Reqs, Phases
  <2>2. req' = [req EXCEPT ![r] = [req[r] EXCEPT !.pc = "missed"]]
    BY <1>2 DEF LookupMiss
  <2> QED BY <1>2, <2>1, <2>2 DEF LookupMiss, TypeOK
<1>3. CASE Rename(r)
  <2>1. copies[Upload(r)] + 1 \in 0..MaxCopies
    BY <1>0, <1>3 DEF Rename, TypeOK
  <2>2. [req[r] EXCEPT !.pc = "renamed", !.copy = copies[Upload(r)] + 1] \in Reqs
    BY <1>0, <2>1 DEF Reqs, Phases
  <2>3. req' = [req EXCEPT ![r] = [req[r] EXCEPT !.pc = "renamed", !.copy = copies[Upload(r)] + 1]]
    BY <1>3 DEF Rename
  <2> QED BY <1>0, <1>3, <2>1, <2>2, <2>3 DEF Rename, TypeOK
<1>4. CASE Record(r)
  <2>1. [req[r] EXCEPT !.pc = "stored"] \in Reqs
    BY <1>0 DEF Reqs, Phases
  <2>2. req' = [req EXCEPT ![r] = [req[r] EXCEPT !.pc = "stored"]]
    BY <1>4 DEF Record
  <2>3. req[r].pc = "renamed" /\ req[r].copy \in 0..MaxCopies
    BY <1>0, <1>4 DEF Record, Reqs
  <2>4. req[r].copy \in Copies
    BY <1>4, <2>3 DEF CopyIsStored, Copies
  <2> QED BY <1>0, <1>4, <2>1, <2>2, <2>4 DEF Record, TypeOK
<1>5. CASE Finish(r)
  <2>1. <<req[r].user, req[r].copy>> \in Responses
    BY <1>0, <1>5 DEF Finish, CopyIsStored, Reqs, Responses, Copies
  <2>2. row' \in [Keys -> Rows \cup {NoRow}]
    BY <1>0, <1>5, <2>1, FinishRowType DEF Finish
  <2> QED BY <1>0, <1>5, <2>1, <2>2 DEF Finish, TypeOK
<1>6. CASE Fail(r)
  BY <1>0, <1>6 DEF Fail, AbandonRow, TypeOK
<1>7. CASE FailStored(r)
  <2>1. req[r].pc \in {"renamed", "stored"}
    BY <1>0, <1>7 DEF FailStored, NothingStored, Reqs, Phases
  <2>2. <<req[r].user, req[r].copy>> \in Responses
    BY <1>0, <2>1 DEF CopyIsStored, Reqs, Responses, Copies
  <2>3. FinishRow(req[r].key, <<req[r].user, req[r].copy>>) => row' \in [Keys -> Rows \cup {NoRow}]
    BY <1>0, <2>2, FinishRowType
  <2>4. AbandonRow(req[r].key) \/ row' = row => row' \in [Keys -> Rows \cup {NoRow}]
    BY <1>0 DEF AbandonRow, TypeOK
  <2>5. row' \in [Keys -> Rows \cup {NoRow}]
    BY <1>7, <2>3, <2>4 DEF FailStored
  <2> QED BY <1>0, <1>7, <2>5 DEF FailStored, TypeOK
<1> QED BY <1>1, <1>2, <1>3, <1>4, <1>5, <1>6, <1>7 DEF Serve

\* The world around the handler keeps the type.
LEMMA WorldType ==
  ASSUME TypeOK, Tick \/ Crash \/ Start \/ \E k \in Keys : Rot(k)
  PROVE  TypeOK'
<1>1. CASE Tick
  <2>1. \A k \in Keys : Older(row[k]) \in Rows \cup {NoRow}
    <3> TAKE k \in Keys
    <3>1. row[k] \in Rows \cup {NoRow}
      BY DEF TypeOK
    <3>2. row[k] \in Rows /\ ~(row[k].age > Ttl) => [row[k] EXCEPT !.age = @ + 1] \in Rows
      BY DEF Rows
    <3> QED BY <3>1, <3>2 DEF Older
  <2> QED BY <1>1, <2>1 DEF Tick, TypeOK
<1>2. CASE Crash
  <2>1. excused' \subseteq Keys
    BY <1>2 DEF Crash, TypeOK, Reqs
  <2>2. /\ req' = [r \in Requests |-> NoReq] /\ crashes' = crashes + 1 /\ up' = FALSE
        /\ UNCHANGED <<row, copies, indexed, answers>>
    BY <1>2, Zenon DEF Crash
  <2>3. crashes' \in Nat /\ req' \in [Requests -> Reqs \cup {NoReq}]
    BY <2>2 DEF TypeOK
  <2> QED BY <2>1, <2>2, <2>3, Zenon DEF TypeOK
<1>3. CASE Start
  BY <1>3 DEF Start, TypeOK, Prunable
<1>4. ASSUME NEW k \in Keys, Rot(k)
      PROVE  TypeOK'
  <2>1. [row[k] EXCEPT !.resp = Unreadable] \in Rows
    BY <1>4 DEF Rot, TypeOK, Rows
  <2>2. row' = [row EXCEPT ![k] = [row[k] EXCEPT !.resp = Unreadable]]
    BY <1>4 DEF Rot
  <2> QED BY <1>4, <2>1, <2>2 DEF Rot, TypeOK
<1> QED BY <1>1, <1>2, <1>3, <1>4

------------------------------------------------------------------------------
\* What a step does to the strengthening.

\* At most one request takes part in a step; the others are left as they are.
LEMMA OthersKeep ==
  ASSUME TypeOK, NEW r \in Requests, NEW q \in Requests, q # r,
         Serve(r) \/ \E k \in Keys, u \in Users : Begin(r, k, u)
  PROVE  req'[q] = req[q]
<1>1. CASE Serve(r)
  BY <1>1 DEF Serve, LookupHit, LookupMiss, Rename, Record, Finish, Fail, FailStored, TypeOK
<1>2. ASSUME NEW k \in Keys, NEW u \in Users, Begin(r, k, u)
      PROVE  req'[q] = req[q]
  BY <1>2 DEF Begin, BeginFresh, BeginTakeOver, BeginDiscard, BeginReplay, StartWork, TypeOK
<1> QED BY <1>1, <1>2

\* begin() claims a key only if nobody works on it.
LEMMA BeginInv ==
  ASSUME Inv, NEW r \in Requests, NEW k \in Keys, NEW u \in Users, Begin(r, k, u)
  PROVE  Inv'
<1>0. TypeOK'
  BY BeginType DEF Inv
<1>1. CASE BeginReplay(r, k, u)
  <2>1. /\ UNCHANGED <<up, row, req>>
        /\ answers' = [answers EXCEPT ![k] = @ \cup {row[k].resp}]
        /\ row[k] # NoRow /\ row[k].status = "done" /\ row[k].resp # Unreadable
    BY <1>1 DEF Begin, BeginReplay
  <2>2. ClaimHeld' /\ OneWorker' /\ DownIsIdle' /\ CopyIsStored' /\ DoneHasResponse' /\ ReplayIsOwn'
    BY <2>1 DEF Inv, ClaimHeld, OneWorker, Working, DownIsIdle, CopyIsStored,
                DoneHasResponse, ReplayIsOwn
  <2>3. AnswerStands'
    BY <2>1 DEF Inv, TypeOK, AnswerStands
  <2> QED BY <1>0, <2>2, <2>3 DEF Inv
<1>2. CASE BeginFresh(r, k, u) \/ BeginTakeOver(r, k, u) \/ BeginDiscard(r, k, u)
  <2>1. /\ up /\ up' = up /\ req[r] = NoReq
        /\ req' = [req EXCEPT ![r] = [pc |-> "claimed", key |-> k, user |-> u, copy |-> 0]]
    BY <1>2 DEF Begin, BeginFresh, BeginTakeOver, BeginDiscard, StartWork
  <2>2. \A q \in Requests : ~Working(q, k)
    <3> SUFFICES ASSUME NEW q \in Requests, Working(q, k)
                 PROVE  FALSE
      OBVIOUS
    <3>1. row[k] # NoRow /\ row[k].status = "in_progress" /\ row[k].age < Stale
      BY DEF Inv, ClaimHeld
    <3>2. row[k].age \in Nat
      BY <3>1 DEF Inv, TypeOK, Rows
    <3>3. CASE BeginFresh(r, k, u)
      BY <3>1, <3>3 DEF BeginFresh
    <3>4. CASE BeginTakeOver(r, k, u)
      BY <3>1, <3>2, <3>4 DEF BeginTakeOver, CanTakeOver
    <3>5. CASE BeginDiscard(r, k, u)
      BY <3>1, <3>5 DEF BeginDiscard, MustDiscard
    <3> QED BY <1>2, <3>3, <3>4, <3>5
  <2>3. /\ row'[k] # NoRow /\ row'[k].status = "in_progress" /\ row'[k].user = u
        /\ row'[k].age < Stale
        /\ row'[k].resp \in Responses => row[k] # NoRow /\ row[k].resp = row'[k].resp /\ row[k].user = u
        /\ \A j \in Keys \ {k} : row'[j] = row[j]
    <3>1. CASE BeginFresh(r, k, u) \/ BeginDiscard(r, k, u)
      <4>1. row' = [row EXCEPT ![k] = FreshClaim(u)]
        BY <3>1 DEF BeginFresh, BeginDiscard
      <4>2. FreshClaim(u) # NoRow
        BY FreshClaimType
      <4> QED BY <4>1, <4>2 DEF FreshClaim, Inv, TypeOK
    <3>2. CASE BeginTakeOver(r, k, u)
      <4>1. row' = [row EXCEPT ![k] = [row[k] EXCEPT !.age = 0]]
        BY <3>2 DEF BeginTakeOver
      <4>2. row[k] \in Rows /\ row[k].user = u /\ row[k].status = "in_progress"
        BY <3>2 DEF BeginTakeOver, CanTakeOver, Inv, TypeOK
      <4>3. [row[k] EXCEPT !.age = 0] \in Rows
        BY <4>2 DEF Rows
      <4>4. row'[k] = [row[k] EXCEPT !.age = 0] /\ \A j \in Keys \ {k} : row'[j] = row[j]
        BY <4>1 DEF Inv, TypeOK
      <4> QED BY <4>2, <4>3, <4>4 DEF Rows
    <3> QED BY <1>2, <3>1, <3>2
  <2>4. answers'[k] = {} /\ \A j \in Keys \ {k} : answers'[j] = answers[j]
    <3>1. CASE BeginDiscard(r, k, u)
      BY <3>1 DEF BeginDiscard, Inv, TypeOK
    <3>2. CASE BeginFresh(r, k, u) \/ BeginTakeOver(r, k, u)
      <4>1. answers' = answers /\ (row[k] = NoRow \/ row[k].status = "in_progress")
        BY <3>2 DEF BeginFresh, BeginTakeOver, CanTakeOver
      <4>2. answers[k] # {} => row[k] # NoRow /\ row[k].status = "done"
        BY DEF Inv, AnswerStands
      <4> QED BY <4>1, <4>2
    <3> QED BY <1>2, <3>1, <3>2
  <2>5. \A q \in Requests : q # r => req'[q] = req[q]
    BY <2>1 DEF Inv, TypeOK
  <2>6. \A q \in Requests, j \in Keys : Working(q, j)' <=> IF q = r THEN j = k ELSE Working(q, j)
    <3>1. [pc |-> "claimed", key |-> k, user |-> u, copy |-> 0] \in Reqs
      BY DEF Reqs, Phases
    <3>2. req'[r] = [pc |-> "claimed", key |-> k, user |-> u, copy |-> 0]
      BY <2>1 DEF Inv, TypeOK
    <3>3. req'[r] # NoReq /\ req'[r].key = k
      BY <3>1, <3>2
    <3> QED BY <2>5, <3>3 DEF Working
  <2>7. ClaimHeld'
    BY <2>1, <2>2, <2>3, <2>5, <2>6 DEF Inv, ClaimHeld, TypeOK
  <2>8. OneWorker'
    BY <2>2, <2>6 DEF Inv, OneWorker
  <2>9. DownIsIdle' /\ CopyIsStored'
    BY <2>1, <2>5 DEF Inv, DownIsIdle, CopyIsStored, TypeOK
  <2>10. DoneHasResponse' /\ ReplayIsOwn' /\ AnswerStands'
    BY <2>3, <2>4 DEF Inv, DoneHasResponse, ReplayIsOwn, AnswerStands
  <2> QED BY <1>0, <2>7, <2>8, <2>9, <2>10 DEF Inv
<1> QED BY <1>1, <1>2 DEF Begin

\* The handler's own row is the one it claimed, so what it writes is its own.
LEMMA ServeInv ==
  ASSUME Inv, NEW r \in Requests, Serve(r)
  PROVE  Inv'
<1> SUFFICES ASSUME req[r] # NoReq
             PROVE  Inv'
  BY DEF Serve, LookupHit, LookupMiss, Rename, Record, Finish, Fail, FailStored
<1> DEFINE k == req[r].key
<1>0. /\ TypeOK' /\ req[r] \in Reqs /\ k \in Keys
      /\ \A q \in Requests : q # r => req'[q] = req[q]
  BY ServeType, OthersKeep DEF Inv, TypeOK, Reqs
<1>1. /\ row[k] # NoRow /\ row[k].status = "in_progress" /\ row[k].user = req[r].user
      /\ row[k].age < Stale /\ answers[k] = {}
  BY <1>0 DEF Inv, ClaimHeld, Working, AnswerStands
<1>2. \A q \in Requests : q # r => ~Working(q, k)
  BY <1>0 DEF Inv, OneWorker, Working
<1>3. up /\ up' = up
  BY DEF Inv, DownIsIdle, Serve, LookupHit, LookupMiss, Rename, Record, Finish, Fail, FailStored
<1>4. CASE LookupHit(r) \/ LookupMiss(r) \/ Rename(r) \/ Record(r)
  <2>1. UNCHANGED <<row, answers>>
    BY <1>4 DEF LookupHit, LookupMiss, Rename, Record
  <2>2. req'[r] # NoReq => req'[r].key = k /\ req'[r].user = req[r].user
    BY <1>0, <1>4 DEF LookupHit, LookupMiss, Rename, Record, Inv, TypeOK, Reqs
  <2>3. req'[r] # NoReq /\ req'[r].pc \in {"renamed", "stored"} => req'[r].copy # 0
    <3>1. CASE LookupHit(r)
      <4>1. PICK n \in indexed[Upload(r)] : req' = [req EXCEPT ![r].pc = "stored", ![r].copy = n]
        BY <3>1 DEF LookupHit
      <4>2. n # 0
        BY <1>0 DEF Inv, TypeOK, Upload, Copies, Reqs
      <4> QED BY <1>0, <4>1, <4>2 DEF Inv, TypeOK, Reqs
    <3>2. CASE LookupMiss(r)
      BY <1>0, <3>2 DEF LookupMiss, Inv, TypeOK, Reqs
    <3>3. CASE Rename(r)
      <4>1. copies[Upload(r)] \in Nat
        BY <1>0 DEF Inv, TypeOK, Upload, Reqs
      <4> QED BY <1>0, <3>3, <4>1 DEF Rename, Inv, TypeOK, Reqs
    <3>4. CASE Record(r)
      BY <1>0, <3>4 DEF Record, Inv, TypeOK, CopyIsStored, Reqs
    <3> QED BY <1>4, <3>1, <3>2, <3>3, <3>4
  <2>4. ClaimHeld' /\ OneWorker'
    BY <1>0, <1>1, <1>2, <2>1, <2>2 DEF Inv, ClaimHeld, OneWorker, Working
  <2>5. DownIsIdle' /\ CopyIsStored'
    BY <1>0, <1>3, <2>3 DEF Inv, DownIsIdle, CopyIsStored
  <2>6. DoneHasResponse' /\ ReplayIsOwn' /\ AnswerStands'
    BY <2>1 DEF Inv, DoneHasResponse, ReplayIsOwn, AnswerStands
  <2> QED BY <1>0, <2>4, <2>5, <2>6 DEF Inv
<1>5. CASE Finish(r) \/ Fail(r) \/ FailStored(r)
  <2>1. req'[r] = NoReq
    BY <1>5 DEF Finish, Fail, FailStored, Inv, TypeOK
  <2>2. \A j \in Keys \ {k} : row'[j] = row[j] /\ answers'[j] = answers[j]
    BY <1>0, <1>5 DEF Finish, Fail, FailStored, FinishRow, AbandonRow, Inv, TypeOK
  <2>3. ClaimHeld' /\ OneWorker'
    BY <1>0, <1>2, <2>1, <2>2 DEF Inv, ClaimHeld, OneWorker, Working
  <2>4. DownIsIdle' /\ CopyIsStored'
    BY <1>0, <1>3, <2>1 DEF Inv, DownIsIdle, CopyIsStored
  <2>5. ASSUME answers' = answers, row'[k] = NoRow \/ row'[k] = row[k]
        PROVE  Inv'
    <3>1. DoneHasResponse' /\ ReplayIsOwn' /\ AnswerStands'
      BY <1>1, <2>2, <2>5 DEF Inv, DoneHasResponse, ReplayIsOwn, AnswerStands
    <3> QED BY <1>0, <2>3, <2>4, <3>1 DEF Inv
  <2>7. CASE Fail(r)
    <3>1. answers' = answers /\ (row'[k] = NoRow \/ row'[k] = row[k])
      BY <1>0, <1>1, <2>7 DEF Fail, AbandonRow, Inv, TypeOK
    <3> QED BY <2>5, <3>1
  <2> DEFINE resp == <<req[r].user, req[r].copy>>
  <2>6. ASSUME FinishRow(k, resp), req[r].pc = "stored",
               answers' = answers \/ answers' = [answers EXCEPT ![k] = @ \cup {resp}]
        PROVE  Inv'
    <3>1. row' = [row EXCEPT ![k] = [row[k] EXCEPT !.status = "done", !.resp = resp]]
      BY <1>1, <2>6 DEF FinishRow
    <3>2. row'[k] = [row[k] EXCEPT !.status = "done", !.resp = resp]
      BY <1>0, <3>1 DEF Inv, TypeOK
    <3>3. row[k] \in Rows
      BY <1>0, <1>1 DEF Inv, TypeOK
    <3>4. /\ row'[k].status = "done" /\ row'[k].resp = resp
          /\ row'[k].user = req[r].user
      BY <1>1, <3>2, <3>3 DEF Rows
    <3>5. answers'[k] \in {{}, {resp}}
      BY <1>0, <1>1, <2>6 DEF Inv, TypeOK
    <3>6. resp \in Responses /\ resp[1] = req[r].user
      BY <1>0, <2>6 DEF Inv, CopyIsStored, Reqs, Responses, Copies
    <3>7. row'[k] \in Rows /\ resp # NoResp
      BY <1>0, <3>1, <3>3, <3>6 DEF Inv, TypeOK, Rows
    <3>8. DoneHasResponse' /\ ReplayIsOwn' /\ AnswerStands'
      BY <2>2, <3>4, <3>5, <3>6, <3>7 DEF Inv, DoneHasResponse, ReplayIsOwn, AnswerStands
    <3> QED BY <1>0, <2>3, <2>4, <3>8 DEF Inv
  <2>8. CASE Finish(r)
    BY <2>6, <2>8 DEF Finish
  <2>9. CASE FailStored(r)
    <3>1. answers' = answers
      BY <2>9 DEF FailStored
    <3>2. CASE AbandonRow(k) \/ row' = row
      <4>1. row'[k] = NoRow \/ row'[k] = row[k]
        BY <1>0, <1>1, <3>2 DEF AbandonRow, Inv, TypeOK
      <4> QED BY <2>5, <3>1, <4>1
    <3>3. CASE req[r].pc = "stored" /\ FinishRow(k, resp)
      BY <2>6, <3>1, <3>3
    <3> QED BY <2>9, <3>2, <3>3 DEF FailStored
  <2> QED BY <1>5, <2>7, <2>8, <2>9
<1> QED BY <1>4, <1>5 DEF Serve

\* Time passes only as long as no claim in use gets stale.
LEMMA TickInv ==
  ASSUME ~HolderOutlivesClaim, Inv, Tick
  PROVE  Inv'
<1>0. TypeOK' /\ UNCHANGED <<up, req, answers>>
  BY WorldType DEF Inv, Tick
<1>1. \A j \in Keys :
         /\ row'[j] = NoRow <=> row[j] = NoRow
         /\ row[j] # NoRow => /\ row'[j].user = row[j].user
                              /\ row'[j].status = row[j].status
                              /\ row'[j].resp = row[j].resp
                              /\ row'[j].age <= row[j].age + 1
  <2> TAKE j \in Keys
  <2>1. row'[j] = Older(row[j])
    BY DEF Tick, Inv, TypeOK
  <2>2. CASE row[j] = NoRow
    BY <2>1, <2>2 DEF Older
  <2>3. CASE row[j] # NoRow
    <3>1. row[j] \in Rows
      BY <2>3 DEF Inv, TypeOK
    <3>2. CASE row[j].age > Ttl
      BY <2>1, <2>3, <3>1, <3>2 DEF Older, Rows
    <3>3. CASE ~(row[j].age > Ttl)
      <4>1. row'[j] = [row[j] EXCEPT !.age = row[j].age + 1]
        BY <2>1, <2>3, <3>3 DEF Older
      <4>2. row'[j] \in Rows
        BY <3>1, <3>3, <4>1 DEF Rows
      <4> QED BY <2>3, <3>1, <4>1, <4>2 DEF Rows
    <3> QED BY <3>2, <3>3
  <2> QED BY <2>2, <2>3
<1>2. ClaimHeld'
  <2> SUFFICES ASSUME NEW r \in Requests, NEW j \in Keys, Working(r, j)'
               PROVE  /\ row'[j] # NoRow /\ row'[j].status = "in_progress"
                      /\ row'[j].user = req'[r].user /\ row'[j].age < Stale
    BY DEF ClaimHeld
  <2>1. Working(r, j) /\ req[r].key = j /\ req[r] # NoReq
    BY <1>0 DEF Working
  <2>2. row[j] # NoRow /\ row[j].status = "in_progress" /\ row[j].user = req[r].user
    BY <2>1 DEF Inv, ClaimHeld
  <2>3. row[j].age + 1 < Stale
    BY <2>1 DEF Tick, MayTick
  <2>4. row[j].age \in Nat /\ row'[j].age \in Nat
    BY <1>0, <1>1, <2>2 DEF Inv, TypeOK, Rows
  <2> QED BY <1>0, <1>1, <2>2, <2>3, <2>4
<1>3. OneWorker' /\ DownIsIdle' /\ CopyIsStored'
  BY <1>0 DEF Inv, OneWorker, Working, DownIsIdle, CopyIsStored
<1>4. DoneHasResponse' /\ ReplayIsOwn' /\ AnswerStands'
  BY <1>0, <1>1 DEF Inv, DoneHasResponse, ReplayIsOwn, AnswerStands
<1> QED BY <1>0, <1>2, <1>3, <1>4 DEF Inv

\* A crash ends every request and keeps every row.
LEMMA CrashInv ==
  ASSUME Inv, Crash
  PROVE  Inv'
<1>0. TypeOK'
  BY WorldType DEF Inv
<1>1. req' = [r \in Requests |-> NoReq] /\ UNCHANGED <<row, answers>>
  BY Zenon DEF Crash
<1>2. ClaimHeld' /\ OneWorker' /\ DownIsIdle' /\ CopyIsStored'
  BY <1>1 DEF ClaimHeld, OneWorker, DownIsIdle, CopyIsStored, Working
<1>3. DoneHasResponse' /\ ReplayIsOwn' /\ AnswerStands'
  BY <1>1 DEF Inv, DoneHasResponse, ReplayIsOwn, AnswerStands
<1> QED BY <1>0, <1>2, <1>3 DEF Inv

\* The prune of a start finds no request at work.
LEMMA StartInv ==
  ASSUME Inv, Start
  PROVE  Inv'
<1>0. TypeOK'
  BY WorldType DEF Inv
<1>1. \A r \in Requests : req'[r] = NoReq
  BY DEF Inv, DownIsIdle, Start
<1>2. ClaimHeld' /\ OneWorker' /\ DownIsIdle' /\ CopyIsStored'
  BY <1>1 DEF ClaimHeld, OneWorker, DownIsIdle, CopyIsStored, Working
<1>3. \A j \in Keys :
         \/ row'[j] = NoRow /\ answers'[j] = {}
         \/ row'[j] = row[j] /\ answers'[j] = answers[j]
  BY DEF Start, Inv, TypeOK
<1>4. DoneHasResponse' /\ ReplayIsOwn' /\ AnswerStands'
  BY <1>3 DEF Inv, DoneHasResponse, ReplayIsOwn, AnswerStands
<1> QED BY <1>0, <1>2, <1>4 DEF Inv

\* A response that rots does not come back as another.
LEMMA RotInv ==
  ASSUME Inv, NEW k \in Keys, Rot(k)
  PROVE  Inv'
<1>0. TypeOK' /\ UNCHANGED <<up, req, answers>>
  BY WorldType DEF Inv, Rot
<1>1. row[k] \in Rows /\ row' = [row EXCEPT ![k] = [row[k] EXCEPT !.resp = Unreadable]]
  BY DEF Rot, Inv, TypeOK
<1>2. row'[k] = [row[k] EXCEPT !.resp = Unreadable] /\ \A j \in Keys \ {k} : row'[j] = row[j]
  BY <1>1 DEF Inv, TypeOK
<1>3. /\ row'[k] \in Rows /\ row'[k].user = row[k].user /\ row'[k].status = row[k].status
      /\ row'[k].age = row[k].age /\ row'[k].resp = Unreadable
  BY <1>1, <1>2 DEF Rows
<1>4. row[k] # NoRow /\ row'[k] # NoRow
  BY <1>1, <1>3
<1>5. ClaimHeld'
  <2>1. \A j \in Keys : row'[j] # NoRow <=> row[j] # NoRow
    BY <1>2, <1>4
  <2>2. \A j \in Keys : row[j] # NoRow => /\ row'[j].user = row[j].user
                                         /\ row'[j].status = row[j].status
                                         /\ row'[j].age = row[j].age
    BY <1>2, <1>3
  <2> QED BY <1>0, <2>1, <2>2 DEF Inv, ClaimHeld, Working
<1>6. OneWorker' /\ DownIsIdle' /\ CopyIsStored'
  BY <1>0 DEF Inv, OneWorker, Working, DownIsIdle, CopyIsStored
<1>7. DoneHasResponse' /\ ReplayIsOwn' /\ AnswerStands'
  BY <1>0, <1>2, <1>3, <1>4 DEF Inv, DoneHasResponse, ReplayIsOwn, AnswerStands
<1> QED BY <1>0, <1>5, <1>6, <1>7 DEF Inv

------------------------------------------------------------------------------
\* Inv is an inductive invariant, if no request outlives its claim.
THEOREM Invariance == ASSUME ~HolderOutlivesClaim PROVE Spec => []Inv
<1>1. Init => Inv
  BY InitTypeOK DEF Init, Inv, ClaimHeld, OneWorker, DownIsIdle, CopyIsStored, DoneHasResponse,
                    ReplayIsOwn, AnswerStands, Working
<1>2. Inv /\ [Next]_vars => Inv'
  <2> SUFFICES ASSUME Inv, [Next]_vars
               PROVE  Inv'
    OBVIOUS
  <2>1. CASE Next
    BY <2>1, ServeInv, BeginInv, TickInv, CrashInv, StartInv, RotInv DEF Next
  <2>2. CASE UNCHANGED vars
    BY <2>2 DEF vars, Inv, TypeOK, ClaimHeld, OneWorker, DownIsIdle, CopyIsStored, DoneHasResponse,
                ReplayIsOwn, AnswerStands, Working
  <2> QED BY <2>1, <2>2
<1> QED BY <1>1, <1>2, PTL DEF Spec

\* Every value stays in its type.
THEOREM TypeCorrect == ASSUME ~HolderOutlivesClaim PROVE Spec => []TypeOK
<1>1. Inv => TypeOK
  BY DEF Inv
<1> QED BY <1>1, Invariance, PTL

\* Two requests never perform the same upload at once.
THEOREM NeverTwoWorkers == ASSUME ~HolderOutlivesClaim PROVE Spec => []OneWorker
<1>1. Inv => OneWorker
  BY DEF Inv
<1> QED BY <1>1, Invariance, PTL

\* A success, once answered, is what the key answers until it is forgotten, and a key
\* replays to a user only what was stored for that user.
THEOREM AnswersStand == ASSUME ~HolderOutlivesClaim PROVE Spec => []AnswersHold
<1>1. Inv => AnswersHold
  BY DEF Inv, AnswersHold
<1> QED BY <1>1, Invariance, PTL

------------------------------------------------------------------------------
\* A stored copy is recorded for its user, or a request is about to record it.
AtHome(k, u) == /\ row[k] # NoRow /\ row[k].user = u
                /\ \/ row[k].status = "done"
                   \/ \E r \in Requests : Working(r, k) /\ req[r].pc \in {"renamed", "stored"}

OneAtHome == \A k \in Keys, u \in Users :
    k \notin excused /\ copies[<<k, u>>] # 0 => copies[<<k, u>>] = 1 /\ AtHome(k, u)

\* Nobody works on a key that begin() hands out.
LEMMA HandedOut ==
  ASSUME Inv, NEW r \in Requests, NEW k \in Keys, NEW u \in Users,
         BeginFresh(r, k, u) \/ BeginTakeOver(r, k, u) \/ BeginDiscard(r, k, u)
  PROVE  \A q \in Requests : ~Working(q, k)
<1> SUFFICES ASSUME NEW q \in Requests, Working(q, k)
             PROVE  FALSE
  OBVIOUS
<1>1. row[k] # NoRow /\ row[k].status = "in_progress" /\ row[k].age < Stale
  BY DEF Inv, ClaimHeld
<1>2. row[k].age \in Nat
  BY <1>1 DEF Inv, TypeOK, Rows
<1>3. CASE BeginFresh(r, k, u)
  BY <1>1, <1>3 DEF BeginFresh
<1>4. CASE BeginTakeOver(r, k, u)
  BY <1>1, <1>2, <1>4 DEF BeginTakeOver, CanTakeOver
<1>5. CASE BeginDiscard(r, k, u)
  BY <1>1, <1>5 DEF BeginDiscard, MustDiscard
<1> QED BY <1>3, <1>4, <1>5

\* A step that leaves a key's row, its copies and its workers alone.
LEMMA StaysAtHome ==
  ASSUME NEW k \in Keys, NEW u \in Users, AtHome(k, u), row'[k] = row[k],
         \A r \in Requests : Working(r, k) => req'[r] = req[r]
  PROVE  AtHome(k, u)'
  BY DEF AtHome, Working

\* begin() hands out no key of which a copy is stored, unless it has an excuse.
LEMMA BeginStored ==
  ASSUME Inv, OneAtHome, NEW r \in Requests, NEW k \in Keys, NEW u \in Users, Begin(r, k, u)
  PROVE  OneAtHome'
<1>1. UNCHANGED copies /\ req[r] = NoReq /\ excused \subseteq excused'
  BY DEF Begin, BeginFresh, BeginTakeOver, BeginDiscard, BeginReplay
<1>2. CASE BeginReplay(r, k, u)
  BY <1>1, <1>2 DEF BeginReplay, OneAtHome, AtHome, Working
<1>3. CASE BeginFresh(r, k, u) \/ BeginTakeOver(r, k, u) \/ BeginDiscard(r, k, u)
  <2> SUFFICES ASSUME NEW j \in Keys, NEW v \in Users, j \notin excused', copies[<<j, v>>] # 0
               PROVE  copies[<<j, v>>] = 1 /\ AtHome(j, v)'
    BY <1>1 DEF OneAtHome
  <2>1. copies[<<j, v>>] = 1 /\ AtHome(j, v)
    BY <1>1 DEF OneAtHome
  <2>2. CASE j = k
    <3>1. row[k] # NoRow /\ row[k].status = "done"
      BY <1>3, <2>1, <2>2, HandedOut DEF AtHome
    <3>2. BeginDiscard(r, k, u)
      BY <1>3, <3>1 DEF BeginFresh, BeginTakeOver, CanTakeOver
    <3> QED BY <2>2, <3>2 DEF BeginDiscard
  <2>3. CASE j # k
    <3>1. row'[j] = row[j]
      BY <1>3, <2>3 DEF BeginFresh, BeginTakeOver, BeginDiscard, Inv, TypeOK
    <3>2. \A q \in Requests : Working(q, j) => req'[q] = req[q]
      BY <1>1, <1>3 DEF BeginFresh, BeginTakeOver, BeginDiscard, StartWork, Working, Inv, TypeOK
    <3> QED BY <2>1, <3>1, <3>2, StaysAtHome
  <2> QED BY <2>2, <2>3
<1> QED BY <1>2, <1>3 DEF Begin

\* The handler stores once what it claimed, and is excused when it fails from then on.
LEMMA ServeStored ==
  ASSUME Inv, OneAtHome, NEW r \in Requests, Serve(r)
  PROVE  OneAtHome'
<1> SUFFICES ASSUME req[r] # NoReq
             PROVE  OneAtHome'
  BY DEF Serve, LookupHit, LookupMiss, Rename, Record, Finish, Fail, FailStored
<1> PICK k \in Keys, u \in Users : req[r].key = k /\ req[r].user = u
  BY DEF Inv, TypeOK, Reqs
<1>0. /\ req[r] \in Reqs /\ Working(r, k) /\ (UNCHANGED excused \/ FailStored(r))
      /\ \A q \in Requests : q # r => req'[q] = req[q]
  BY OthersKeep DEF Inv, TypeOK, Reqs, Working, Serve, LookupHit, LookupMiss, Rename, Record, Finish, Fail, FailStored
<1>1. /\ row[k] # NoRow /\ row[k].status = "in_progress" /\ row[k].user = u
      /\ \A q \in Requests : Working(q, k) => q = r
  BY <1>0 DEF Inv, ClaimHeld, OneWorker
<1>2. ASSUME NEW j \in Keys, NEW v \in Users, j # k, j \notin excused, copies[<<j, v>>] # 0
      PROVE  copies[<<j, v>>] = 1 /\ AtHome(j, v)'
  <2>1. copies[<<j, v>>] = 1 /\ AtHome(j, v)
    BY <1>2 DEF OneAtHome
  <2>2. row'[j] = row[j]
    BY <1>0, <1>2 DEF Serve, LookupHit, LookupMiss, Rename, Record, Finish, Fail, FailStored, FinishRow, AbandonRow,
                      Inv, TypeOK
  <2>3. \A q \in Requests : Working(q, j) => req'[q] = req[q]
    BY <1>0, <1>2 DEF Working
  <2> QED BY <2>1, <2>2, <2>3, StaysAtHome
<1>3. \A v \in Users : k \notin excused /\ copies[<<k, v>>] # 0
                         => copies[<<k, v>>] = 1 /\ v = u /\ req[r].pc \in {"renamed", "stored"}
  BY <1>0, <1>1 DEF OneAtHome, AtHome
<1>4. CASE LookupHit(r) \/ LookupMiss(r) \/ Fail(r)
  <2>1. UNCHANGED copies /\ req[r].pc \notin {"renamed", "stored"}
    BY <1>4 DEF LookupHit, LookupMiss, Fail, NothingStored
  <2>2. UNCHANGED excused
    BY <1>4 DEF LookupHit, LookupMiss, Fail
  <2> QED BY <1>0, <1>2, <1>3, <2>1, <2>2 DEF OneAtHome
<1>5. CASE Rename(r)
  <2>1. /\ req[r].pc = "missed" /\ copies' = [copies EXCEPT ![<<k, u>>] = @ + 1] /\ UNCHANGED row
        /\ req' = [req EXCEPT ![r] = [req[r] EXCEPT !.pc = "renamed", !.copy = copies[<<k, u>>] + 1]]
    BY <1>5 DEF Rename, Upload
  <2>2. req'[r].pc = "renamed" /\ req'[r].key = k /\ req'[r] # NoReq
    <3>1. copies[<<k, u>>] + 1 \in 0..MaxCopies
      BY <1>0, <1>5 DEF Rename, Upload, Inv, TypeOK
    <3>2. req'[r] = [req[r] EXCEPT !.pc = "renamed", !.copy = copies[<<k, u>>] + 1]
      BY <2>1 DEF Inv, TypeOK
    <3>3. req'[r] \in Reqs
      BY <1>0, <3>1, <3>2 DEF Reqs, Phases
    <3> QED BY <1>0, <3>2, <3>3 DEF Reqs
  <2>3. AtHome(k, u)'
    BY <1>0, <1>1, <2>1, <2>2 DEF AtHome, Working
  <2>4. \A j \in Keys, v \in Users : copies'[<<j, v>>] = IF j = k /\ v = u THEN copies[<<k, u>>] + 1
                                                         ELSE copies[<<j, v>>]
    BY <1>0, <2>1 DEF Inv, TypeOK
  <2>6. UNCHANGED excused
    BY <1>5 DEF Rename
  <2>5. k \notin excused => \A v \in Users : copies[<<k, v>>] = 0
    BY <1>3, <2>1
  <2> QED BY <1>0, <1>2, <2>3, <2>4, <2>5, <2>6 DEF OneAtHome
<1>6. CASE Record(r) \/ Finish(r)
  <2>1. UNCHANGED <<copies, excused>>
    BY <1>6 DEF Record, Finish
  <2>2. AtHome(k, u)'
    <3>1. CASE Record(r)
      <4>1. req' = [req EXCEPT ![r] = [req[r] EXCEPT !.pc = "stored"]] /\ UNCHANGED row
        BY <3>1 DEF Record
      <4>2. req'[r] \in Reqs /\ req'[r].pc = "stored" /\ req'[r].key = k
        BY <1>0, <4>1 DEF Inv, TypeOK, Reqs, Phases
      <4> QED BY <1>0, <1>1, <4>1, <4>2 DEF AtHome, Working
    <3>2. CASE Finish(r)
      <4> DEFINE resp == <<u, req[r].copy>>
      <4>1. row' = [row EXCEPT ![k] = [row[k] EXCEPT !.status = "done", !.resp = resp]]
        BY <1>1, <3>2 DEF Finish, FinishRow
      <4>2. row[k] \in Rows /\ resp \in Responses
        BY <1>0, <1>1, <3>2 DEF Inv, TypeOK, CopyIsStored, Finish, Reqs, Responses, Copies
      <4>3. row'[k] = [row[k] EXCEPT !.status = "done", !.resp = resp] /\ row'[k] \in Rows
        BY <1>0, <4>1, <4>2 DEF Inv, TypeOK, Rows
      <4>4. row'[k].status = "done" /\ row'[k].user = u /\ row'[k] # NoRow
        BY <1>1, <4>2, <4>3 DEF Rows
      <4> QED BY <4>4 DEF AtHome
    <3> QED BY <1>6, <3>1, <3>2
  <2> QED BY <1>0, <1>2, <1>3, <2>1, <2>2 DEF OneAtHome
<1>7. CASE FailStored(r)
  <2>1. UNCHANGED copies /\ excused' = excused \cup {k}
    BY <1>7 DEF FailStored
  <2> QED BY <1>2, <2>1 DEF OneAtHome
<1> QED BY <1>4, <1>5, <1>6, <1>7 DEF Serve

\* What the world does to the rows keeps the copies at home, or excuses them.
LEMMA WorldStored ==
  ASSUME Inv, OneAtHome, Tick \/ Crash \/ Start \/ \E k \in Keys : Rot(k)
  PROVE  OneAtHome'
<1>1. CASE Crash
  <2>1. /\ req' = [r \in Requests |-> NoReq] /\ UNCHANGED <<row, copies>>
        /\ excused' = excused \cup {req[r].key : r \in {q \in Requests :
                            req[q] # NoReq /\ req[q].pc \in {"renamed", "stored"}}}
    BY <1>1, Zenon DEF Crash
  <2> SUFFICES ASSUME NEW k \in Keys, NEW u \in Users, k \notin excused', copies[<<k, u>>] # 0
               PROVE  copies[<<k, u>>] = 1 /\ AtHome(k, u)'
    BY <2>1 DEF OneAtHome
  <2>2. copies[<<k, u>>] = 1 /\ AtHome(k, u)
    BY <2>1 DEF OneAtHome
  <2>3. \A r \in Requests : ~(Working(r, k) /\ req[r].pc \in {"renamed", "stored"})
    BY <2>1 DEF Working
  <2> QED BY <2>1, <2>2, <2>3 DEF AtHome
<1>2. CASE Start
  <2>1. /\ row' = [k \in Keys |-> IF k \in Prunable THEN NoRow ELSE row[k]]
        /\ excused' = excused \cup Prunable /\ UNCHANGED <<req, copies>>
    BY <1>2 DEF Start
  <2>2. \A k \in Keys : k \notin excused' => k \notin excused /\ row'[k] = row[k]
    BY <2>1
  <2> QED BY <2>1, <2>2, StaysAtHome DEF OneAtHome
<1>3. CASE Tick
  <2>1. UNCHANGED <<req, copies, excused>> /\ row' = [k \in Keys |-> Older(row[k])]
    BY <1>3 DEF Tick
  <2>2. \A k \in Keys : row[k] # NoRow => /\ row'[k] # NoRow /\ row'[k].user = row[k].user
                                          /\ row'[k].status = row[k].status
    <3> SUFFICES ASSUME NEW k \in Keys, row[k] # NoRow
                 PROVE  /\ row'[k] # NoRow /\ row'[k].user = row[k].user
                        /\ row'[k].status = row[k].status
      OBVIOUS
    <3>1. row[k] \in Rows /\ row'[k] = Older(row[k])
      BY <2>1 DEF Inv, TypeOK
    <3>2. CASE row[k].age > Ttl
      BY <3>1, <3>2 DEF Older
    <3>3. CASE ~(row[k].age > Ttl)
      <4>1. row'[k] = [row[k] EXCEPT !.age = row[k].age + 1]
        BY <3>1, <3>3 DEF Older
      <4>2. row'[k] \in Rows
        BY <3>1, <3>3, <4>1 DEF Rows
      <4> QED BY <3>1, <4>1, <4>2 DEF Rows
    <3> QED BY <3>2, <3>3
  <2> QED BY <2>1, <2>2 DEF OneAtHome, AtHome, Working
<1>4. ASSUME NEW k \in Keys, Rot(k) PROVE OneAtHome'
  <2>1. UNCHANGED <<req, copies, excused>> /\ row[k] \in Rows
        /\ row' = [row EXCEPT ![k] = [row[k] EXCEPT !.resp = Unreadable]]
    BY <1>4 DEF Rot, Inv, TypeOK
  <2>2. row'[k] = [row[k] EXCEPT !.resp = Unreadable] /\ \A j \in Keys \ {k} : row'[j] = row[j]
    BY <2>1 DEF Inv, TypeOK
  <2>3. row'[k] \in Rows /\ row'[k].user = row[k].user /\ row'[k].status = row[k].status
    BY <2>1, <2>2 DEF Rows
  <2>4. \A j \in Keys : row[j] # NoRow => /\ row'[j] # NoRow /\ row'[j].user = row[j].user
                                          /\ row'[j].status = row[j].status
    BY <2>2, <2>3
  <2> QED BY <2>1, <2>4 DEF OneAtHome, AtHome, Working
<1> QED BY <1>1, <1>2, <1>3, <1>4

\* An upload that is retried is stored once, but for the excuses: a death or a failure between the
\* rename and finish(), a prune, or a response that cannot be read.
THEOREM UploadsStoredOnce == ASSUME ~HolderOutlivesClaim PROVE Spec => []StoredOnce
<1>1. Init => OneAtHome
  BY DEF Init, OneAtHome
<1>2. Inv /\ OneAtHome /\ [Next]_vars => OneAtHome'
  <2> SUFFICES ASSUME Inv, OneAtHome, [Next]_vars
               PROVE  OneAtHome'
    OBVIOUS
  <2>1. CASE Next
    BY <2>1, ServeStored, BeginStored, WorldStored DEF Next
  <2>2. CASE UNCHANGED vars
    BY <2>2 DEF vars, OneAtHome, AtHome, Working
  <2> QED BY <2>1, <2>2
<1>3. Inv /\ OneAtHome => StoredOnce
  <2> SUFFICES ASSUME Inv, OneAtHome, NEW k \in Keys, NEW u \in Users, k \notin excused
               PROVE  copies[<<k, u>>] <= 1
    BY DEF StoredOnce
  <2> QED BY DEF Inv, TypeOK, OneAtHome
<1> QED BY <1>1, <1>2, <1>3, Invariance, PTL DEF Spec

------------------------------------------------------------------------------
\* The table without holders implements a lock with one.

\* The holder of the lock is the one request that works on the key.
LEMMA HolderIs ==
  ASSUME OneWorker, NEW k \in Keys
  PROVE  /\ \A r \in Requests : Working(r, k) => holderBar[k] = r
         /\ (\A r \in Requests : ~Working(r, k)) => holderBar[k] = NoReq
  BY DEF OneWorker, holderBar

\* And so after a step.
LEMMA HolderIsThen ==
  ASSUME OneWorker', NEW k \in Keys
  PROVE  /\ \A r \in Requests : Working(r, k)' => holderBar'[k] = r
         /\ (\A r \in Requests : ~Working(r, k)') => holderBar'[k] = NoReq
  BY DEF OneWorker, holderBar

\* The lock's view of a key depends on its workers and its row alone.
LEMMA SameHolder ==
  ASSUME NEW k \in Keys, \A r \in Requests : Working(r, k)' <=> Working(r, k)
  PROVE  holderBar'[k] = holderBar[k]
<1>1. (CHOOSE r \in Requests : Working(r, k)') = (CHOOSE r \in Requests : Working(r, k))
  OBVIOUS
<1> QED BY <1>1 DEF holderBar

LEMMA SameHolders ==
  ASSUME UNCHANGED req
  PROVE  holderBar' = holderBar
  BY DEF holderBar, Working

\* begin() takes the lock, or takes it again after a response that cannot be read.
LEMMA BeginTakes ==
  ASSUME Inv, Inv', NEW r \in Requests, NEW k \in Keys, NEW u \in Users, Begin(r, k, u)
  PROVE  [Claim!Next]_(Claim!claimVars)
<1>1. CASE BeginReplay(r, k, u)
  BY <1>1 DEF Begin, BeginReplay, Claim!claimVars, holderBar, outcomeBar, Working
<1>2. CASE BeginFresh(r, k, u) \/ BeginTakeOver(r, k, u) \/ BeginDiscard(r, k, u)
  <2>1. req[r] = NoReq
        /\ req' = [req EXCEPT ![r] = [pc |-> "claimed", key |-> k, user |-> u, copy |-> 0]]
    BY <1>2 DEF Begin, BeginFresh, BeginTakeOver, BeginDiscard, StartWork
  <2>2. [pc |-> "claimed", key |-> k, user |-> u, copy |-> 0] \in Reqs
    BY DEF Reqs, Phases
  <2>3. Working(r, k)' /\ \A j \in Keys \ {k}, q \in Requests : Working(q, j)' <=> Working(q, j)
    BY <2>1, <2>2 DEF Working, Inv, TypeOK
  <2>4. holderBar[k] = NoReq
    BY <1>2, HandedOut, HolderIs DEF Inv
  <2>5. holderBar'[k] = r
    BY <2>3, HolderIsThen DEF Inv
  <2>6. \A j \in Keys \ {k} : holderBar'[j] = holderBar[j]
    BY <2>3, SameHolder
  <2>7. holderBar' = [holderBar EXCEPT ![k] = r]
    <3>1. /\ holderBar = [j \in Keys |-> holderBar[j]]
          /\ holderBar' = [j \in Keys |-> holderBar'[j]]
      BY DEF holderBar
    <3> QED BY <2>5, <2>6, <3>1
  <2>8. \A j \in Keys \ {k} : row'[j] = row[j]
    BY <1>2 DEF BeginFresh, BeginTakeOver, BeginDiscard, Inv, TypeOK
  <2>9. row'[k] = NoRow \/ row'[k].status = "in_progress"
    <3>1. CASE BeginFresh(r, k, u) \/ BeginDiscard(r, k, u)
      BY <3>1 DEF BeginFresh, BeginDiscard, FreshClaim, Inv, TypeOK
    <3>2. CASE BeginTakeOver(r, k, u)
      <4>1. row[k] \in Rows /\ row[k].status = "in_progress"
        BY <3>2 DEF BeginTakeOver, CanTakeOver, Inv, TypeOK
      <4>2. row'[k] = [row[k] EXCEPT !.age = 0]
        BY <3>2 DEF BeginTakeOver, Inv, TypeOK
      <4> QED BY <4>1, <4>2 DEF Rows
    <3> QED BY <1>2, <3>1, <3>2
  <2>10. outcomeBar' = [outcomeBar EXCEPT ![k] = NoResp]
    <3>1. \A j \in Keys : outcomeBar'[j] = IF j = k THEN NoResp ELSE outcomeBar[j]
      BY <2>8, <2>9 DEF outcomeBar
    <3>2. /\ outcomeBar = [j \in Keys |-> outcomeBar[j]]
          /\ outcomeBar' = [j \in Keys |-> outcomeBar'[j]]
      BY DEF outcomeBar
    <3> QED BY <3>1, <3>2
  <2>11. CASE BeginDiscard(r, k, u)
    <3>1. outcomeBar[k] = Unreadable
      BY <2>11 DEF BeginDiscard, MustDiscard, outcomeBar
    <3>2. Claim!Redo(r, k)
      BY <2>4, <2>7, <2>10, <3>1 DEF Claim!Redo
    <3> QED BY <3>2 DEF Claim!Next
  <2>12. CASE BeginFresh(r, k, u) \/ BeginTakeOver(r, k, u)
    <3>1. outcomeBar[k] = NoResp
      BY <2>12 DEF BeginFresh, BeginTakeOver, CanTakeOver, outcomeBar
    <3>2. outcomeBar' = outcomeBar
      <4>1. outcomeBar = [j \in Keys |-> outcomeBar[j]]
        BY DEF outcomeBar
      <4> QED BY <2>10, <3>1, <4>1
    <3>3. Claim!Take(r, k)
      BY <2>4, <2>7, <3>1, <3>2 DEF Claim!Take
    <3> QED BY <3>3 DEF Claim!Next
  <2> QED BY <1>2, <2>11, <2>12
<1> QED BY <1>1, <1>2 DEF Begin

\* The handler holds the lock until it records an outcome or gives up.
LEMMA ServeHolds ==
  ASSUME Inv, Inv', NEW r \in Requests, Serve(r)
  PROVE  [Claim!Next]_(Claim!claimVars)
<1> SUFFICES ASSUME req[r] # NoReq
             PROVE  [Claim!Next]_(Claim!claimVars)
  BY DEF Serve, LookupHit, LookupMiss, Rename, Record, Finish, Fail, FailStored
<1> PICK k \in Keys, u \in Users : req[r].key = k /\ req[r].user = u
  BY DEF Inv, TypeOK, Reqs
<1>0. /\ Working(r, k) /\ \A q \in Requests : q # r => req'[q] = req[q]
  BY OthersKeep DEF Inv, Working
<1>1. /\ row[k] \in Rows /\ row[k] # NoRow /\ row[k].status = "in_progress"
      /\ \A q \in Requests : Working(q, k) => q = r
  BY <1>0 DEF Inv, ClaimHeld, OneWorker, TypeOK
<1>2. holderBar[k] = r /\ outcomeBar[k] = NoResp
  BY <1>0, <1>1, HolderIs DEF Inv, outcomeBar
<1>3. CASE LookupHit(r) \/ LookupMiss(r) \/ Rename(r) \/ Record(r)
  <2>1. UNCHANGED row
    BY <1>3 DEF LookupHit, LookupMiss, Rename, Record
  <2>0. req[r] \in Reqs
    BY DEF Inv, TypeOK
  <2>2. req'[r].key = k /\ req'[r] # NoReq
    <3>1. CASE LookupHit(r)
      <4>1. PICK n \in indexed[Upload(r)] : req' = [req EXCEPT ![r] = [req[r] EXCEPT !.pc = "stored", !.copy = n]]
        BY <3>1 DEF LookupHit
      <4>2. n \in 0..MaxCopies
        BY DEF Inv, TypeOK, Copies, Upload
      <4>3. req'[r] = [req[r] EXCEPT !.pc = "stored", !.copy = n]
        BY <4>1 DEF Inv, TypeOK
      <4>4. [req[r] EXCEPT !.pc = "stored", !.copy = n] \in Reqs
        BY <2>0, <4>2 DEF Reqs, Phases
      <4>5. [req[r] EXCEPT !.pc = "stored", !.copy = n].key = k
        BY <2>0 DEF Reqs
      <4> QED BY <4>3, <4>4, <4>5, NullAssumption
    <3>2. CASE LookupMiss(r)
      BY <3>2 DEF LookupMiss, Inv, TypeOK, Reqs, Phases
    <3>3. CASE Rename(r)
      <4>1. copies[Upload(r)] + 1 \in 0..MaxCopies
        BY <3>3 DEF Rename, Upload, Inv, TypeOK
      <4>2. req'[r] = [req[r] EXCEPT !.pc = "renamed", !.copy = copies[Upload(r)] + 1]
        BY <3>3 DEF Rename, Inv, TypeOK
      <4>3. [req[r] EXCEPT !.pc = "renamed", !.copy = copies[Upload(r)] + 1] \in Reqs
        BY <2>0, <4>1 DEF Reqs, Phases
      <4>4. [req[r] EXCEPT !.pc = "renamed", !.copy = copies[Upload(r)] + 1].key = k
        BY <2>0 DEF Reqs
      <4> QED BY <4>2, <4>3, <4>4, NullAssumption
    <3>4. CASE Record(r)
      BY <3>4 DEF Record, Inv, TypeOK, Reqs, Phases
    <3> QED BY <1>3, <3>1, <3>2, <3>3, <3>4
  <2>3. \A j \in Keys, q \in Requests : Working(q, j)' <=> Working(q, j)
    BY <1>0, <2>2 DEF Working
  <2>4. holderBar' = holderBar
    <3>1. \A j \in Keys : holderBar'[j] = holderBar[j]
      BY <2>3, SameHolder
    <3>2. /\ holderBar = [j \in Keys |-> holderBar[j]]
          /\ holderBar' = [j \in Keys |-> holderBar'[j]]
      BY DEF holderBar
    <3> QED BY <3>1, <3>2
  <2>5. outcomeBar' = outcomeBar
    BY <2>1 DEF outcomeBar
  <2> QED BY <2>4, <2>5 DEF Claim!claimVars
<1>4. CASE Finish(r) \/ Fail(r) \/ FailStored(r)
  <2>1. req'[r] = NoReq
    BY <1>4 DEF Finish, Fail, FailStored, Inv, TypeOK
  <2>2. /\ \A q \in Requests : ~Working(q, k)'
        /\ \A j \in Keys \ {k}, q \in Requests : Working(q, j)' <=> Working(q, j)
    BY <1>0, <1>1, <2>1 DEF Working
  <2>3. holderBar' = [holderBar EXCEPT ![k] = NoReq]
    <3>1. holderBar'[k] = NoReq
      BY <2>2, HolderIsThen DEF Inv
    <3>2. \A j \in Keys \ {k} : holderBar'[j] = holderBar[j]
      BY <2>2, SameHolder
    <3>3. /\ holderBar = [j \in Keys |-> holderBar[j]]
          /\ holderBar' = [j \in Keys |-> holderBar'[j]]
      BY DEF holderBar
    <3> QED BY <3>1, <3>2, <3>3
  <2>4. \A j \in Keys \ {k} : row'[j] = row[j]
    BY <1>1, <1>4 DEF Finish, Fail, FailStored, FinishRow, AbandonRow, Inv, TypeOK
  <2>5. /\ outcomeBar = [j \in Keys |-> outcomeBar[j]]
        /\ outcomeBar' = [j \in Keys |-> outcomeBar'[j]]
        /\ \A j \in Keys \ {k} : outcomeBar'[j] = outcomeBar[j]
    BY <2>4 DEF outcomeBar
  <2>6. holderBar[k] # NoReq
    BY <1>2, NullAssumption
  <2>7. ASSUME AbandonRow(k) \/ row' = row
        PROVE  Claim!Next
    <3>1. row'[k] = NoRow \/ row'[k] = row[k]
      BY <1>1, <2>7 DEF AbandonRow, Inv, TypeOK
    <3>2. outcomeBar'[k] = NoResp
      BY <1>1, <3>1 DEF outcomeBar
    <3>3. outcomeBar' = outcomeBar
      BY <1>2, <2>5, <3>2
    <3>4. Claim!GiveUp(k)
      BY <2>3, <2>6, <3>3 DEF Claim!GiveUp
    <3> QED BY <3>4 DEF Claim!Next
  <2>8. ASSUME FinishRow(k, <<u, req[r].copy>>), req[r].pc = "stored"
        PROVE  Claim!Next
    <3> DEFINE resp == <<u, req[r].copy>>
    <3>1. row' = [row EXCEPT ![k] = [row[k] EXCEPT !.status = "done", !.resp = resp]]
      BY <1>1, <2>8 DEF FinishRow
    <3>2. resp \in Responses
      BY <1>0, <2>8 DEF Inv, TypeOK, CopyIsStored, Working, Reqs, Responses, Copies
    <3>3. row'[k] = [row[k] EXCEPT !.status = "done", !.resp = resp]
      BY <3>1 DEF Inv, TypeOK
    <3>4. row'[k] \in Rows /\ row'[k].status = "done" /\ row'[k].resp = resp
      BY <1>1, <3>2, <3>3 DEF Rows
    <3>5. outcomeBar'[k] = resp
      BY <3>4 DEF outcomeBar
    <3> HIDE DEF resp
    <3>6. outcomeBar' = [outcomeBar EXCEPT ![k] = resp]
      BY <2>5, <3>5
    <3>7. Claim!Complete(k, resp)
      BY <2>3, <2>6, <3>6 DEF Claim!Complete
    <3> QED BY <3>2, <3>7 DEF Claim!Next
  <2> QED BY <1>4, <2>7, <2>8 DEF Finish, Fail, FailStored
<1> QED BY <1>3, <1>4 DEF Serve

\* A death frees every lock, a prune forgets outcomes, and a response may rot.
LEMMA WorldHolds ==
  ASSUME Inv, Inv', Tick \/ Crash \/ Start \/ \E k \in Keys : Rot(k)
  PROVE  [Claim!Next]_(Claim!claimVars)
<1>1. CASE Crash
  <2>1. req' = [r \in Requests |-> NoReq] /\ UNCHANGED row
    BY <1>1, Zenon DEF Crash
  <2>2. \A k \in Keys, r \in Requests : ~Working(r, k)'
    BY <2>1 DEF Working
  <2>3. holderBar' = [k \in Keys |-> NoReq]
    BY <2>2 DEF holderBar
  <2>4. outcomeBar' = outcomeBar
    BY <2>1 DEF outcomeBar
  <2> QED BY <2>3, <2>4 DEF Claim!Next, Claim!Die
<1>2. CASE Start
  <2>1. /\ row' = [k \in Keys |-> IF k \in Prunable THEN NoRow ELSE row[k]] /\ UNCHANGED req
        /\ Prunable \in SUBSET Keys
    BY <1>2 DEF Start, Prunable
  <2>2. \A k \in Prunable : holderBar[k] = NoReq
    BY <1>2, <2>1, HolderIs DEF Start, Inv, DownIsIdle, Working
  <2>3. holderBar' = holderBar
    BY <2>1, SameHolders
  <2>4. outcomeBar' = [k \in Keys |-> IF k \in Prunable THEN NoResp ELSE outcomeBar[k]]
    BY <2>1 DEF outcomeBar
  <2>5. Claim!Forget(Prunable)
    BY <2>2, <2>3, <2>4 DEF Claim!Forget
  <2> QED BY <2>1, <2>5 DEF Claim!Next
<1>3. CASE Tick
  <2>1. UNCHANGED req /\ row' = [k \in Keys |-> Older(row[k])]
    BY <1>3 DEF Tick
  <2>2. \A k \in Keys : /\ row'[k] = NoRow <=> row[k] = NoRow
                        /\ row[k] # NoRow => row'[k].status = row[k].status /\ row'[k].resp = row[k].resp
    <3> TAKE k \in Keys
    <3>1. row'[k] = Older(row[k]) /\ row[k] \in Rows \cup {NoRow}
      BY <2>1 DEF Inv, TypeOK
    <3>2. CASE row[k] = NoRow \/ row[k].age > Ttl
      BY <3>1, <3>2 DEF Older
    <3>3. CASE ~(row[k] = NoRow \/ row[k].age > Ttl)
      <4>1. row'[k] = [row[k] EXCEPT !.age = row[k].age + 1]
        BY <3>1, <3>3 DEF Older
      <4>2. row'[k] \in Rows
        BY <3>1, <3>3, <4>1 DEF Rows
      <4> QED BY <3>1, <3>3, <4>1, <4>2 DEF Rows
    <3> QED BY <3>2, <3>3
  <2>3. outcomeBar' = outcomeBar
    BY <2>2 DEF outcomeBar
  <2> QED BY <2>1, <2>3, SameHolders DEF Claim!claimVars
<1>4. ASSUME NEW k \in Keys, Rot(k) PROVE [Claim!Next]_(Claim!claimVars)
  <2>1. UNCHANGED req /\ row[k] \in Rows /\ row[k] # NoRow /\ row[k].resp \in Responses
        /\ row' = [row EXCEPT ![k] = [row[k] EXCEPT !.resp = Unreadable]]
    BY <1>4 DEF Rot, Inv, TypeOK
  <2>2. row'[k] = [row[k] EXCEPT !.resp = Unreadable] /\ \A j \in Keys \ {k} : row'[j] = row[j]
    BY <2>1 DEF Inv, TypeOK
  <2>3. row'[k] \in Rows /\ row'[k].status = row[k].status /\ row'[k].resp = Unreadable
    BY <2>1, <2>2 DEF Rows
  <2>4. holderBar' = holderBar
    BY <2>1, SameHolders
  <2>5. /\ outcomeBar = [j \in Keys |-> outcomeBar[j]]
        /\ outcomeBar' = [j \in Keys |-> outcomeBar'[j]]
        /\ \A j \in Keys \ {k} : outcomeBar'[j] = outcomeBar[j]
    BY <2>2 DEF outcomeBar
  <2>6. CASE row[k].status = "in_progress"
    <3>1. outcomeBar'[k] = outcomeBar[k]
      BY <2>3, <2>6 DEF outcomeBar
    <3> QED BY <2>4, <2>5, <3>1 DEF Claim!claimVars
  <2>7. CASE row[k].status # "in_progress"
    <3>1. outcomeBar[k] \in Responses /\ outcomeBar'[k] = Unreadable
      BY <2>1, <2>3, <2>7 DEF outcomeBar
    <3>2. outcomeBar' = [outcomeBar EXCEPT ![k] = Unreadable]
      BY <2>5, <3>1
    <3>3. Claim!Damage(k)
      BY <2>4, <3>1, <3>2 DEF Claim!Damage
    <3> QED BY <3>3 DEF Claim!Next
  <2> QED BY <2>6, <2>7
<1> QED BY <1>1, <1>2, <1>3, <1>4

\* The table of keys, with the handlers around it, implements the lock of UploadClaim, although no
\* row names its holder.
THEOREM TableIsALock == ASSUME ~HolderOutlivesClaim PROVE Spec => ImplementsClaim
<1>1. Init => Claim!Init
  <2> SUFFICES ASSUME Init PROVE Claim!Init
    OBVIOUS
  <2>1. \A r \in Requests, k \in Keys : ~Working(r, k)
    BY DEF Init, Working
  <2>2. holderBar = [k \in Keys |-> NoReq]
    BY <2>1 DEF holderBar
  <2>3. outcomeBar = [k \in Keys |-> NoResp]
    BY DEF Init, outcomeBar
  <2> QED BY <2>2, <2>3 DEF Claim!Init
<1>2. Inv /\ Inv' /\ [Next]_vars => [Claim!Next]_(Claim!claimVars)
  <2> SUFFICES ASSUME Inv, Inv', [Next]_vars
               PROVE  [Claim!Next]_(Claim!claimVars)
    OBVIOUS
  <2>1. CASE Next
    BY <2>1, ServeHolds, BeginTakes, WorldHolds DEF Next
  <2>2. CASE UNCHANGED vars
    BY <2>2 DEF vars, Claim!claimVars, holderBar, outcomeBar, Working
  <2> QED BY <2>1, <2>2
<1> QED BY <1>1, <1>2, Invariance, PTL DEF Spec, ImplementsClaim, Claim!Spec
==============================================================================
