----------------------------- MODULE UploadClaim -----------------------------
(***************************************************************************)
(* What the table of idempotency keys promises, without the table: a key   *)
(* has at most one holder, a key with a holder has no outcome yet, and an  *)
(* outcome, once recorded, stays until the key as a whole is forgotten.    *)
(*                                                                         *)
(* The program keeps no such thing as a holder: the row of a key says that *)
(* somebody claimed it and when.  UploadIdempotency shows that the row and *)
(* the code around it still implement this lock.                           *)
(***************************************************************************)
CONSTANTS
    Keys,        \* idempotency keys
    Requests,    \* upload requests being served
    Outcomes     \* the responses an upload can have

CONSTANTS
    Nobody,      \* no request holds the key
    NoOutcome,   \* no response is recorded for the key
    Damaged      \* a response is recorded and cannot be read any more

VARIABLES
    holder,      \* the request that works for a key, or Nobody
    outcome      \* the response recorded for a key, or NoOutcome

claimVars == <<holder, outcome>>

TypeOK == /\ holder \in [Keys -> Requests \cup {Nobody}]
          /\ outcome \in [Keys -> Outcomes \cup {NoOutcome, Damaged}]

Init == /\ holder = [k \in Keys |-> Nobody]
        /\ outcome = [k \in Keys |-> NoOutcome]

\* A request takes a key nobody works for and that has no outcome.
Take(r, k) == /\ holder[k] = Nobody
              /\ outcome[k] = NoOutcome
              /\ holder' = [holder EXCEPT ![k] = r]
              /\ UNCHANGED outcome

\* The holder gives up: the key can be taken again.
GiveUp(k) == /\ holder[k] # Nobody
             /\ holder' = [holder EXCEPT ![k] = Nobody]
             /\ UNCHANGED outcome

\* The holder records the outcome and is done with the key.
Complete(k, out) == /\ holder[k] # Nobody
                    /\ outcome' = [outcome EXCEPT ![k] = out]
                    /\ holder' = [holder EXCEPT ![k] = Nobody]

\* The record of an outcome is damaged from outside.
Damage(k) == /\ outcome[k] \in Outcomes
             /\ outcome' = [outcome EXCEPT ![k] = Damaged]
             /\ UNCHANGED holder

\* A damaged outcome is given up for a fresh attempt.
Redo(r, k) == /\ holder[k] = Nobody
              /\ outcome[k] = Damaged
              /\ holder' = [holder EXCEPT ![k] = r]
              /\ outcome' = [outcome EXCEPT ![k] = NoOutcome]

\* Every holder dies with the process; old outcomes may be forgotten.
Die == holder' = [k \in Keys |-> Nobody] /\ UNCHANGED outcome

Forget(ks) == /\ \A k \in ks : holder[k] = Nobody
              /\ outcome' = [k \in Keys |-> IF k \in ks THEN NoOutcome ELSE outcome[k]]
              /\ UNCHANGED holder

Next == \/ \E k \in Keys :
              \/ GiveUp(k) \/ Damage(k)
              \/ \E r \in Requests : Take(r, k) \/ Redo(r, k)
              \/ \E out \in Outcomes : Complete(k, out)
        \/ Die
        \/ \E ks \in SUBSET Keys : Forget(ks)

Spec == Init /\ [][Next]_claimVars
==============================================================================
