------------------------------ MODULE MultiTrx ------------------------------
(***************************************************************************)
(* What a transaction over several databases promises its request, whoever *)
(* implements it (db.TrxDriver and db.MultiTrxDriver, src/db/db.go): every *)
(* database is begun at most once and only while the transaction is        *)
(* active, a database transaction that has ended never changes again, and  *)
(* the whole is "committed" only when everything begun is committed.       *)
(*                                                                         *)
(* It deliberately does not promise atomic commitment: databases commit    *)
(* one after another, and a failure half way leaves the first ones         *)
(* committed.  LazyTrx and RequestTrx implement this specification.        *)
(***************************************************************************)

CONSTANT Keys            \* the names of the databases

VARIABLES txState,       \* the transaction of each database
          outcome        \* what the driver has told its request

vars == <<txState, outcome>>

TxStatus == {"none", "open", "committed", "rolledback"}

Begun == {k \in Keys : txState[k] # "none"}

TypeOK ==
  /\ txState \in [Keys -> TxStatus]
  /\ outcome \in {"active", "committed", "aborted"}

Init ==
  /\ txState = [k \in Keys |-> "none"]
  /\ outcome = "active"

Begin(k) ==
  /\ outcome = "active"
  /\ txState[k] = "none"
  /\ txState' = [txState EXCEPT ![k] = "open"]
  /\ UNCHANGED outcome

CommitOne(k) ==
  /\ outcome = "active"
  /\ txState[k] = "open"
  /\ txState' = [txState EXCEPT ![k] = "committed"]
  /\ UNCHANGED outcome

(* A rollback, a failed commit or the end of the context it is bound to.   *)
Abort(k) ==
  /\ txState[k] = "open"
  /\ txState' = [txState EXCEPT ![k] = "rolledback"]
  /\ UNCHANGED outcome

Succeed ==
  /\ outcome = "active"
  /\ \A k \in Begun : txState[k] = "committed"
  /\ outcome' = "committed"
  /\ UNCHANGED txState

GiveUp ==
  /\ outcome = "active"
  /\ outcome' = "aborted"
  /\ UNCHANGED txState

Next ==
  \/ \E k \in Keys : Begin(k) \/ CommitOne(k) \/ Abort(k)
  \/ Succeed
  \/ GiveUp

Spec == Init /\ [][Next]_vars
=============================================================================
