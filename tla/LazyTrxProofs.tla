---------------------------- MODULE LazyTrxProofs ----------------------------
(***************************************************************************)
(* Proofs about LazyTrx, for any number of callers and databases.          *)
(*                                                                         *)
(* None of the properties is inductive alone.  What carries them is that   *)
(* the map holds exactly the transactions begun while the driver is open   *)
(* (MapInv), that whoever closes it owns what is still open (UndoInv), and *)
(* that a commit that has failed leaves a transaction in the map that      *)
(* cannot be committed any more, which every later commit loop has yet to  *)
(* meet (FailInv, LoopInv).                                                *)
(***************************************************************************)
EXTENDS LazyTrx, TLAPS

(* The mutex is held exactly by the caller inside a critical section.      *)
MutexInv == \A c \in Callers : mu = c <=> pc[c] \in {"inUse", "inCommit"}

(* Before the constructor returns nothing has been done.                   *)
FreshInv ==
  made # "yes" => /\ ~closed
                  /\ tx = {}
                  /\ commitRes = "none"
                  /\ \A c \in Callers : pc[c] = "idle"

(* While the driver is open its map holds exactly what has been begun.     *)
MapInv ==
  /\ closed => tx = {}
  /\ ~closed => \A k \in Keys : k \in tx <=> status[k] # "none"
  /\ \A k \in Keys : begins[k] = IF status[k] = "none" THEN 0 ELSE 1
  /\ \A k \in acked : status[k] # "none"

(* Only a closed driver is being rolled back, and what is open after the   *)
(* close is in the loop of a Rollback.                                     *)
UndoInv ==
  /\ \A c \in Callers : pc[c] = "undo" => closed
  /\ closed => \A k \in Keys :
       status[k] = "open" => \E c \in Callers : pc[c] = "undo" /\ k \in todo[c]

(* A commit loop runs on an open driver.  What it has passed is committed  *)
(* unless an earlier commit failed, and then it has yet to meet the reason. *)
LoopInv ==
  \A c \in Callers : pc[c] = "inCommit" =>
    /\ ~closed
    /\ todo[c] \subseteq tx
    /\ commitRes = "none" => \A k \in tx \ todo[c] : status[k] = "committed"
    /\ commitRes = "err" => \E k \in todo[c] : ~Committable(k)

FailInv == commitRes = "err" /\ ~closed => \E k \in tx : ~Committable(k)

OkInv ==
  commitRes = "ok" => closed /\ \A k \in Keys : status[k] \in {"none", "committed"}

IInv ==
  /\ TypeOK
  /\ MutexInv /\ FreshInv /\ MapInv /\ UndoInv /\ LoopInv /\ FailInv /\ OkInv

-----------------------------------------------------------------------------
LEMMA InitType == Init => TypeOK
<1> SUFFICES ASSUME Init PROVE TypeOK
  OBVIOUS
<1> USE DEF Init
<1>1. tx \in SUBSET dbs /\ cancelled \in SUBSET Callers /\ acked \in SUBSET Keys
  OBVIOUS
<1>2. status \in [Keys -> {"none", "open", "committed", "rolledback"}]
  OBVIOUS
<1>3. bound \in [Keys -> Callers \cup {NoCaller}] /\ begins \in [Keys -> Nat]
  OBVIOUS
<1>4. pc \in [Callers -> PCs] /\ todo \in [Callers -> SUBSET Keys]
  BY DEF PCs
<1>5. key \in [Callers -> Keys]
  BY KeyAssumption
<1> QED BY <1>1, <1>2, <1>3, <1>4, <1>5 DEF TypeOK

(* Type correctness: every step of the driver, its callers and database/sql *)
(* keeps every variable in its type.                                       *)
THEOREM TypeCorrect == Spec => []TypeOK
<1>1. TypeOK /\ [Next]_vars => TypeOK'
  <2> SUFFICES ASSUME TypeOK, [Next]_vars PROVE TypeOK'
    OBVIOUS
  <2> USE DEF TypeOK, PCs, driver, sqlTx, control, history, At, Goto, Return,
              Lock, Unlock
  <2> Routes \subseteq Keys
    BY KeyAssumption DEF Routes, DBKey
  <2>1. ASSUME NEW c \in Callers, New(c) PROVE TypeOK'
    BY <2>1 DEF New, Begin
  <2>2. ASSUME NEW c \in Callers, CallUse(c) PROVE TypeOK'
    BY <2>2 DEF CallUse
  <2>3. ASSUME NEW c \in Callers, CallCommit(c) \/ CallRollback(c) PROVE TypeOK'
    BY <2>3 DEF CallCommit, CallRollback
  <2>4. ASSUME NEW c \in Callers, Use(c) PROVE TypeOK'
    <3>1. CASE LockUse(c) \/ UseCached(c)
      BY <3>1 DEF LockUse, UseCached
    <3>2. CASE UseBegin(c)
      BY <3>2 DEF UseBegin, Begin
    <3>3. CASE UseFails(c) \/ ExecOk(c) \/ ExecFails(c)
      BY <3>3, KeyAssumption DEF UseFails, ExecOk, ExecFails
    <3> QED BY <2>4, <3>1, <3>2, <3>3 DEF Use
  <2>5. ASSUME NEW c \in Callers, Commit(c) PROVE TypeOK'
    <3>1. CASE LockCommit(c)
      BY <3>1 DEF LockCommit
    <3>2. CASE CommitClosed(c) \/ CommitDone(c)
      BY <3>2, KeyAssumption DEF CommitClosed, CommitDone
    <3>3. ASSUME NEW k \in Keys, CommitOne(c, k) PROVE TypeOK'
      BY <3>3 DEF CommitOne
    <3>4. ASSUME NEW k \in Keys, CommitFails(c, k) PROVE TypeOK'
      BY <3>4, KeyAssumption DEF CommitFails
    <3> QED BY <2>5, <3>1, <3>2, <3>3, <3>4 DEF Commit
  <2>6. ASSUME NEW c \in Callers, Rollback(c) PROVE TypeOK'
    <3>1. CASE RollbackClosed(c) \/ RollbackDone(c)
      BY <3>1, KeyAssumption DEF RollbackClosed, RollbackDone
    <3>2. CASE RollbackTake(c)
      BY <3>2 DEF RollbackTake
    <3>3. ASSUME NEW k \in Keys, RollbackOne(c, k) PROVE TypeOK'
      BY <3>3 DEF RollbackOne
    <3> QED BY <2>6, <3>1, <3>2, <3>3 DEF Rollback
  <2>7. ASSUME NEW c \in Callers, ContextEnds(c) PROVE TypeOK'
    BY <2>7 DEF ContextEnds
  <2>8. ASSUME NEW k \in Keys, AwaitDone(k) PROVE TypeOK'
    BY <2>8 DEF AwaitDone
  <2>9. CASE NewFails \/ Terminated \/ UNCHANGED vars
    BY <2>9 DEF NewFails, Terminated, vars
  <2> QED
    BY <2>1, <2>2, <2>3, <2>4, <2>5, <2>6, <2>7, <2>8, <2>9 DEF Next
<1> QED BY InitType, <1>1, PTL DEF Spec
-----------------------------------------------------------------------------
(* The inductive invariant, one lemma for each part of the next-state      *)
(* relation.                                                               *)

LEMMA InitInv == Init => IInv
<1> SUFFICES ASSUME Init PROVE IInv
  OBVIOUS
<1>1. MutexInv /\ FreshInv
  BY CallerAssumption DEF Init, MutexInv, FreshInv
<1>2. MapInv
  BY DEF Init, MapInv
<1>3. UndoInv /\ LoopInv /\ FailInv /\ OkInv
  BY DEF Init, UndoInv, LoopInv, FailInv, OkInv
<1> QED BY InitType, <1>1, <1>2, <1>3 DEF IInv

LEMMA NewInv ==
  ASSUME IInv, TypeOK', NEW c \in Callers, New(c)
  PROVE  IInv'
<1>1. PICK k \in Routes : Begin(c, k)
  BY DEF New
<1> k \in Keys
  BY KeyAssumption DEF Routes, DBKey, IInv, TypeOK
<1> USE DEF New, Begin, control
<1>2. \A j \in Keys : status[j] = "none" /\ begins[j] = 0
  BY DEF IInv, MapInv, FreshInv
<1>3. MutexInv' /\ FreshInv' /\ UndoInv'
  BY <1>1 DEF IInv, MutexInv, FreshInv, UndoInv
<1>4. MapInv'
  BY <1>1, <1>2 DEF IInv, TypeOK, MapInv, FreshInv
<1>5. LoopInv' /\ FailInv' /\ OkInv'
  BY <1>1 DEF IInv, FreshInv, LoopInv, FailInv, OkInv
<1> QED BY <1>3, <1>4, <1>5 DEF IInv

LEMMA CallInv ==
  ASSUME IInv, TypeOK', NEW c \in Callers,
         CallUse(c) \/ CallCommit(c) \/ CallRollback(c)
  PROVE  IInv'
<1> USE DEF CallUse, CallCommit, CallRollback, At, Goto, driver, sqlTx, history
<1>1. MutexInv' /\ FreshInv' /\ MapInv' /\ OkInv'
  BY DEF IInv, TypeOK, MutexInv, FreshInv, MapInv, OkInv
<1>2. UndoInv' /\ LoopInv' /\ FailInv'
  BY DEF IInv, TypeOK, UndoInv, LoopInv, FailInv, Committable
<1> QED BY <1>1, <1>2 DEF IInv

LEMMA UseInv ==
  ASSUME IInv, TypeOK', NEW c \in Callers, Use(c)
  PROVE  IInv'
<1> USE DEF At, Goto, Return, Lock, Unlock, driver, sqlTx, history
<1>1. CASE LockUse(c) \/ UseCached(c)
  <2> USE <1>1 DEF LockUse, UseCached
  <2>1. MutexInv' /\ FreshInv' /\ MapInv' /\ OkInv'
    BY CallerAssumption DEF IInv, TypeOK, MutexInv, FreshInv, MapInv, OkInv
  <2>2. UndoInv' /\ LoopInv' /\ FailInv'
    BY DEF IInv, TypeOK, UndoInv, LoopInv, FailInv, Committable
  <2> QED BY <2>1, <2>2 DEF IInv
<1>2. CASE UseBegin(c)
  <2> USE <1>2 DEF UseBegin, Begin
  <2>1. status[key[c]] = "none" /\ begins[key[c]] = 0
    BY DEF IInv, TypeOK, MapInv
  <2>2. \A d \in Callers : pc[d] # "inCommit"
    BY DEF IInv, MutexInv
  <2>3. MutexInv' /\ FreshInv' /\ UndoInv' /\ OkInv'
    BY CallerAssumption DEF IInv, TypeOK, MutexInv, FreshInv, UndoInv, OkInv
  <2>4. MapInv'
    BY <2>1 DEF IInv, TypeOK, MapInv
  <2>5. LoopInv'
    BY <2>2 DEF IInv, TypeOK, LoopInv
  <2>6. FailInv'
    BY DEF IInv, TypeOK, FailInv, Committable
  <2> QED BY <2>3, <2>4, <2>5, <2>6 DEF IInv
<1>3. CASE UseFails(c) \/ ExecOk(c) \/ ExecFails(c)
  <2> USE <1>3 DEF UseFails, ExecOk, ExecFails
  <2>1. MutexInv' /\ FreshInv' /\ MapInv' /\ OkInv'
    BY CallerAssumption DEF IInv, TypeOK, MutexInv, FreshInv, MapInv, OkInv
  <2>2. UndoInv' /\ LoopInv' /\ FailInv'
    BY DEF IInv, TypeOK, UndoInv, LoopInv, FailInv, Committable
  <2> QED BY <2>1, <2>2 DEF IInv
<1> QED BY <1>1, <1>2, <1>3 DEF Use

LEMMA CommitInv ==
  ASSUME IInv, TypeOK', NEW c \in Callers, Commit(c)
  PROVE  IInv'
<1> USE DEF At, Goto, Return, Lock, Unlock, driver, sqlTx, history
<1>1. CASE LockCommit(c)
  <2> USE <1>1 DEF LockCommit
  <2>1. MutexInv' /\ FreshInv' /\ MapInv' /\ OkInv'
    BY CallerAssumption DEF IInv, TypeOK, MutexInv, FreshInv, MapInv, OkInv
  <2>2. UndoInv' /\ FailInv'
    BY DEF IInv, TypeOK, UndoInv, FailInv, Committable
  <2>3. LoopInv'
    BY DEF IInv, TypeOK, LoopInv, FailInv, MutexInv, Committable
  <2> QED BY <2>1, <2>2, <2>3 DEF IInv
<1>2. CASE CommitClosed(c)
  <2> USE <1>2 DEF CommitClosed
  <2>1. MutexInv' /\ FreshInv' /\ MapInv' /\ OkInv'
    BY CallerAssumption DEF IInv, TypeOK, MutexInv, FreshInv, MapInv, OkInv
  <2>2. UndoInv' /\ LoopInv' /\ FailInv'
    BY DEF IInv, TypeOK, UndoInv, LoopInv, FailInv
  <2> QED BY <2>1, <2>2 DEF IInv
<1>3. CASE CommitDone(c)
  <2> USE <1>3 DEF CommitDone
  <2>1. commitRes = "none" /\ \A k \in Keys : status[k] \in {"none", "committed"}
    BY DEF IInv, TypeOK, LoopInv, MapInv, OkInv
  <2>2. MutexInv' /\ FreshInv' /\ MapInv'
    BY CallerAssumption DEF IInv, TypeOK, MutexInv, FreshInv, MapInv
  <2>3. \A d \in Callers : pc[d] = "inCommit" => d = c
    BY DEF IInv, MutexInv
  <2>4. UndoInv' /\ LoopInv' /\ FailInv' /\ OkInv'
    BY <2>1, <2>3 DEF IInv, TypeOK, UndoInv, LoopInv, FailInv, OkInv
  <2> QED BY <2>2, <2>4 DEF IInv
<1>4. ASSUME NEW k \in Keys, CommitOne(c, k) PROVE IInv'
  <2> USE <1>4 DEF CommitOne
  <2>1. MutexInv' /\ FreshInv' /\ MapInv' /\ OkInv'
    BY DEF IInv, TypeOK, MutexInv, FreshInv, MapInv, OkInv, Committable
  <2>2. UndoInv' /\ FailInv'
    BY DEF IInv, TypeOK, UndoInv, FailInv, Committable
  <2>3. LoopInv'
    <3> SUFFICES ASSUME NEW d \in Callers, pc[d] = "inCommit"
                 PROVE  /\ ~closed
                        /\ todo'[d] \subseteq tx
                        /\ commitRes = "none" =>
                             \A j \in tx \ todo'[d] : status'[j] = "committed"
                        /\ commitRes = "err" =>
                             \E j \in todo'[d] : ~Committable(j)'
      BY DEF IInv, TypeOK, LoopInv
    <3>1. d = c
      BY DEF IInv, MutexInv
    <3>2. todo'[d] \subseteq tx
      BY <3>1 DEF IInv, TypeOK, LoopInv
    <3>3. commitRes = "none" =>
            \A j \in tx \ todo'[d] : status'[j] = "committed"
      BY <3>1 DEF IInv, TypeOK, LoopInv
    <3>4. commitRes = "err" => \E j \in todo'[d] : ~Committable(j)'
      <4> SUFFICES ASSUME commitRes = "err"
                   PROVE  \E j \in todo'[d] : ~Committable(j)'
        OBVIOUS
      <4>1. PICK j \in todo[d] : ~Committable(j)
        BY <3>1 DEF IInv, LoopInv
      <4>2. j # k /\ j \in todo'[d] /\ ~Committable(j)'
        BY <3>1, <4>1 DEF IInv, TypeOK, Committable
      <4> QED BY <4>2
    <3>5. ~closed
      BY DEF IInv, LoopInv
    <3> QED BY <3>2, <3>3, <3>4, <3>5
  <2> QED BY <2>1, <2>2, <2>3 DEF IInv
<1>5. ASSUME NEW k \in Keys, CommitFails(c, k) PROVE IInv'
  <2> USE <1>5 DEF CommitFails
  <2>1. k \in tx /\ ~Committable(k)'
    BY DEF IInv, TypeOK, LoopInv, Committable
  <2>2. MutexInv' /\ FreshInv' /\ OkInv'
    BY CallerAssumption DEF IInv, TypeOK, MutexInv, FreshInv, OkInv
  <2>3. MapInv'
    BY DEF IInv, TypeOK, MapInv, Committable
  <2>4. UndoInv' /\ FailInv'
    BY <2>1 DEF IInv, TypeOK, UndoInv, FailInv
  <2>5. LoopInv'
    BY DEF IInv, TypeOK, MutexInv, LoopInv
  <2> QED BY <2>2, <2>3, <2>4, <2>5 DEF IInv
<1> QED BY <1>1, <1>2, <1>3, <1>4, <1>5 DEF Commit

LEMMA RollbackInv ==
  ASSUME IInv, TypeOK', NEW c \in Callers, Rollback(c)
  PROVE  IInv'
<1> USE DEF At, Goto, Return, driver, sqlTx, history
<1>1. CASE RollbackClosed(c) \/ RollbackDone(c)
  <2> USE <1>1 DEF RollbackClosed, RollbackDone
  <2>1. MutexInv' /\ FreshInv' /\ MapInv' /\ OkInv'
    BY CallerAssumption DEF IInv, TypeOK, MutexInv, FreshInv, MapInv, OkInv
  <2>2. UndoInv' /\ LoopInv' /\ FailInv'
    BY DEF IInv, TypeOK, UndoInv, LoopInv, FailInv, Committable
  <2> QED BY <2>1, <2>2 DEF IInv
<1>2. CASE RollbackTake(c)
  <2> USE <1>2 DEF RollbackTake
  <2>1. MutexInv' /\ FreshInv' /\ MapInv' /\ OkInv'
    BY CallerAssumption DEF IInv, TypeOK, MutexInv, FreshInv, MapInv, OkInv
  <2>2. UndoInv' /\ LoopInv' /\ FailInv'
    BY CallerAssumption DEF IInv, TypeOK, MutexInv, MapInv, UndoInv, LoopInv, FailInv
  <2> QED BY <2>1, <2>2 DEF IInv
<1>3. ASSUME NEW k \in Keys, RollbackOne(c, k) PROVE IInv'
  <2> USE <1>3 DEF RollbackOne
  <2>1. closed
    BY DEF IInv, UndoInv
  <2>2. MutexInv' /\ FreshInv' /\ MapInv' /\ OkInv'
    BY <2>1 DEF IInv, TypeOK, MutexInv, FreshInv, MapInv, OkInv
  <2>3. UndoInv' /\ LoopInv' /\ FailInv'
    BY <2>1 DEF IInv, TypeOK, UndoInv, LoopInv, FailInv
  <2> QED BY <2>2, <2>3 DEF IInv
<1> QED BY <1>1, <1>2, <1>3 DEF Rollback

LEMMA ContextInv ==
  ASSUME IInv, TypeOK',
         \/ \E c \in Callers : ContextEnds(c)
         \/ \E k \in Keys : AwaitDone(k)
  PROVE  IInv'
<1> USE DEF ContextEnds, AwaitDone, driver, control, history
<1>1. MutexInv' /\ FreshInv' /\ MapInv' /\ OkInv'
  BY DEF IInv, TypeOK, MutexInv, FreshInv, MapInv, OkInv
<1>2. UndoInv' /\ FailInv'
  BY DEF IInv, TypeOK, UndoInv, FailInv, Committable
<1>3. LoopInv'
  BY DEF IInv, TypeOK, LoopInv, Committable
<1> QED BY <1>1, <1>2, <1>3 DEF IInv

LEMMA IdleInv ==
  ASSUME IInv, TypeOK', NewFails \/ Terminated \/ UNCHANGED vars
  PROVE  IInv'
BY DEF NewFails, Terminated, vars, driver, sqlTx, control, history, IInv,
       MutexInv, FreshInv, MapInv, UndoInv, LoopInv, FailInv, OkInv, Committable

(* The invariant holds in every reachable state.                           *)
THEOREM Inductive == Spec => []IInv
<1>1. IInv /\ TypeOK' /\ [Next]_vars => IInv'
  BY NewInv, CallInv, UseInv, CommitInv, RollbackInv, ContextInv, IdleInv DEF Next
<1> QED BY InitInv, <1>1, TypeCorrect, PTL DEF Spec

-----------------------------------------------------------------------------
(* Closing the driver leaves no database transaction open, whatever raced  *)
(* the close: NoOpenAfterClose for any number of goroutines and databases. *)
THEOREM NothingLeftOpen == Spec => []NoOpenAfterClose
<1>1. IInv => NoOpenAfterClose
  BY DEF IInv, UndoInv, NoOpenAfterClose
<1> QED BY Inductive, <1>1, PTL

(* A Commit that answered nil committed everything begun and acknowledged. *)
THEOREM CommitTotal == Spec => []CommitIsTotal
<1>1. IInv => CommitIsTotal
  BY DEF IInv, TypeOK, MapInv, OkInv, CommitIsTotal
<1> QED BY Inductive, <1>1, PTL

(* Goroutines that share the driver never begin a database twice.          *)
THEOREM OneTransactionPerKey == Spec => []BeginOnce
<1>1. IInv => BeginOnce
  BY DEF IInv, MapInv, BeginOnce
<1> QED BY Inductive, <1>1, PTL

(* A Commit that has failed cannot be retried into an answer of nil.       *)
THEOREM FailureSticks == Spec => FailedCommitSticks
<1>1. IInv /\ [Next]_vars => [commitRes = "err" => commitRes' = "err"]_vars
  <2> SUFFICES ASSUME IInv, [Next]_vars, commitRes = "err"
               PROVE  commitRes' = "err"
    OBVIOUS
  <2>1. ASSUME NEW c \in Callers, CommitDone(c) PROVE FALSE
    BY <2>1 DEF CommitDone, Return, At, IInv, LoopInv
  <2> QED
    BY <2>1 DEF Next, vars, driver, sqlTx, control, history, New, NewFails,
       Terminated, CallUse, CallCommit, CallRollback, Use, LockUse, UseCached,
       UseBegin, UseFails, ExecOk, ExecFails, Commit, LockCommit, CommitClosed,
       CommitOne, CommitFails, Rollback, RollbackClosed, RollbackTake,
       RollbackOne, RollbackDone, ContextEnds, AwaitDone
<1> QED BY Inductive, <1>1, PTL DEF Spec, FailedCommitSticks

-----------------------------------------------------------------------------
(* The lazy driver is a MultiTrx: a step of a caller, of database/sql or   *)
(* of a context begins, commits or aborts one database, settles the        *)
(* outcome, or is invisible.                                               *)
THEOREM Refinement == Spec => Implements
<1> USE DEF Outcome
<1>1. Init => Promise!Init
  BY DEF Init, Promise!Init
<1>2. ASSUME IInv, TypeOK', [Next]_vars
      PROVE  [Promise!Next]_(Promise!vars)
  <2> USE <1>2 DEF Promise!vars, At, Goto, Return, driver, sqlTx, control, history
  <2>1. ASSUME NEW c \in Callers, New(c) PROVE Promise!Next
    <3>1. PICK k \in Routes : Begin(c, k)
      BY <2>1 DEF New
    <3>2. Promise!Begin(k)
      BY <2>1, <3>1 DEF New, Begin, IInv, TypeOK, FreshInv, MapInv, Promise!Begin
    <3>3. k \in Keys
      BY <3>1 DEF Begin, IInv, TypeOK
    <3> QED BY <3>2, <3>3 DEF Promise!Next
  <2>2. ASSUME NEW c \in Callers, UseBegin(c) PROVE Promise!Next
    <3>1. Promise!Begin(key[c])
      BY <2>2 DEF UseBegin, Begin, IInv, TypeOK, MapInv, OkInv, Promise!Begin
    <3>2. key[c] \in Keys
      BY DEF IInv, TypeOK
    <3> QED BY <3>1, <3>2 DEF Promise!Next
  <2>3. ASSUME NEW c \in Callers, NEW k \in Keys, CommitOne(c, k)
        PROVE  Promise!Next
    <3>1. Promise!CommitOne(k)
      BY <2>3 DEF CommitOne, Committable, IInv, LoopInv, OkInv, Promise!CommitOne
    <3> QED BY <3>1 DEF Promise!Next
  <2>4. ASSUME NEW c \in Callers, NEW k \in Keys, CommitFails(c, k)
        PROVE  [Promise!Next]_(Promise!vars)
    <3>1. CASE status[k] = "open" /\ status' = [status EXCEPT ![k] = "committed"]
      <4>1. Promise!CommitOne(k)
        BY <2>4, <3>1 DEF CommitFails, IInv, LoopInv, OkInv, Promise!CommitOne
      <4> QED BY <4>1 DEF Promise!Next
    <3>2. CASE status[k] = "open" /\ status' = [status EXCEPT ![k] = "rolledback"]
      <4>1. Promise!Abort(k)
        BY <2>4, <3>2 DEF CommitFails, IInv, OkInv, Promise!Abort
      <4> QED BY <4>1 DEF Promise!Next
    <3>3. CASE UNCHANGED status
      BY <2>4, <3>3 DEF CommitFails, IInv, LoopInv, OkInv
    <3> QED BY <2>4, <3>1, <3>2, <3>3 DEF CommitFails, Committable
  <2>5. ASSUME NEW c \in Callers, CommitDone(c) PROVE Promise!Next
    <3>1. \A k \in Keys : status[k] \in {"none", "committed"}
      BY <2>5 DEF CommitDone, IInv, TypeOK, LoopInv, MapInv, OkInv
    <3>2. Promise!Succeed
      BY <2>5, <3>1 DEF CommitDone, IInv, LoopInv, OkInv, Promise!Succeed, Promise!Begun
    <3> QED BY <3>2 DEF Promise!Next
  <2>6. ASSUME NEW c \in Callers, RollbackTake(c) PROVE Promise!Next
    <3>1. Promise!GiveUp
      BY <2>6 DEF RollbackTake, IInv, OkInv, Promise!GiveUp
    <3> QED BY <3>1 DEF Promise!Next
  <2>7. ASSUME NEW c \in Callers, NEW k \in Keys, RollbackOne(c, k)
        PROVE  [Promise!Next]_(Promise!vars)
    <3>1. CASE status[k] = "open"
      <4>1. Promise!Abort(k)
        BY <2>7, <3>1 DEF RollbackOne, Promise!Abort
      <4> QED BY <4>1 DEF Promise!Next
    <3>2. CASE status[k] # "open"
      BY <2>7, <3>2 DEF RollbackOne, IInv, TypeOK
    <3> QED BY <3>1, <3>2
  <2>8. ASSUME NEW k \in Keys, AwaitDone(k) PROVE Promise!Next
    <3>1. Promise!Abort(k)
      BY <2>8 DEF AwaitDone, Promise!Abort
    <3> QED BY <3>1 DEF Promise!Next
  <2>9. ASSUME NEW c \in Callers,
               \/ CallUse(c) \/ CallCommit(c) \/ CallRollback(c)
               \/ LockUse(c) \/ UseCached(c) \/ UseFails(c)
               \/ ExecOk(c) \/ ExecFails(c)
               \/ LockCommit(c) \/ CommitClosed(c)
               \/ RollbackClosed(c) \/ RollbackDone(c)
               \/ ContextEnds(c)
        PROVE  UNCHANGED Promise!vars
    BY <2>9 DEF CallUse, CallCommit, CallRollback, LockUse, UseCached, UseFails,
       ExecOk, ExecFails, LockCommit, CommitClosed, RollbackClosed,
       RollbackDone, ContextEnds
  <2>10. CASE NewFails \/ Terminated \/ UNCHANGED vars
    BY <2>10 DEF NewFails, Terminated, vars
  <2> QED
    BY <2>1, <2>2, <2>3, <2>4, <2>5, <2>6, <2>7, <2>8, <2>9, <2>10
       DEF Next, Use, Commit, Rollback
<1> QED
  BY <1>1, <1>2, Inductive, TypeCorrect, PTL DEF Spec, Implements, Promise!Spec
=============================================================================
