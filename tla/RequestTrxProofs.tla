--------------------------- MODULE RequestTrxProofs ---------------------------
(***************************************************************************)
(* Proofs about RequestTrx, for any requests, databases and pool size: its *)
(* type invariant, whose last part says that no pool is overdrawn, what    *)
(* the answers of api.Success and api.Error mean, and that the driver of   *)
(* every request implements MultiTrx.                                      *)
(***************************************************************************)
EXTENDS RequestTrx, FiniteSetTheorems, TLAPS

(* The driver of a request by where the request is; a driver is "ready"    *)
(* only when every database was begun.                                     *)
DriverInv ==
  \A r \in Requests :
    /\ pc[r] = "begin" => driver[r] = "none" /\ ~tried[r]
    /\ pc[r] = "begin" => \A k \in todo[r] : status[r][k] = "none"
    /\ pc[r] = "begin" => \A k \in DBs \ todo[r] : status[r][k] # "none"
    /\ driver[r] = "ready" => \A k \in DBs : status[r][k] # "none"
    /\ driver[r] = "nil" /\ pc[r] # "begin" => pc[r] # "commit"
    /\ pc[r] # "begin" => driver[r] # "none"

(* How far the loops over the databases are.                               *)
LoopInv ==
  \A r \in Requests :
    /\ pc[r] = "commit" => tried[r]
    /\ pc[r] = "commit" => \A k \in DBs \ todo[r] : status[r][k] = "committed"
    /\ pc[r] = "rollback" /\ driver[r] = "ready" =>
         \A k \in DBs \ todo[r] : status[r][k] # "open"
    /\ ~tried[r] => \A k \in DBs : status[r][k] # "committed"

AnswerInv ==
  \A r \in Requests :
    /\ resp[r] = "none" <=> pc[r] # "answered"
    /\ resp[r] = "Success" => \A k \in DBs : status[r][k] = "committed"
    /\ resp[r] = "Error" /\ driver[r] = "ready" =>
         \A k \in DBs : status[r][k] # "open"

IInv == TypeOK /\ DriverInv /\ LoopInv /\ AnswerInv

-----------------------------------------------------------------------------
(* The pools.                                                              *)

LEMMA HoldersFinite == ASSUME NEW k PROVE IsFiniteSet(Holders(k))
BY PoolAssumption, FS_Subset DEF Holders

(* Only the step that takes a connection can overdraw a pool.              *)
LEMMA PoolShrinks ==
  ASSUME PoolsHold,
         \A r \in Requests, k \in DBs : status'[r][k] = "open" => status[r][k] = "open"
  PROVE  PoolsHold'
<1> SUFFICES ASSUME NEW k \in DBs PROVE Cardinality(Holders(k)') <= PoolSize
  BY DEF PoolsHold
<1>1. Holders(k)' \subseteq Holders(k)
  BY DEF Holders
<1>2. /\ Cardinality(Holders(k)') \in Nat /\ Cardinality(Holders(k)) \in Nat
      /\ Cardinality(Holders(k)') <= Cardinality(Holders(k))
  BY <1>1, HoldersFinite, FS_Subset, FS_CardinalityType
<1> QED BY <1>2, PoolAssumption DEF PoolsHold

LEMMA PoolTakes ==
  ASSUME Types, PoolsHold, NEW r \in Requests, NEW k \in DBs, BeginOne(r, k)
  PROVE  PoolsHold'
<1> SUFFICES ASSUME NEW j \in DBs PROVE Cardinality(Holders(j)') <= PoolSize
  BY DEF PoolsHold
<1>1. CASE j = k
  <2>1. Holders(k)' \subseteq Holders(k) \cup {r}
    BY DEF Types, BeginOne, SetStatus, Holders
  <2>2. /\ IsFiniteSet(Holders(k) \cup {r})
        /\ Cardinality(Holders(k) \cup {r}) <= Cardinality(Holders(k)) + 1
    <3>1. Cardinality(Holders(k)) \in Nat
      BY HoldersFinite, FS_CardinalityType
    <3>2. /\ IsFiniteSet(Holders(k) \cup {r})
          /\ Cardinality(Holders(k) \cup {r}) =
               IF r \in Holders(k) THEN Cardinality(Holders(k)) ELSE Cardinality(Holders(k)) + 1
      BY HoldersFinite, FS_AddElement, Zenon
    <3> QED BY <3>1, <3>2
  <2>3. Cardinality(Holders(k)') <= Cardinality(Holders(k) \cup {r})
    BY <2>1, <2>2, FS_Subset
  <2>4. /\ Cardinality(Holders(k)) \in Nat
        /\ Cardinality(Holders(k) \cup {r}) \in Nat
        /\ Cardinality(Holders(k)') \in Nat
    BY <2>1, <2>2, HoldersFinite, FS_Subset, FS_CardinalityType
  <2>5. Cardinality(Holders(k)) < PoolSize
    BY DEF BeginOne, Free, Holders
  <2> QED BY <1>1, <2>2, <2>3, <2>4, <2>5, PoolAssumption
<1>2. CASE j # k
  <2>1. Holders(j)' = Holders(j)
    BY <1>2 DEF Types, BeginOne, SetStatus, Holders
  <2> QED BY <2>1 DEF PoolsHold
<1> QED BY <1>1, <1>2

-----------------------------------------------------------------------------
(* The inductive invariant.                                                *)

LEMMA InitInv == Init => IInv
<1> SUFFICES ASSUME Init PROVE IInv
  OBVIOUS
<1>1. Types /\ DriverInv /\ LoopInv /\ AnswerInv
  BY DEF Init, Types, DriverInv, LoopInv, AnswerInv
<1>2. \A k \in DBs : Holders(k) = {}
  BY DEF Init, Holders
<1>3. PoolsHold
  BY <1>2, FS_EmptySet, PoolAssumption DEF PoolsHold
<1> QED BY <1>1, <1>3 DEF IInv, TypeOK

(* NewSqlTransactionMultiDB.                                               *)
LEMMA BeginInv ==
  ASSUME IInv, NEW r \in Requests, Begin(r)
  PROVE  IInv'
<1> USE DEF At, Goto, Pass, SetStatus, IInv, TypeOK
<1>1. ASSUME NEW k \in DBs, BeginOne(r, k) PROVE IInv'
  <2> USE <1>1 DEF BeginOne
  <2>1. PoolsHold'
    BY PoolTakes
  <2>2. Types'
    BY DEF Types
  <2>3. DriverInv'
    BY DEF Types, DriverInv
  <2>4. LoopInv' /\ AnswerInv'
    BY DEF Types, LoopInv, AnswerInv
  <2> QED BY <2>1, <2>2, <2>3, <2>4
<1>2. ASSUME NEW k \in DBs, BeginFails(r, k) PROVE IInv'
  <2> USE <1>2 DEF BeginFails
  <2>1. Types' /\ PoolsHold'
    <3>1. Types'
      BY DEF Types
    <3>2. PoolsHold'
      BY PoolShrinks DEF Types
    <3> QED BY <3>1, <3>2
  <2>2. DriverInv' /\ LoopInv' /\ AnswerInv'
    BY DEF Types, DriverInv, LoopInv, AnswerInv
  <2> QED BY <2>1, <2>2
<1>3. ASSUME BeginDone(r) PROVE IInv'
  <2> USE <1>3 DEF BeginDone
  <2>1. Types' /\ PoolsHold'
    <3>1. Types'
      BY DEF Types
    <3>2. PoolsHold'
      BY PoolShrinks DEF Types
    <3> QED BY <3>1, <3>2
  <2>2. DriverInv' /\ LoopInv' /\ AnswerInv'
    BY DEF Types, DriverInv, LoopInv, AnswerInv
  <2> QED BY <2>1, <2>2
<1> QED BY <1>1, <1>2, <1>3 DEF Begin

(* The helpers' answers and the calls that lead to them.                   *)
LEMMA HelperInv ==
  ASSUME IInv, NEW r \in Requests,
         \/ CallSuccess(r) \/ CallError(r) \/ Transform(r) \/ Panic(r)
         \/ CommitDone(r) \/ RollbackDone(r)
  PROVE  IInv'
<1> USE DEF At, Goto, Answer, IInv, TypeOK
<1>1. CASE CallSuccess(r) \/ CallError(r)
  <2> USE <1>1 DEF CallSuccess, CallError
  <2>1. Types' /\ PoolsHold'
    <3>1. Types'
      <4>1. todo' \in [Requests -> SUBSET DBs]
        BY DEF Types
      <4>2. tried' \in [Requests -> BOOLEAN]
        BY DEF Types
      <4> QED BY <4>1, <4>2 DEF Types
    <3>2. PoolsHold'
      BY PoolShrinks DEF Types
    <3> QED BY <3>1, <3>2
  <2>2. DriverInv' /\ LoopInv' /\ AnswerInv'
    BY DEF Types, DriverInv, LoopInv, AnswerInv
  <2> QED BY <2>1, <2>2
<1>2. CASE Transform(r) \/ Panic(r) \/ CommitDone(r) \/ RollbackDone(r)
  <2> USE <1>2 DEF Transform, Panic, CommitDone, RollbackDone
  <2>1. Types' /\ PoolsHold'
    <3>1. Types'
      BY DEF Types
    <3>2. PoolsHold'
      BY PoolShrinks DEF Types
    <3> QED BY <3>1, <3>2
  <2>2. DriverInv' /\ LoopInv'
    BY DEF Types, DriverInv, LoopInv
  <2>3. AnswerInv'
    BY DEF Types, LoopInv, AnswerInv
  <2> QED BY <2>1, <2>2, <2>3
<1> QED BY <1>1, <1>2

(* The loops of Commit and Rollback, and database/sql behind their back.   *)
LEMMA DatabaseInv ==
  ASSUME IInv, NEW r \in Requests, NEW k \in DBs,
         CommitOne(r, k) \/ CommitFails(r, k) \/ RollbackOne(r, k) \/ AwaitDone(r, k)
  PROVE  IInv'
<1> USE DEF At, Goto, Pass, SetStatus, IInv, TypeOK
<1>1. CASE CommitOne(r, k)
  <2> USE <1>1 DEF CommitOne
  <2>1. Types' /\ PoolsHold'
    <3>1. Types'
      BY DEF Types
    <3>2. PoolsHold'
      BY PoolShrinks DEF Types
    <3> QED BY <3>1, <3>2
  <2>2. DriverInv' /\ LoopInv' /\ AnswerInv'
    BY DEF Types, DriverInv, LoopInv, AnswerInv
  <2> QED BY <2>1, <2>2
<1>2. CASE CommitFails(r, k)
  <2> USE <1>2 DEF CommitFails
  <2>1. Types' /\ PoolsHold'
    <3>1. Types'
      <4>1. todo' \in [Requests -> SUBSET DBs]
        BY DEF Types
      <4>2. CASE live[r] /\ status[r][k] = "open"
        <5>1. PICK s \in {"committed", "rolledback"} : SetStatus(r, k, s)
          BY <4>2
        <5>2. status' \in [Requests -> [DBs -> {"none", "open", "committed", "rolledback"}]]
          BY <5>1 DEF Types
        <5> QED BY <4>1, <5>2 DEF Types
      <4>3. CASE ~(live[r] /\ status[r][k] = "open")
        BY <4>1, <4>3 DEF Types
      <4> QED BY <4>2, <4>3
    <3>2. PoolsHold'
      BY PoolShrinks DEF Types
    <3> QED BY <3>1, <3>2
  <2>2. DriverInv' /\ LoopInv' /\ AnswerInv'
    BY DEF Types, DriverInv, LoopInv, AnswerInv
  <2> QED BY <2>1, <2>2
<1>3. CASE RollbackOne(r, k)
  <2> USE <1>3 DEF RollbackOne
  <2>1. Types' /\ PoolsHold'
    <3>1. Types'
      BY DEF Types
    <3>2. PoolsHold'
      BY PoolShrinks DEF Types
    <3> QED BY <3>1, <3>2
  <2>2. DriverInv' /\ LoopInv' /\ AnswerInv'
    BY DEF Types, DriverInv, LoopInv, AnswerInv
  <2> QED BY <2>1, <2>2
<1>4. CASE AwaitDone(r, k)
  <2> USE <1>4 DEF AwaitDone
  <2>1. Types' /\ PoolsHold'
    <3>1. Types'
      BY DEF Types
    <3>2. PoolsHold'
      BY PoolShrinks DEF Types
    <3> QED BY <3>1, <3>2
  <2>2. DriverInv' /\ LoopInv' /\ AnswerInv'
    BY DEF Types, DriverInv, LoopInv, AnswerInv
  <2> QED BY <2>1, <2>2
<1> QED BY <1>1, <1>2, <1>3, <1>4

(* Steps that leave the transactions and the control alone.                *)
LEMMA OtherInv ==
  ASSUME IInv,
         \/ \E r \in Requests : ContextEnds(r) \/ \E k \in DBs : Exec(r, k)
         \/ Terminated \/ UNCHANGED vars
  PROVE  IInv'
<1>1. UNCHANGED <<driver, todo, status, resp, tried>> /\ pc' = pc
  BY DEF IInv, TypeOK, Types, ContextEnds, Exec, At, Goto, Terminated, vars
<1>2. Types'
  <2>1. live' \in [Requests -> BOOLEAN] /\ wrote' \in [Requests -> SUBSET DBs]
    <3>1. CASE \E r \in Requests : ContextEnds(r)
      BY <3>1 DEF IInv, TypeOK, Types, ContextEnds
    <3>2. CASE \E r \in Requests, k \in DBs : Exec(r, k)
      BY <3>2 DEF IInv, TypeOK, Types, Exec
    <3>3. CASE Terminated \/ UNCHANGED vars
      BY <3>3 DEF IInv, TypeOK, Types, Terminated, vars
    <3> QED BY <3>1, <3>2, <3>3
  <2> QED BY <1>1, <2>1 DEF IInv, TypeOK, Types
<1>3. PoolsHold'
  BY <1>1, PoolShrinks DEF IInv, TypeOK
<1>4. DriverInv' /\ LoopInv' /\ AnswerInv'
  BY <1>1 DEF IInv, DriverInv, LoopInv, AnswerInv
<1> QED BY <1>2, <1>3, <1>4 DEF IInv, TypeOK

(* The invariant holds in every reachable state.                           *)
THEOREM Inductive == Spec => []IInv
<1>1. IInv /\ [Next]_vars => IInv'
  BY BeginInv, HelperInv, DatabaseInv, OtherInv DEF Next, Settle
<1> QED BY InitInv, <1>1, PTL DEF Spec

-----------------------------------------------------------------------------
(* Every variable keeps its type, and no pool is overdrawn: whatever the   *)
(* order in which the requests visit the databases.                        *)
THEOREM TypeCorrect == Spec => []TypeOK
<1>1. IInv => TypeOK
  BY DEF IInv
<1> QED BY Inductive, <1>1, PTL

(* An answer of api.Success means that every database is committed.        *)
THEOREM SuccessDurable == Spec => []SuccessMeansDurable
<1>1. IInv => SuccessMeansDurable
  BY DEF IInv, AnswerInv, SuccessMeansDurable
<1> QED BY Inductive, <1>1, PTL

(* An answer of api.Error leaves no transaction open, and nothing          *)
(* committed unless Commit was called.                                     *)
THEOREM ErrorLeavesNothing == Spec => []ErrorUndoes
<1>1. IInv => ErrorUndoes
  BY DEF IInv, AnswerInv, LoopInv, ErrorUndoes
<1> QED BY Inductive, <1>1, PTL

-----------------------------------------------------------------------------
(* The refinement.  A step of a request is a step of its own MultiTrx, or  *)
(* none, and no step of the others'.                                       *)

PromiseStep(r) == Promise(r)!Next \/ UNCHANGED Promise(r)!vars

LEMMA OthersStutter ==
  ASSUME NEW r \in Requests, UNCHANGED <<status, resp>>
  PROVE  PromiseStep(r)
BY DEF PromiseStep, Promise!vars

LEMMA BeginPromise ==
  ASSUME IInv, NEW r \in Requests, NEW k \in DBs, BeginOne(r, k)
  PROVE  PromiseStep(r)
<1>1. status[r][k] = "none" /\ resp[r] = "none"
  BY DEF BeginOne, At, Pass, IInv, DriverInv, AnswerInv
<1>2. Promise(r)!Begin(k)
  BY <1>1 DEF BeginOne, SetStatus, IInv, TypeOK, Types, Promise!Begin
<1> QED BY <1>2 DEF PromiseStep, Promise!Next

(* A step on one database: a commit, an end of its transaction, or nothing *)
(* when it had ended before.                                               *)
LEMMA DatabasePromise ==
  ASSUME IInv, NEW r \in Requests, NEW k \in DBs,
         CommitOne(r, k) \/ CommitFails(r, k) \/ RollbackOne(r, k) \/ AwaitDone(r, k)
  PROVE  PromiseStep(r)
<1> USE DEF SetStatus, IInv, TypeOK, Types
<1>1. CASE CommitOne(r, k)
  <2>1. Promise(r)!CommitOne(k)
    BY <1>1 DEF CommitOne, At, AnswerInv, Promise!CommitOne
  <2> QED BY <2>1 DEF PromiseStep, Promise!Next
<1>2. CASE RollbackOne(r, k) \/ AwaitDone(r, k)
  <2>1. CASE status[r][k] = "open"
    <3>1. Promise(r)!Abort(k)
      BY <1>2, <2>1 DEF RollbackOne, AwaitDone, Promise!Abort
    <3> QED BY <3>1 DEF PromiseStep, Promise!Next
  <2>2. CASE status[r][k] # "open"
    BY <1>2, <2>2 DEF RollbackOne, AwaitDone, PromiseStep, Promise!vars
  <2> QED BY <2>1, <2>2
<1>3. CASE CommitFails(r, k)
  <2>1. CASE ~(live[r] /\ status[r][k] = "open")
    BY <1>3, <2>1 DEF CommitFails, PromiseStep, Promise!vars
  <2>2. CASE live[r] /\ status[r][k] = "open"
    <3>1. CASE SetStatus(r, k, "committed")
      <4>1. Promise(r)!CommitOne(k)
        BY <1>3, <2>2, <3>1 DEF CommitFails, At, AnswerInv, Promise!CommitOne
      <4> QED BY <4>1 DEF PromiseStep, Promise!Next
    <3>2. CASE SetStatus(r, k, "rolledback")
      <4>1. Promise(r)!Abort(k)
        BY <1>3, <2>2, <3>2 DEF CommitFails, Promise!Abort
      <4> QED BY <4>1 DEF PromiseStep, Promise!Next
    <3> QED BY <1>3, <2>2, <3>1, <3>2 DEF CommitFails
  <2> QED BY <2>1, <2>2
<1> QED BY <1>1, <1>2, <1>3

(* An answer is the promise's success when it is api.Success's, and keeps  *)
(* the driver active otherwise.                                            *)
LEMMA AnswerPromise ==
  ASSUME IInv, NEW r \in Requests,
         Transform(r) \/ Panic(r) \/ CommitDone(r) \/ RollbackDone(r)
  PROVE  PromiseStep(r)
<1> USE DEF Answer, At, IInv, TypeOK, Types
<1>1. resp[r] # "Success"
  BY DEF Transform, Panic, CommitDone, RollbackDone, AnswerInv
<1>2. CASE CommitDone(r)
  <2>1. \A k \in DBs : status[r][k] = "committed"
    BY <1>2 DEF CommitDone, LoopInv
  <2>2. Promise(r)!Succeed
    BY <1>1, <1>2, <2>1 DEF CommitDone, Promise!Succeed, Promise!Begun
  <2> QED BY <2>2 DEF PromiseStep, Promise!Next
<1>3. CASE Transform(r) \/ Panic(r) \/ RollbackDone(r)
  BY <1>1, <1>3 DEF Transform, Panic, RollbackDone, PromiseStep, Promise!vars
<1> QED BY <1>2, <1>3

(* No step is a step of two requests.                                      *)
LEMMA OneMoves ==
  ASSUME IInv, NEW r \in Requests, NEW q \in Requests, q # r,
         Begin(r) \/ Settle(r) \/ \E k \in DBs : AwaitDone(r, k)
  PROVE  PromiseStep(q)
<1>1. status'[q] = status[q] /\ resp'[q] = resp[q]
  <2> USE DEF IInv, TypeOK, Types
  <2>1. CASE Begin(r)
    BY <2>1 DEF Begin, BeginOne, BeginFails, BeginDone, SetStatus
  <2>2. CASE CallSuccess(r) \/ CallError(r) \/ Transform(r) \/ Panic(r)
             \/ CommitDone(r) \/ RollbackDone(r)
    BY <2>2 DEF CallSuccess, CallError, Transform, Panic, CommitDone, RollbackDone, Answer
  <2>3. ASSUME NEW k \in DBs,
               CommitOne(r, k) \/ CommitFails(r, k) \/ RollbackOne(r, k) \/ AwaitDone(r, k)
        PROVE  status'[q] = status[q] /\ resp'[q] = resp[q]
    BY <2>3 DEF CommitOne, CommitFails, RollbackOne, AwaitDone, SetStatus
  <2> QED BY <2>1, <2>2, <2>3 DEF Settle
<1> QED BY <1>1 DEF PromiseStep, Promise!vars

LEMMA StepImplements == IInv /\ [Next]_vars => \A q \in Requests : PromiseStep(q)
<1> SUFFICES ASSUME IInv, [Next]_vars, NEW q \in Requests PROVE PromiseStep(q)
  OBVIOUS
<1>1. ASSUME NEW r \in Requests, Begin(r) PROVE PromiseStep(q)
  <2>1. ASSUME NEW k \in DBs, BeginOne(r, k), q = r PROVE PromiseStep(q)
    BY <2>1, BeginPromise
  <2>2. ASSUME NEW k \in DBs, BeginFails(r, k) PROVE PromiseStep(q)
    BY <2>2, OthersStutter DEF BeginFails
  <2>3. CASE BeginDone(r)
    BY <2>3, OthersStutter DEF BeginDone
  <2> QED BY <1>1, <2>1, <2>2, <2>3, OneMoves DEF Begin
<1>2. ASSUME NEW r \in Requests, Settle(r) PROVE PromiseStep(q)
  <2>1. CASE CallSuccess(r) \/ CallError(r)
    BY <2>1, OthersStutter DEF CallSuccess, CallError
  <2> QED BY <1>2, <2>1, AnswerPromise, DatabasePromise, OneMoves DEF Settle
<1>3. ASSUME NEW r \in Requests, NEW k \in DBs, AwaitDone(r, k) PROVE PromiseStep(q)
  BY <1>3, DatabasePromise, OneMoves
<1>4. CASE \/ \E r \in Requests : ContextEnds(r) \/ \E k \in DBs : Exec(r, k)
           \/ Terminated \/ UNCHANGED vars
  BY <1>4, OthersStutter DEF ContextEnds, Exec, Terminated, vars
<1> QED BY <1>1, <1>2, <1>3, <1>4 DEF Next

(* The driver of every request implements MultiTrx, whatever the others    *)
(* do: it begins a database at most once, changes no transaction that has  *)
(* ended, and succeeds only when all that was begun is committed.          *)
THEOREM Refinement == Spec => Implements
<1>1. Init => \A r \in Requests : Promise(r)!Init
  BY DEF Init, Promise!Init
<1>2. IInv /\ [Next]_vars =>
        [\A r \in Requests : Promise(r)!Next \/ UNCHANGED Promise(r)!vars]_vars
  BY StepImplements DEF PromiseStep
<1> QED BY Inductive, <1>1, <1>2, PTL DEF Spec, Implements
=============================================================================
