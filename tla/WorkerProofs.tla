----------------------------- MODULE WorkerProofs -----------------------------
(***************************************************************************)
(* Proofs about the background worker: the attempts of a task (WorkerTask),*)
(* for any number of them, and the scheduler of cron entries               *)
(* (CronSchedule), for any replicas, clock offsets, jitter and ttl within  *)
(* TimeAssumption.                                                         *)
(*                                                                         *)
(* WorkerTask turns on contexts: an attempt whose context is live is the   *)
(* one asynq waits for (LiveInv), so that whatever commits is awaited at   *)
(* that moment, and only what asynq does with it later can leave the       *)
(* commit unheard (HeardInv).                                              *)
(*                                                                         *)
(* CronSchedule: a lock ends before the replica that took it fires its     *)
(* next tick (LockInv), so the last replica to fire a tick cannot find the *)
(* lock of an earlier one, and clocks are too close for it to find the     *)
(* lock of a later one.                                                    *)
(***************************************************************************)
EXTENDS WorkerTask, CronSchedule, TLAPS

(* asynq waits for the last attempt, while the task is active.             *)
AwaitInv ==
  awaited # 0 => /\ task = "active"
                 /\ awaited = tries
                 /\ pc[awaited] \notin {"none", "crashed"}

(* Only the attempt asynq waits for has a context that is live.            *)
LiveInv == \A a \in Attempts : pc[a] # "none" /\ live[a] => awaited = a

(* What the transaction of an attempt can be, by where the attempt is.     *)
StatusInv ==
  \A a \in Attempts :
    /\ pc[a] \in {"none", "begin"} => status[a] = "none"
    /\ status[a] = "open" => pc[a] \in {"handle", "commit", "undo"}
    /\ status[a] = "committed" => pc[a] \in {"undo", "returned", "crashed"}

(* The middleware returns nil only after a commit, and an error after one  *)
(* only when the database left it in doubt.                                *)
ResultInv ==
  \A a \in Attempts :
    /\ res[a] = "nil" => status[a] = "committed"
    /\ status[a] = "committed" /\ pc[a] # "crashed" => res[a] = "nil" \/ a \in doubt

Unheard(a) == a \in doubt \/ cut[a] \in {"commit", "undo", "returned"}

(* What becomes of a commit: asynq still waits for its attempt, or took    *)
(* its result, or the commit went unheard.                                 *)
HeardInv ==
  \A a \in Attempts :
    status[a] = "committed" =>
      awaited = a \/ Unheard(a) \/ (task = "done" /\ tries = a)

IInv ==
  /\ TypeOK
  /\ AwaitInv /\ LiveInv /\ StatusInv /\ ResultInv /\ HeardInv
  /\ DoneMeansCommitted

-----------------------------------------------------------------------------
LEMMA InitInv == Init => IInv
BY AttemptAssumption
   DEF Init, IInv, TypeOK, AwaitInv, LiveInv, StatusInv, ResultInv, HeardInv,
       DoneMeansCommitted, Attempts

(* asynq waits for an attempt, and for one that it started.                *)
LEMMA AwaitedIsAttempt == IInv /\ awaited # 0 => awaited \in Attempts
BY AttemptAssumption DEF IInv, TypeOK, Attempts

(* A step of the middleware moves one attempt and its transaction.         *)
LEMMA MiddlewareInv ==
  ASSUME IInv, NEW a \in Attempts, Middleware(a)
  PROVE  IInv'
<1> USE DEF At, SetStatus, asynq
<1>1. CASE Begin(a) \/ BeginFails(a) \/ HandlerOk(a) \/ HandlerFails(a)
  <2> USE <1>1 DEF Begin, BeginFails, HandlerOk, HandlerFails
  <2>1. TypeOK'
    BY DEF IInv, TypeOK, StatusInv
  <2>2. AwaitInv' /\ LiveInv' /\ DoneMeansCommitted'
    <3>1. AwaitInv'
      BY AwaitedIsAttempt DEF IInv, TypeOK, AwaitInv
    <3>2. LiveInv'
      BY DEF IInv, TypeOK, LiveInv
    <3>3. DoneMeansCommitted'
      BY DEF IInv, TypeOK, StatusInv, DoneMeansCommitted
    <3> QED BY <3>1, <3>2, <3>3
  <2>3. StatusInv' /\ ResultInv' /\ HeardInv'
    BY DEF IInv, TypeOK, StatusInv, ResultInv, HeardInv, Unheard
  <2> QED BY <2>1, <2>2, <2>3 DEF IInv
<1>2. CASE CommitOk(a)
  <2> USE <1>2 DEF CommitOk
  <2>1. awaited = a
    BY DEF IInv, LiveInv
  <2>2. TypeOK'
    BY DEF IInv, TypeOK
  <2>3. AwaitInv' /\ LiveInv' /\ DoneMeansCommitted'
    <3>1. AwaitInv'
      BY <2>1, AwaitedIsAttempt DEF IInv, TypeOK, AwaitInv
    <3>2. LiveInv'
      BY <2>1 DEF IInv, TypeOK, LiveInv
    <3>3. DoneMeansCommitted'
      BY <2>1 DEF IInv, TypeOK, StatusInv, DoneMeansCommitted
    <3> QED BY <3>1, <3>2, <3>3
  <2>4. StatusInv' /\ ResultInv' /\ HeardInv'
    BY <2>1 DEF IInv, TypeOK, StatusInv, ResultInv, HeardInv, Unheard
  <2> QED BY <2>2, <2>3, <2>4 DEF IInv
<1>3. CASE CommitFails(a)
  <2> USE <1>3 DEF CommitFails
  <2>1. TypeOK'
    BY DEF IInv, TypeOK
  <2>2. AwaitInv' /\ LiveInv' /\ DoneMeansCommitted'
    <3>1. AwaitInv'
      BY AwaitedIsAttempt DEF IInv, TypeOK, AwaitInv
    <3>2. LiveInv'
      BY DEF IInv, TypeOK, LiveInv
    <3>3. DoneMeansCommitted'
      BY DEF IInv, TypeOK, StatusInv, DoneMeansCommitted
    <3> QED BY <3>1, <3>2, <3>3
  <2>3. status[a] # "committed"
    BY DEF IInv, StatusInv
  <2>4. StatusInv' /\ ResultInv' /\ HeardInv'
    BY <2>3 DEF IInv, TypeOK, StatusInv, ResultInv, HeardInv, Unheard
  <2> QED BY <2>1, <2>2, <2>4 DEF IInv
<1>4. CASE Rollback(a)
  <2> USE <1>4 DEF Rollback
  <2>1. TypeOK'
    BY DEF IInv, TypeOK
  <2>2. AwaitInv' /\ LiveInv' /\ DoneMeansCommitted'
    <3>1. AwaitInv'
      BY AwaitedIsAttempt DEF IInv, TypeOK, AwaitInv
    <3>2. LiveInv'
      BY DEF IInv, TypeOK, LiveInv
    <3>3. DoneMeansCommitted'
      BY DEF IInv, TypeOK, StatusInv, DoneMeansCommitted
    <3> QED BY <3>1, <3>2, <3>3
  <2>3. StatusInv' /\ ResultInv' /\ HeardInv'
    BY DEF IInv, TypeOK, StatusInv, ResultInv, HeardInv, Unheard
  <2> QED BY <2>1, <2>2, <2>3 DEF IInv
<1> QED BY <1>1, <1>2, <1>3, <1>4 DEF Middleware

(* asynq starts an attempt, takes its result or turns from it.             *)
LEMMA AsynqInv ==
  ASSUME IInv, NEW a \in Attempts, Dequeue(a) \/ TakeResult(a) \/ GiveUp(a)
  PROVE  IInv'
<1> USE DEF At, Again, TurnFrom
<1>1. CASE Dequeue(a)
  <2> USE <1>1 DEF Dequeue
  <2>1. awaited = 0
    BY DEF IInv, TypeOK
  <2>2. TypeOK'
    BY AttemptAssumption DEF IInv, TypeOK, Attempts
  <2>3. AwaitInv' /\ LiveInv' /\ DoneMeansCommitted'
    <3>1. AwaitInv'
      BY <2>1, AwaitedIsAttempt DEF IInv, TypeOK, AwaitInv
    <3>2. LiveInv'
      BY <2>1, AttemptAssumption DEF IInv, TypeOK, LiveInv, Attempts
    <3>3. DoneMeansCommitted'
      BY <2>1 DEF IInv, TypeOK, StatusInv, DoneMeansCommitted
    <3> QED BY <3>1, <3>2, <3>3
  <2>4. StatusInv' /\ ResultInv' /\ HeardInv'
    BY <2>1 DEF IInv, TypeOK, StatusInv, ResultInv, HeardInv, Unheard, Attempts
  <2> QED BY <2>2, <2>3, <2>4 DEF IInv
<1>2. CASE TakeResult(a)
  <2> USE <1>2 DEF TakeResult
  <2>1. task = "active" /\ tries = a
    BY DEF IInv, AwaitInv, Attempts
  <2>2. TypeOK'
    BY DEF IInv, TypeOK
  <2>3. AwaitInv' /\ LiveInv'
    BY DEF IInv, TypeOK, AwaitInv, LiveInv, Attempts
  <2>4. StatusInv' /\ ResultInv' /\ DoneMeansCommitted'
    BY DEF IInv, TypeOK, StatusInv, ResultInv, DoneMeansCommitted
  <2>5. HeardInv'
    BY <2>1 DEF IInv, TypeOK, ResultInv, HeardInv, Unheard, Attempts
  <2> QED BY <2>2, <2>3, <2>4, <2>5 DEF IInv
<1>3. CASE GiveUp(a)
  <2> USE <1>3 DEF GiveUp
  <2>1. task = "active" /\ pc[a] \notin {"none", "crashed"}
    BY DEF IInv, AwaitInv, Attempts
  <2>2. TypeOK'
    BY <2>1 DEF IInv, TypeOK
  <2>3. AwaitInv' /\ LiveInv' /\ DoneMeansCommitted'
    <3>1. AwaitInv'
      BY <2>1, AwaitedIsAttempt DEF IInv, TypeOK, AwaitInv
    <3>2. LiveInv'
      BY <2>1 DEF IInv, TypeOK, LiveInv
    <3>3. DoneMeansCommitted'
      BY <2>1 DEF IInv, TypeOK, StatusInv, DoneMeansCommitted
    <3> QED BY <3>1, <3>2, <3>3
  <2>4. StatusInv' /\ ResultInv' /\ HeardInv'
    BY <2>1 DEF IInv, TypeOK, StatusInv, ResultInv, HeardInv, Unheard, Attempts
  <2> QED BY <2>2, <2>3, <2>4 DEF IInv
<1> QED BY <1>1, <1>2, <1>3

(* Contexts end, processes crash, and the database rolls back.             *)
LEMMA FaultInv ==
  ASSUME IInv, NEW a \in Attempts, ContextEnds(a) \/ Crash(a) \/ AwaitDone(a)
  PROVE  IInv'
<1> USE DEF SetStatus, asynq, TurnFrom
<1>1. CASE ContextEnds(a) \/ AwaitDone(a)
  <2> USE <1>1 DEF ContextEnds, AwaitDone
  <2>1. TypeOK'
    BY DEF IInv, TypeOK
  <2>2. AwaitInv' /\ LiveInv' /\ DoneMeansCommitted'
    <3>1. AwaitInv'
      BY AwaitedIsAttempt DEF IInv, TypeOK, AwaitInv
    <3>2. LiveInv'
      BY DEF IInv, TypeOK, LiveInv
    <3>3. DoneMeansCommitted'
      BY DEF IInv, TypeOK, StatusInv, DoneMeansCommitted
    <3> QED BY <3>1, <3>2, <3>3
  <2>3. StatusInv' /\ ResultInv' /\ HeardInv'
    BY DEF IInv, TypeOK, StatusInv, ResultInv, HeardInv, Unheard
  <2> QED BY <2>1, <2>2, <2>3 DEF IInv
<1>2. CASE Crash(a)
  <2> USE <1>2 DEF Crash
  <2>1. awaited = a => task = "active"
    BY DEF IInv, AwaitInv, Attempts
  <2>2. status[a] = "open" => pc[a] \in {"handle", "commit", "undo"}
    BY DEF IInv, StatusInv
  <2>3. TypeOK'
    BY <2>1 DEF IInv, TypeOK, AwaitInv, Attempts
  <2>4. AwaitInv' /\ LiveInv' /\ DoneMeansCommitted'
    <3>1. AwaitInv'
      BY AwaitedIsAttempt DEF IInv, TypeOK, AwaitInv
    <3>2. LiveInv'
      BY DEF IInv, TypeOK, LiveInv
    <3>3. DoneMeansCommitted'
      BY DEF IInv, TypeOK, StatusInv, DoneMeansCommitted
    <3> QED BY <3>1, <3>2, <3>3
  <2>5. StatusInv' /\ ResultInv'
    BY <2>2 DEF IInv, TypeOK, StatusInv, ResultInv
  <2>6. HeardInv'
    <3>1. status'[a] = "committed" => awaited' = a \/ Unheard(a)' \/ (task = "done" /\ tries = a)
      BY <2>2 DEF IInv, TypeOK, LiveInv, StatusInv, HeardInv, Unheard, Attempts
    <3>2. \A b \in Attempts \ {a} : status'[b] = status[b] /\ cut'[b] = cut[b]
      BY DEF IInv, TypeOK
    <3>3. \A b \in Attempts \ {a} : awaited = b => awaited' = b
      OBVIOUS
    <3> QED BY <3>1, <3>2, <3>3 DEF IInv, HeardInv, Unheard
  <2> QED BY <2>3, <2>4, <2>5, <2>6 DEF IInv
<1> QED BY <1>1, <1>2

LEMMA RecoverInv ==
  ASSUME IInv, Recover \/ Terminated \/ UNCHANGED vars
  PROVE  IInv'
<1>1. TypeOK' /\ AwaitInv' /\ LiveInv'
  BY DEF Recover, Again, Terminated, vars, IInv, TypeOK, AwaitInv, LiveInv
<1>2. StatusInv' /\ ResultInv' /\ HeardInv' /\ DoneMeansCommitted'
  BY DEF Recover, Again, Terminated, vars, IInv, StatusInv, ResultInv, HeardInv,
         Unheard, DoneMeansCommitted
<1> QED BY <1>1, <1>2 DEF IInv

(* The invariant holds in every reachable state.                           *)
THEOREM Inductive == Spec => []IInv
<1>1. IInv /\ [Next]_vars => IInv'
  BY MiddlewareInv, AsynqInv, FaultInv, RecoverInv DEF Next
<1> QED BY InitInv, <1>1, PTL DEF Spec

-----------------------------------------------------------------------------
(* Every variable keeps its type, however many attempts are made: asynq    *)
(* waits for an attempt it has started and records where it turned from it. *)
THEOREM TypeCorrect == Spec => []TypeOK
<1>1. IInv => TypeOK
  BY DEF IInv
<1> QED BY Inductive, <1>1, PTL

(* A task is done only when an attempt has committed: a panic, an ended    *)
(* context or a failed Commit never counts as success.                     *)
THEOREM DoneIsCommitted == Spec => []DoneMeansCommitted
<1>1. IInv => DoneMeansCommitted
  BY DEF IInv
<1> QED BY Inductive, <1>1, PTL

(* The deferred Rollback leaves no transaction open, on whichever path the *)
(* middleware returns.                                                     *)
THEOREM NothingHeldOnReturn == Spec => []SettledOnReturn
<1>1. IInv => SettledOnReturn
  BY DEF IInv, StatusInv, SettledOnReturn
<1> QED BY Inductive, <1>1, PTL

(* A committed attempt is repeated only when asynq turned from it at or    *)
(* after its Commit or the database left it in doubt: for any number of    *)
(* attempts that outlive their deadlines next to one another.              *)
THEOREM OnlyUnheardRepeats == Spec => []RepeatsOnlyUnheard
<1>1. IInv => RepeatsOnlyUnheard
  BY DEF IInv, TypeOK, AwaitInv, HeardInv, Unheard, RepeatsOnlyUnheard, Attempts
<1> QED BY Inductive, <1>1, PTL

(* A transaction that is committed or rolled back, and a task that is done, *)
(* change no more.                                                         *)
EndedKept ==
  /\ \A a \in Attempts :
       status[a] \in {"committed", "rolledback"} => status'[a] = status[a]
  /\ task = "done" => task' = "done"

LEMMA StepKeepsEnded == IInv /\ [Next]_vars => EndedKept
<1> SUFFICES ASSUME IInv, [Next]_vars PROVE EndedKept
  OBVIOUS
<1> USE DEF At, SetStatus, asynq, EndedKept
<1>1. ASSUME NEW b \in Attempts, Middleware(b) PROVE EndedKept
  BY <1>1 DEF IInv, TypeOK, StatusInv, Middleware, Begin, BeginFails, HandlerOk,
     HandlerFails, CommitOk, CommitFails, Rollback
<1>2. ASSUME NEW b \in Attempts,
             Dequeue(b) \/ TakeResult(b) \/ GiveUp(b) \/ ContextEnds(b)
      PROVE  EndedKept
  BY <1>2 DEF IInv, AwaitInv, Dequeue, TakeResult, GiveUp, TurnFrom, ContextEnds, Attempts
<1>3. ASSUME NEW b \in Attempts, Crash(b) \/ AwaitDone(b) PROVE EndedKept
  BY <1>3 DEF IInv, TypeOK, Crash, AwaitDone
<1>4. CASE Recover \/ Terminated \/ UNCHANGED vars
  BY <1>4 DEF Recover, Terminated, vars
<1> QED BY <1>1, <1>2, <1>3, <1>4 DEF Next

(* What has ended stays as it is: no step of a process, of asynq or of the *)
(* database changes a transaction that was committed or rolled back, or a  *)
(* task that was recorded as done.                                         *)
THEOREM EndedStays == Spec => [][EndedKept]_vars
BY Inductive, StepKeepsEnded, PTL DEF Spec

-----------------------------------------------------------------------------
(* The cron scheduler.                                                     *)

(* The time at which r's clock reaches tick n.                             *)
DueAt(r, n) == n * Interval + Offset[r]

(* No scheduler is later than the jitter, and none is early.               *)
ClockInv ==
  \A r \in Replicas :
    /\ fired[r] < MaxTick => now <= DueAt(r, fired[r] + 1) + Jitter
    /\ fired[r] > 0 => DueAt(r, fired[r]) <= now

(* The lock's task has been enqueued by a scheduler that fired its tick,   *)
(* and it ends before that scheduler is due again.                         *)
LockInv ==
  lock # NoTask =>
    /\ lock \in enqueued
    /\ lock.tick <= fired[lock.by]
    /\ expires <= DueAt(lock.by, lock.tick + 1)

CronIInv == CronTypeOK /\ ClockInv /\ LockInv /\ EveryTickEnqueued

-----------------------------------------------------------------------------
LEMMA MulMono ==
  ASSUME NEW m \in Nat, NEW n \in Nat, NEW k \in Nat, m <= n
  PROVE  m * k <= n * k
  OBVIOUS

LEMMA MulSucc ==
  ASSUME NEW n \in Nat, NEW k \in Nat
  PROVE  (n + 1) * k = n * k + k /\ n * k \in Nat
  OBVIOUS

LEMMA DueNat ==
  ASSUME NEW r \in Replicas, NEW n \in Nat
  PROVE  DueAt(r, n) \in Nat
  BY TimeAssumption, MulSucc DEF DueAt

(* A replica's next tick is an interval later.                             *)
LEMMA DueNext ==
  ASSUME NEW r \in Replicas, NEW n \in Nat
  PROVE  DueAt(r, n + 1) = DueAt(r, n) + Interval
  BY TimeAssumption, MulSucc DEF DueAt

LEMMA DueMono ==
  ASSUME NEW r \in Replicas, NEW m \in Nat, NEW n \in Nat, m <= n
  PROVE  DueAt(r, m) <= DueAt(r, n)
<1>1. m * Interval <= n * Interval /\ m * Interval \in Nat /\ n * Interval \in Nat
  BY MulMono, MulSucc, TimeAssumption
<1>. QED  BY <1>1, TimeAssumption DEF DueAt

(* Every scheduler has fired a tick before any is due for the next.        *)
LEMMA DueCross ==
  ASSUME NEW r \in Replicas, NEW s \in Replicas, NEW m \in Nat, NEW n \in Nat, m < n
  PROVE  DueAt(r, m) + Jitter < DueAt(s, n)
<1>1. (m + 1) * Interval <= n * Interval
  BY MulMono, TimeAssumption
<1>2. /\ (m + 1) * Interval = m * Interval + Interval
      /\ m * Interval \in Nat /\ n * Interval \in Nat
  BY MulSucc, TimeAssumption
<1>. QED  BY <1>1, <1>2, TimeAssumption DEF DueAt

LEMMA DueIsDueAt ==
  ASSUME CronTypeOK, NEW r \in Replicas
  PROVE  Due(r) = DueAt(r, fired[r] + 1)
  BY DEF Due, DueAt, CronTypeOK

-----------------------------------------------------------------------------
LEMMA CronInitInv == CronInit => CronIInv
<1>. SUFFICES ASSUME CronInit PROVE CronIInv
  OBVIOUS
<1>1. CronTypeOK
  BY TimeAssumption DEF CronInit, CronTypeOK
<1>2. ClockInv
  BY <1>1, DueNat, TimeAssumption DEF CronInit, ClockInv, CronTypeOK
<1>3. LockInv
  BY DEF CronInit, LockInv
<1>4. EveryTickEnqueued
  <2>. SUFFICES ASSUME NEW n \in Ticks, \A r \in Replicas : fired[r] >= n
                PROVE  Tasks(n) # {}
    BY DEF EveryTickEnqueued
  <2>. QED  BY SomeReplica DEF CronInit, Ticks
<1>. QED  BY <1>1, <1>2, <1>3, <1>4 DEF CronIInv

-----------------------------------------------------------------------------
(* What firing a tick leaves of ClockInv, whatever becomes of the enqueue. *)
LEMMA FireClock ==
  ASSUME CronIInv, NEW r \in Replicas, Fires(r), UNCHANGED now
  PROVE  /\ ClockInv'
         /\ fired' \in [Replicas -> 0 .. MaxTick]
         /\ fired[r] + 1 \in Ticks
         /\ \A s \in Replicas : fired'[s] = IF s = r THEN fired[r] + 1 ELSE fired[s]
         /\ DueAt(r, fired[r] + 1) <= now
<1>. USE DEF CronIInv
<1>1. /\ fired' \in [Replicas -> 0 .. MaxTick]
      /\ fired[r] + 1 \in Ticks
      /\ \A s \in Replicas : fired'[s] = IF s = r THEN fired[r] + 1 ELSE fired[s]
  BY TimeAssumption DEF Fires, CronTypeOK, Ticks
<1>2. DueAt(r, fired[r] + 1) <= now
  BY DueIsDueAt DEF Fires
<1>3. ASSUME NEW s \in Replicas
      PROVE  /\ fired'[s] < MaxTick => now <= DueAt(s, fired'[s] + 1) + Jitter
             /\ fired'[s] > 0 => DueAt(s, fired'[s]) <= now
  <2>1. CASE s # r
    BY <1>1, <2>1 DEF ClockInv
  <2>2. CASE s = r
    <3>1. fired[r] \in Nat /\ fired[r] < MaxTick /\ fired'[r] = fired[r] + 1
      BY <1>1 DEF Fires, CronTypeOK
    <3>2. now <= DueAt(r, fired[r] + 1) + Jitter
      BY <3>1 DEF ClockInv
    <3>3. DueAt(r, fired[r] + 1) <= DueAt(r, fired[r] + 2)
      BY <3>1, DueMono
    <3>4. /\ DueAt(r, fired[r] + 1) \in Nat /\ DueAt(r, fired[r] + 2) \in Nat
          /\ now \in Nat /\ Jitter \in Nat
      BY <3>1, DueNat, TimeAssumption DEF CronTypeOK
    <3>5. now <= DueAt(r, fired[r] + 2) + Jitter
      BY <3>2, <3>3, <3>4
    <3>6. fired'[r] + 1 = fired[r] + 2
      BY <3>1
    <3>. QED  BY <1>2, <2>2, <3>1, <3>5, <3>6
  <2>. QED  BY <2>1, <2>2
<1>4. ClockInv'
  BY <1>3 DEF ClockInv, DueAt
<1>. QED  BY <1>1, <1>2, <1>4

(* A lock that nobody takes away stays as it was.                          *)
LEMMA FireLock ==
  ASSUME CronIInv, NEW r \in Replicas, Fires(r), UNCHANGED <<now, lock, expires, enqueued>>
  PROVE  LockInv'
<1>. USE DEF CronIInv
<1>. SUFFICES ASSUME lock # NoTask
              PROVE  lock.tick <= fired'[lock.by]
  BY DEF LockInv, DueAt
<1>1. lock.tick <= fired[lock.by] /\ lock.tick \in Nat /\ lock.by \in Replicas
  BY DEF LockInv, CronTypeOK, Task, Ticks
<1>2. fired'[lock.by] \in {fired[lock.by], fired[lock.by] + 1} /\ fired[lock.by] \in Nat
  BY <1>1, FireClock DEF CronTypeOK
<1>. QED  BY <1>1, <1>2

LEMMA EnqueueInv ==
  ASSUME CronIInv, NEW r \in Replicas, Enqueue(r)
  PROVE  CronIInv'
<1>. USE DEF CronIInv
<1>. DEFINE t == [tick |-> fired[r] + 1, by |-> r]
<1>1. Fires(r) /\ UNCHANGED <<now, failed>>
  BY DEF Enqueue
<1>2. /\ ClockInv'
      /\ fired' \in [Replicas -> 0 .. MaxTick]
      /\ fired[r] + 1 \in Ticks
      /\ \A s \in Replicas : fired'[s] = IF s = r THEN fired[r] + 1 ELSE fired[s]
  BY <1>1, FireClock
<1>3. t \in Task /\ t.tick = fired[r] + 1 /\ t.by = r
  BY <1>2 DEF Task
<1>4. /\ lock' = t /\ expires' = now + TTL
      /\ queue' = queue \cup {t} /\ enqueued' = enqueued \cup {t}
  BY DEF Enqueue
<1>5. CronTypeOK'
  BY <1>1, <1>2, <1>3, <1>4, TimeAssumption DEF CronTypeOK
<1>6. LockInv'
  <2>1. fired[r] \in Nat /\ fired[r] < MaxTick
    BY <1>1 DEF Fires, CronTypeOK
  <2>2. now <= DueAt(r, fired[r] + 1) + Jitter
    BY <2>1 DEF ClockInv
  <2>3. DueAt(r, fired[r] + 2) = DueAt(r, fired[r] + 1) + Interval
    <3>1. DueAt(r, (fired[r] + 1) + 1) = DueAt(r, fired[r] + 1) + Interval
      BY <2>1, DueNext
    <3>. QED  BY <2>1, <3>1
  <2>4. expires' <= DueAt(r, fired[r] + 2)
    BY <1>4, <2>1, <2>2, <2>3, DueNat, TimeAssumption DEF CronTypeOK
  <2>5. lock'.tick <= fired'[lock'.by] /\ lock'.tick + 1 = fired[r] + 2
    BY <1>2, <1>3, <1>4, <2>1
  <2>. QED  BY <1>3, <1>4, <2>4, <2>5 DEF LockInv, DueAt
<1>7. EveryTickEnqueued'
  <2>. SUFFICES ASSUME NEW n \in Ticks \ failed, \A s \in Replicas : fired'[s] >= n
                PROVE  Tasks(n)' # {}
    BY <1>1 DEF EveryTickEnqueued, Ticks
  <2>1. CASE n = fired[r] + 1
    BY <1>3, <1>4, <2>1 DEF Tasks
  <2>2. CASE n # fired[r] + 1
    <3>1. \A s \in Replicas : fired[s] >= n
      BY <1>2, <2>2 DEF CronTypeOK, Ticks
    <3>2. Tasks(n) # {}
      BY <3>1 DEF EveryTickEnqueued
    <3>. QED  BY <1>4, <3>2 DEF Tasks
  <2>. QED  BY <2>1, <2>2
<1>. QED  BY <1>2, <1>5, <1>6, <1>7

(* The heart of the matter: the last replica to fire a tick that nobody    *)
(* has enqueued finds the lock free.                                       *)
LEMMA LastFindsFree ==
  ASSUME CronIInv, NEW r \in Replicas, Fires(r),
         \A s \in Replicas \ {r} : fired[s] >= fired[r] + 1,
         Tasks(fired[r] + 1) = {}
  PROVE  Free
<1>. USE DEF CronIInv
<1>. DEFINE n == fired[r] + 1
<1>. SUFFICES ASSUME lock # NoTask, now < expires
              PROVE  FALSE
  BY DEF Free, CronTypeOK
<1>1. /\ lock \in enqueued /\ lock.tick <= fired[lock.by]
      /\ expires <= DueAt(lock.by, lock.tick + 1)
      /\ lock.tick \in Nat \ {0} /\ lock.by \in Replicas
  BY DEF LockInv, CronTypeOK, Task, Ticks
<1>2. /\ n \in Nat \ {0} /\ fired[r] < MaxTick /\ DueAt(r, n) <= now
      /\ now <= DueAt(r, n) + Jitter
  BY DueIsDueAt DEF Fires, CronTypeOK, ClockInv
<1>3. /\ now \in Nat /\ expires \in Nat
      /\ DueAt(lock.by, lock.tick + 1) \in Nat /\ fired[lock.by] \in Nat
      /\ DueAt(lock.by, fired[lock.by]) \in Nat
  BY <1>1, DueNat, TimeAssumption DEF CronTypeOK
<1>4. fired[lock.by] = lock.tick
  <2>1. SUFFICES ASSUME lock.tick + 1 <= fired[lock.by] PROVE FALSE
    BY <1>1, <1>3
  <2>2. DueAt(lock.by, lock.tick + 1) <= DueAt(lock.by, fired[lock.by])
    BY <1>1, <1>3, <2>1, DueMono
  <2>3. DueAt(lock.by, fired[lock.by]) <= now
    BY <1>1, <1>3, <2>1 DEF ClockInv
  <2>. QED  BY <1>1, <1>3, <2>2, <2>3
<1>5. CASE lock.tick = n
  BY <1>1, <1>5 DEF Tasks
<1>6. CASE lock.tick < n
  <2>1. lock.by = r
    BY <1>1, <1>2, <1>4, <1>6
  <2>2. lock.tick + 1 = n
    BY <1>2, <1>4, <2>1 DEF CronTypeOK
  <2>. QED  BY <1>1, <1>2, <1>3, <2>1, <2>2
<1>7. CASE lock.tick > n
  <2>1. DueAt(r, n) + Jitter < DueAt(lock.by, lock.tick)
    BY <1>1, <1>2, <1>7, DueCross
  <2>2. DueAt(lock.by, lock.tick) <= now
    BY <1>1, <1>4 DEF ClockInv
  <2>. QED  BY <1>1, <1>2, <1>3, <2>1, <2>2, DueNat, TimeAssumption
<1>. QED  BY <1>1, <1>2, <1>5, <1>6, <1>7

LEMMA DuplicateInv ==
  ASSUME CronIInv, NEW r \in Replicas, Duplicate(r)
  PROVE  CronIInv'
<1>. USE DEF CronIInv
<1>1. Fires(r) /\ ~Free /\ UNCHANGED <<now, lock, expires, queue, enqueued, failed>>
  BY DEF Duplicate
<1>2. /\ ClockInv'
      /\ fired' \in [Replicas -> 0 .. MaxTick]
      /\ fired[r] + 1 \in Ticks
      /\ \A s \in Replicas : fired'[s] = IF s = r THEN fired[r] + 1 ELSE fired[s]
  BY <1>1, FireClock
<1>3. CronTypeOK'
  BY <1>1, <1>2 DEF CronTypeOK
<1>4. LockInv'
  BY <1>1, FireLock
<1>5. EveryTickEnqueued'
  <2>. SUFFICES ASSUME NEW n \in Ticks \ failed, \A s \in Replicas : fired'[s] >= n
                PROVE  Tasks(n) # {}
    BY <1>1 DEF EveryTickEnqueued, Ticks, Tasks
  <2>1. CASE n = fired[r] + 1
    <3>1. \A s \in Replicas \ {r} : fired[s] >= fired[r] + 1
      BY <1>2, <2>1
    <3>. QED  BY <1>1, <2>1, <3>1, LastFindsFree
  <2>2. CASE n # fired[r] + 1
    <3>1. \A s \in Replicas : fired[s] >= n
      BY <1>2, <2>2 DEF CronTypeOK, Ticks
    <3>. QED  BY <3>1 DEF EveryTickEnqueued
  <2>. QED  BY <2>1, <2>2
<1>. QED  BY <1>2, <1>3, <1>4, <1>5

LEMMA FailsInv ==
  ASSUME CronIInv, NEW r \in Replicas, EnqueueFails(r)
  PROVE  CronIInv'
<1>. USE DEF CronIInv
<1>1. Fires(r) /\ UNCHANGED <<now, lock, expires, queue, enqueued>>
  BY DEF EnqueueFails
<1>2. /\ ClockInv'
      /\ fired' \in [Replicas -> 0 .. MaxTick]
      /\ fired[r] + 1 \in Ticks
      /\ \A s \in Replicas : fired'[s] = IF s = r THEN fired[r] + 1 ELSE fired[s]
  BY <1>1, FireClock
<1>3. failed' = failed \cup {fired[r] + 1}
  BY DEF EnqueueFails
<1>4. CronTypeOK'
  BY <1>1, <1>2, <1>3 DEF CronTypeOK
<1>5. LockInv'
  BY <1>1, FireLock
<1>6. EveryTickEnqueued'
  <2>. SUFFICES ASSUME NEW n \in Ticks \ failed', \A s \in Replicas : fired'[s] >= n
                PROVE  Tasks(n) # {}
    BY <1>1 DEF EveryTickEnqueued, Ticks, Tasks
  <2>1. \A s \in Replicas : fired[s] >= n
    BY <1>2, <1>3 DEF CronTypeOK, Ticks
  <2>. QED  BY <1>3, <2>1 DEF EveryTickEnqueued
<1>. QED  BY <1>2, <1>4, <1>5, <1>6

LEMMA CompleteInv ==
  ASSUME CronIInv, NEW t \in queue, Complete(t)
  PROVE  CronIInv'
<1>. USE DEF CronIInv, Complete
<1>1. CronTypeOK'
  BY DEF CronTypeOK
<1>2. ClockInv' /\ LockInv'
  BY DEF ClockInv, LockInv, DueAt
<1>3. EveryTickEnqueued'
  BY DEF EveryTickEnqueued, Tasks, Ticks
<1>. QED  BY <1>1, <1>2, <1>3

LEMMA PassInv ==
  ASSUME CronIInv, Pass
  PROVE  CronIInv'
<1>. USE DEF CronIInv
<1>0. now' = now + 1 /\ UNCHANGED <<fired, lock, expires, queue, enqueued, failed>>
  BY DEF Pass
<1>1. CronTypeOK'
  BY <1>0, TimeAssumption DEF CronTypeOK
<1>2. ClockInv'
  <2>. SUFFICES ASSUME NEW r \in Replicas
                PROVE  /\ fired[r] < MaxTick => now + 1 <= DueAt(r, fired[r] + 1) + Jitter
                       /\ fired[r] > 0 => DueAt(r, fired[r]) <= now + 1
    BY <1>0 DEF ClockInv, DueAt
  <2>1. /\ now \in Nat /\ fired[r] \in Nat /\ Jitter \in Nat
        /\ DueAt(r, fired[r]) \in Nat /\ DueAt(r, fired[r] + 1) \in Nat
    BY DueNat, TimeAssumption DEF CronTypeOK
  <2>2. fired[r] < MaxTick => now < DueAt(r, fired[r] + 1) + Jitter
    BY DueIsDueAt DEF Pass
  <2>3. fired[r] > 0 => DueAt(r, fired[r]) <= now
    BY DEF ClockInv
  <2>. QED  BY <2>1, <2>2, <2>3
<1>3. LockInv' /\ EveryTickEnqueued'
  BY <1>0 DEF LockInv, DueAt, EveryTickEnqueued, Tasks, Ticks
<1>. QED  BY <1>1, <1>2, <1>3

-----------------------------------------------------------------------------
(* The invariant holds in every state of every behaviour.                  *)
THEOREM CronInductive == CronSpec => []CronIInv
<1>1. CronIInv /\ [CronNext]_cronVars => CronIInv'
  <2>. SUFFICES ASSUME CronIInv, [CronNext]_cronVars PROVE CronIInv'
    OBVIOUS
  <2>1. ASSUME NEW r \in Replicas, Enqueue(r) PROVE CronIInv'
    BY <2>1, EnqueueInv
  <2>2. ASSUME NEW r \in Replicas, Duplicate(r) PROVE CronIInv'
    BY <2>2, DuplicateInv
  <2>3. ASSUME NEW r \in Replicas, EnqueueFails(r) PROVE CronIInv'
    BY <2>3, FailsInv
  <2>4. ASSUME NEW t \in queue, Complete(t) PROVE CronIInv'
    BY <2>4, CompleteInv
  <2>5. CASE Pass
    BY <2>5, PassInv
  <2>6. CASE UNCHANGED cronVars
    BY <2>6 DEF cronVars, CronIInv, CronTypeOK, ClockInv, LockInv, DueAt, EveryTickEnqueued, Tasks, Ticks
  <2>. QED  BY <2>1, <2>2, <2>3, <2>4, <2>5, <2>6 DEF CronNext, Ended
<1>. QED  BY <1>1, CronInitInv, PTL DEF CronSpec

(* The variables keep their types; in particular a lock never reaches      *)
(* further than its ttl from now.                                          *)
THEOREM CronTypeCorrect == CronSpec => []CronTypeOK
<1>1. CronIInv => CronTypeOK
  BY DEF CronIInv
<1>. QED  BY <1>1, CronInductive, PTL

(* Whatever the number of replicas, the differences of their clocks, the   *)
(* jitter and the ttl within the assumption, no tick is suppressed.        *)
THEOREM NoTickSuppressed == CronSpec => []EveryTickEnqueued
<1>1. CronIInv => EveryTickEnqueued
  BY DEF CronIInv
<1>. QED  BY <1>1, CronInductive, PTL
=============================================================================
