------------------------------ MODULE WorkerTask ------------------------------
(***************************************************************************)
(* One task of the background worker.  asynq delivers a task until an      *)
(* attempt succeeds or none is left; every attempt runs in a transaction   *)
(* that TracingMiddleware (src/worker/middleware.worker.go) begins with    *)
(* the attempt's context, commits when the handler returns nil, and rolls  *)
(* back on the way out in any case.                                        *)
(*                                                                         *)
(* asynq does not wait for an attempt that outlives its deadline or its    *)
(* lease: it cancels the context and delivers the task again while the old *)
(* handler may still run.  A process that crashes leaves the task active,  *)
(* and asynq's recoverer delivers it again.                                *)
(***************************************************************************)
EXTENDS Naturals

CONSTANT MaxAttempts      \* the retries of the task, and the first attempt

ASSUME AttemptAssumption == MaxAttempts \in Nat \ {0}

Attempts == 1 .. MaxAttempts

VARIABLES
  task,           \* the state of the task in Redis
  tries,          \* how many attempts have been made
  awaited,        \* the attempt whose result asynq waits for, 0 if none
  pc,             \* where the middleware is in each attempt
  res,            \* what it returns
  live,           \* is the attempt's context live?
  status,         \* its transaction
  cut,            \* history: where an attempt was when asynq turned from it
  doubt           \* history: the attempts whose Commit failed in the database

vars == <<task, tries, awaited, pc, res, live, status, cut, doubt>>

asynq == <<task, tries, awaited, cut>>

TypeOK ==
  /\ task \in {"pending", "active", "done", "archived"}
  /\ tries \in 0 .. MaxAttempts
  /\ awaited \in 0 .. tries
  /\ pc \in [Attempts -> {"none", "begin", "handle", "commit", "undo", "returned", "crashed"}]
  /\ res \in [Attempts -> {"nil", "err"}]
  /\ live \in [Attempts -> BOOLEAN]
  /\ status \in [Attempts -> {"none", "open", "committed", "rolledback"}]
  /\ cut \in [Attempts -> {"heard", "begin", "handle", "commit", "undo", "returned"}]
  /\ doubt \subseteq Attempts
  /\ task = "pending" => awaited = 0
  /\ \A a \in Attempts : a > tries => pc[a] = "none"

Init ==
  /\ task = "pending"
  /\ tries = 0
  /\ awaited = 0
  /\ pc = [a \in Attempts |-> "none"]
  /\ res = [a \in Attempts |-> "err"]
  /\ live = [a \in Attempts |-> TRUE]
  /\ status = [a \in Attempts |-> "none"]
  /\ cut = [a \in Attempts |-> "heard"]
  /\ doubt = {}

-----------------------------------------------------------------------------
At(a, from, to) == pc[a] = from /\ pc' = [pc EXCEPT ![a] = to]

SetStatus(a, s) == status' = [status EXCEPT ![a] = s]

(* What Redis makes of a task that an attempt did not finish.              *)
Again == task' = IF tries = MaxAttempts THEN "archived" ELSE "pending"

TurnFrom(a) ==
  /\ awaited' = 0
  /\ cut' = [cut EXCEPT ![a] = pc[a]]

-----------------------------------------------------------------------------
(* TracingMiddleware.                                                      *)

Begin(a) ==
  /\ At(a, "begin", "handle")
  /\ live[a]
  /\ SetStatus(a, "open")
  /\ UNCHANGED <<asynq, res, live, doubt>>

(* NewTransaction fails: nothing is deferred yet.                          *)
BeginFails(a) ==
  /\ At(a, "begin", "returned")
  /\ UNCHANGED <<asynq, res, live, status, doubt>>

HandlerOk(a) ==
  /\ At(a, "handle", "commit")
  /\ UNCHANGED <<asynq, res, live, status, doubt>>

(* The handler returns an error, or panics: the deferred Rollback runs in  *)
(* both cases, and asynq turns the panic into an error.                    *)
HandlerFails(a) ==
  /\ At(a, "handle", "undo")
  /\ UNCHANGED <<asynq, res, live, status, doubt>>

(* Mutant of CommitOk: the transaction is begun with a context of its own. *)
CommitOkDetached(a) ==
  /\ At(a, "commit", "undo")
  /\ status[a] = "open"
  /\ SetStatus(a, "committed")
  /\ res' = [res EXCEPT ![a] = "nil"]
  /\ UNCHANGED <<asynq, live, doubt>>

CommitOk(a) ==
  /\ At(a, "commit", "undo")
  /\ live[a] /\ status[a] = "open"
  /\ SetStatus(a, "committed")
  /\ res' = [res EXCEPT ![a] = "nil"]
  /\ UNCHANGED <<asynq, live, doubt>>

(* Mutant of CommitFails: the error of Commit is not returned.             *)
CommitFailsSilently(a) ==
  /\ At(a, "commit", "undo")
  /\ ~live[a] \/ status[a] # "open"
  /\ res' = [res EXCEPT ![a] = "nil"]
  /\ UNCHANGED <<asynq, live, status, doubt>>

(* The context has ended, or the database fails, and what it made of the   *)
(* transaction is unknown.                                                 *)
CommitFails(a) ==
  /\ At(a, "commit", "undo")
  /\ IF live[a] /\ status[a] = "open"
     THEN /\ \E s \in {"committed", "rolledback"} : SetStatus(a, s)
          /\ doubt' = doubt \cup {a}
     ELSE UNCHANGED <<status, doubt>>
  /\ UNCHANGED <<asynq, res, live>>

(* Mutant of Rollback: it is not deferred.                                 *)
RollbackSkipped(a) ==
  /\ At(a, "undo", "returned")
  /\ UNCHANGED <<asynq, res, live, status, doubt>>

(* The deferred Rollback; after a Commit it does nothing.                  *)
Rollback(a) ==
  /\ At(a, "undo", "returned")
  /\ SetStatus(a, IF status[a] = "open" THEN "rolledback" ELSE status[a])
  /\ UNCHANGED <<asynq, res, live, doubt>>

-----------------------------------------------------------------------------
(* asynq, and database/sql watching the context it began with.             *)

Dequeue(a) ==
  /\ task = "pending" /\ a = tries + 1
  /\ At(a, "none", "begin")
  /\ task' = "active"
  /\ tries' = a
  /\ awaited' = a
  /\ UNCHANGED <<res, live, status, cut, doubt>>

TakeResult(a) ==
  /\ awaited = a /\ pc[a] = "returned"
  /\ awaited' = 0
  /\ IF res[a] = "nil" THEN task' = "done" ELSE Again
  /\ live' = [live EXCEPT ![a] = FALSE]
  /\ UNCHANGED <<tries, pc, res, status, cut, doubt>>

(* The deadline of the task, or the lease of its process, ends.            *)
ContextEnds(a) ==
  /\ awaited = a /\ live[a]
  /\ live' = [live EXCEPT ![a] = FALSE]
  /\ UNCHANGED <<asynq, pc, res, status, doubt>>

(* asynq turns from the attempt, whose goroutine goes on, even when its    *)
(* result is there to be taken.                                            *)
GiveUp(a) ==
  /\ awaited = a /\ ~live[a]
  /\ TurnFrom(a)
  /\ Again
  /\ UNCHANGED <<tries, pc, res, live, status, doubt>>

(* The process ends, and the database rolls back what it had open, unless  *)
(* a Commit was on its way.                                                *)
Crash(a) ==
  /\ pc[a] \notin {"none", "crashed"}
  /\ pc' = [pc EXCEPT ![a] = "crashed"]
  /\ IF status[a] = "open"
     THEN \/ SetStatus(a, "rolledback")
          \/ pc[a] = "commit" /\ live[a] /\ SetStatus(a, "committed")
     ELSE UNCHANGED status
  /\ live' = [live EXCEPT ![a] = FALSE]
  /\ IF awaited = a THEN TurnFrom(a) ELSE UNCHANGED <<awaited, cut>>
  /\ UNCHANGED <<task, tries, res, doubt>>

(* Mutant of Recover: a task whose attempt is awaited is recovered as well. *)
RecoverEarly ==
  /\ task = "active"
  /\ Again
  /\ UNCHANGED <<tries, awaited, pc, res, live, status, cut, doubt>>

(* asynq's recoverer, when the lease of the process that ran it has ended. *)
Recover ==
  /\ task = "active" /\ awaited = 0
  /\ Again
  /\ UNCHANGED <<tries, awaited, pc, res, live, status, cut, doubt>>

(* Mutant of AwaitDone: the transaction is begun with a context of its own. *)
AwaitDoneDetached(a) ==
  /\ pc[a] = "crashed" /\ status[a] = "open"
  /\ SetStatus(a, "rolledback")
  /\ UNCHANGED <<asynq, pc, res, live, doubt>>

AwaitDone(a) ==
  /\ ~live[a] /\ status[a] = "open"
  /\ SetStatus(a, "rolledback")
  /\ UNCHANGED <<asynq, pc, res, live, doubt>>

Terminated ==
  /\ task \in {"done", "archived"}
  /\ UNCHANGED vars

Middleware(a) ==
  \/ Begin(a) \/ BeginFails(a) \/ HandlerOk(a) \/ HandlerFails(a)
  \/ CommitOk(a) \/ CommitFails(a) \/ Rollback(a)

Next ==
  \/ \E a \in Attempts : \/ Middleware(a) \/ Dequeue(a) \/ TakeResult(a)
                         \/ ContextEnds(a) \/ GiveUp(a) \/ Crash(a) \/ AwaitDone(a)
  \/ Recover
  \/ Terminated

Spec == Init /\ [][Next]_vars

(* asynq gives every attempt a deadline, and database/sql watches contexts. *)
(* Nothing is assumed of handlers.                                         *)
Fairness == \A a \in Attempts : WF_vars(ContextEnds(a)) /\ WF_vars(AwaitDone(a))

FairSpec == Spec /\ Fairness

-----------------------------------------------------------------------------
(* A task is recorded as done only when one of its attempts has committed. *)
DoneMeansCommitted ==
  task = "done" => \E a \in Attempts : status[a] = "committed"

(* When the middleware returns, its transaction is over: whichever way the *)
(* handler left it, no connection is still held while asynq retries.       *)
SettledOnReturn ==
  \A a \in Attempts : pc[a] = "returned" => status[a] # "open"

(* An attempt is committed behind asynq's back, so that the task is run    *)
(* again or archived in spite of it, only when asynq turned from it at or  *)
(* after its Commit, or when the database left the Commit in doubt.  In    *)
(* particular a handler that outlives its deadline cannot commit next to   *)
(* the attempt that replaces it.                                           *)
RepeatsOnlyUnheard ==
  \A a \in Attempts :
    status[a] = "committed" /\ (task \in {"pending", "archived"} \/ tries > a) =>
      a \in doubt \/ cut[a] \in {"commit", "undo", "returned"}

(* No transaction of an attempt stays open for ever, even when the handler *)
(* never returns.                                                          *)
TransactionEnds == \A a \in Attempts : status[a] = "open" ~> status[a] # "open"
=============================================================================
