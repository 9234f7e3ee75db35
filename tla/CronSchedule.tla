----------------------------- MODULE CronSchedule -----------------------------
(***************************************************************************)
(* RegisterCron (src/worker/cron.worker.go): every replica of a service    *)
(* runs a scheduler that enqueues the task of a cron entry at every tick,  *)
(* with asynq.Unique(ttl): Redis takes a task only when the unique lock of *)
(* its queue, type and payload is free.  The lock ends with its ttl, and   *)
(* earlier when the task that holds it is completed.                       *)
(*                                                                         *)
(* The clocks of the replicas differ by constant offsets, and a scheduler  *)
(* fires up to Jitter late.                                                *)
(***************************************************************************)
EXTENDS Naturals, FiniteSets

CONSTANTS
  Replicas,
  Offset,         \* how far the clock of each replica is behind
  Jitter,
  Interval,       \* the time between two ticks
  TTL,            \* uniqueTTL
  MaxTick         \* bound: the ticks looked at

ASSUME SomeReplica == Replicas # {}

(* "ttl defaults to 55s so it never bleeds into suppressing the next       *)
(* legitimate tick": it leaves room for the jitter of the schedulers.      *)
(* Clocks differ by less than a tick.                                      *)
ASSUME TimeAssumption ==
  /\ Offset \in [Replicas -> Nat]
  /\ Jitter \in Nat /\ Interval \in Nat /\ TTL \in Nat /\ MaxTick \in Nat
  /\ TTL + Jitter <= Interval
  /\ \A r \in Replicas : Offset[r] + Jitter < Interval

Ticks == 1 .. MaxTick

NoTask == [tick |-> 0, by |-> "none"]

VARIABLES
  now,            \* the time
  fired,          \* how many ticks each replica's scheduler has fired
  lock,           \* the task that took the unique lock last
  expires,        \* and when that lock ends
  queue,          \* tasks enqueued and not yet completed
  enqueued,       \* history: the tasks of each tick
  failed          \* history: the ticks on which an enqueue met an error

cronVars == <<now, fired, lock, expires, queue, enqueued, failed>>

Task == [tick : Ticks, by : Replicas]

CronTypeOK ==
  /\ now \in Nat
  /\ fired \in [Replicas -> 0 .. MaxTick]
  /\ lock \in Task \cup {NoTask}
  /\ expires \in 0 .. now + TTL
  /\ queue \subseteq enqueued
  /\ enqueued \subseteq Task
  /\ failed \subseteq Ticks

CronInit ==
  /\ now = 0
  /\ fired = [r \in Replicas |-> 0]
  /\ lock = NoTask
  /\ expires = 0
  /\ queue = {}
  /\ enqueued = {}
  /\ failed = {}

-----------------------------------------------------------------------------
(* The time from which the scheduler of r may fire its next tick.          *)
Due(r) == (fired[r] + 1) * Interval + Offset[r]

Fires(r) ==
  /\ fired[r] < MaxTick
  /\ now >= Due(r)
  /\ fired' = [fired EXCEPT ![r] = @ + 1]

Free == lock = NoTask \/ now >= expires

(* Mutant of Enqueue: the lock reaches over the next tick.                 *)
EnqueueLonger(r) ==
  LET t == [tick |-> fired[r] + 1, by |-> r]
  IN  /\ Fires(r)
      /\ Free
      /\ lock' = t
      /\ expires' = now + TTL + Interval
      /\ queue' = queue \cup {t}
      /\ enqueued' = enqueued \cup {t}
      /\ UNCHANGED <<now, failed>>

(* client.Enqueue with the options of RegisterCron.                        *)
Enqueue(r) ==
  LET t == [tick |-> fired[r] + 1, by |-> r]
  IN  /\ Fires(r)
      /\ Free
      /\ lock' = t
      /\ expires' = now + TTL
      /\ queue' = queue \cup {t}
      /\ enqueued' = enqueued \cup {t}
      /\ UNCHANGED <<now, failed>>

(* ErrDuplicateTask, which the scheduler logs.                             *)
Duplicate(r) ==
  /\ Fires(r)
  /\ ~Free
  /\ UNCHANGED <<now, lock, expires, queue, enqueued, failed>>

(* Another error, which the scheduler logs as well: it does not try again. *)
EnqueueFails(r) ==
  /\ Fires(r)
  /\ failed' = failed \cup {fired[r] + 1}
  /\ UNCHANGED <<now, lock, expires, queue, enqueued>>

(* A worker completes a task: the lock goes with it if it is still its own. *)
Complete(t) ==
  /\ t \in queue
  /\ queue' = queue \ {t}
  /\ lock' = IF lock = t THEN NoTask ELSE lock
  /\ UNCHANGED <<now, fired, expires, enqueued, failed>>

(* Time passes, but not over a tick that has to fire.                      *)
Pass ==
  /\ \A r \in Replicas : fired[r] < MaxTick => now < Due(r) + Jitter
  /\ \E r \in Replicas : fired[r] < MaxTick
  /\ now' = now + 1
  /\ UNCHANGED <<fired, lock, expires, queue, enqueued, failed>>

(* The bound is reached.                                                   *)
Ended ==
  /\ \A r \in Replicas : fired[r] = MaxTick
  /\ queue = {}
  /\ UNCHANGED cronVars

CronNext ==
  \/ \E r \in Replicas : Enqueue(r) \/ Duplicate(r) \/ EnqueueFails(r)
  \/ \E t \in queue : Complete(t)
  \/ Pass
  \/ Ended

CronSpec == CronInit /\ [][CronNext]_cronVars

-----------------------------------------------------------------------------
Tasks(n) == {t \in enqueued : t.tick = n}

(* No tick is suppressed: when every scheduler has fired it and none met   *)
(* an error, its task was enqueued, although clocks differ, late replicas  *)
(* enqueue a tick again and their locks reach over the next tick of the    *)
(* others, and workers complete tasks at any time.                         *)
EveryTickEnqueued ==
  \A n \in Ticks \ failed :
    (\A r \in Replicas : fired[r] >= n) => Tasks(n) # {}

(* cron.worker.go: "Redis accepts only the first of any replicas racing    *)
(* the same tick and rejects the rest as a duplicate".                     *)
OncePerTick == \A n \in Ticks : Cardinality(Tasks(n)) <= 1
=============================================================================
