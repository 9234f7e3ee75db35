----------------------------- MODULE AsyncLogger -----------------------------
(***************************************************************************)
(* The file logger (src/logger/logger.go): goroutines append messages to a *)
(* queue under a mutex, and a flusher started by Startup wakes every three *)
(* seconds, takes the whole queue, and writes it to the log file of the    *)
(* day with the mutex released.  When a write or the sync fails, the whole *)
(* batch goes back in front of the queue.  Creating the directory, opening *)
(* the file, writing and syncing can each fail, MaxFaults times in all.    *)
(*                                                                         *)
(* Startup is called by one goroutine of the program, again if it fails.   *)
(***************************************************************************)
EXTENDS Naturals, Sequences

CONSTANTS
  Msgs,         \* the messages logged, each once
  MaxDay,       \* bound: how many days the program runs
  MaxFaults     \* bound: how many operations on the file system fail

ASSUME BoundAssumption == MaxDay \in Nat \ {0} /\ MaxFaults \in Nat

VARIABLES
  Writing,      \* the switch of StartWriting and StopWriting
  ready,        \* _ready: Startup has succeeded and the flusher runs
  name,         \* _name: the day whose file Startup last turned to, 0 if none
  stream,       \* _stream
  queues,       \* _queues
  pc,           \* where the flusher is
  lists,        \* flush's local batch
  next,         \* its position in the batch
  writer,       \* where the call that logs each message is
  today,        \* the clock
  dir,          \* does the directory of the log file exist?
  file,         \* what has been written, over all days
  faults,       \* how many operations have failed
  accepted      \* history: the messages queued, in that order

vars == <<Writing, ready, name, stream, queues, pc, lists, next, writer,
          today, dir, file, faults, accepted>>

disk == <<dir, file, faults>>

TypeOK ==
  /\ Writing \in BOOLEAN /\ ready \in BOOLEAN /\ dir \in BOOLEAN
  /\ today \in 1..MaxDay
  /\ name \in 0..today
  /\ stream \in {"nil", "open"}
  /\ pc \in {"off", "sleep", "startup", "swap", "write", "requeue"}
  /\ queues \in Seq(Msgs) /\ lists \in Seq(Msgs)
  /\ file \in Seq(Msgs) /\ accepted \in Seq(Msgs)
  /\ next \in 1..Len(lists) + 1
  /\ lists # <<>> => pc \in {"write", "requeue"}
  /\ ready = (pc # "off")
  /\ writer \in [Msgs -> {"new", "checked", "queued", "dropped"}]
  /\ faults \in 0..MaxFaults

Init ==
  /\ Writing \in BOOLEAN
  /\ ready = FALSE
  /\ name = 0
  /\ stream = "nil"
  /\ queues = <<>>
  /\ pc = "off"
  /\ lists = <<>>
  /\ next = 1
  /\ writer = [m \in Msgs |-> "new"]
  /\ today = 1
  /\ dir \in BOOLEAN
  /\ file = <<>>
  /\ faults = 0
  /\ accepted = <<>>

-----------------------------------------------------------------------------
Fault == faults < MaxFaults /\ faults' = faults + 1

(* Startup turns to the file of the day when that has changed.  It notes   *)
(* the new name before it creates the directory and opens the file, so an  *)
(* error in between is not repaired by the next call.                      *)
Turn == Writing /\ name # today

StartupOk ==
  /\ IF Turn
     THEN /\ name' = today
          /\ dir' = TRUE
          /\ stream' = "open"
     ELSE UNCHANGED <<name, dir, stream>>
  /\ UNCHANGED <<faults, file>>

(* MkdirAll fails, or os.OpenFile does, which leaves _stream nil.          *)
StartupFails ==
  /\ Turn
  /\ name' = today
  /\ \/ ~dir /\ UNCHANGED <<dir, stream>>
     \/ dir' = TRUE /\ stream' = "nil"
  /\ Fault
  /\ UNCHANGED file

(* The program starts the logger: the flusher is spawned, and write        *)
(* accepts messages from now on.                                           *)
Start ==
  /\ ~ready
  /\ \/ StartupOk /\ ready' = TRUE /\ pc' = "sleep"
     \/ StartupFails /\ UNCHANGED <<ready, pc>>
  /\ UNCHANGED <<Writing, queues, lists, next, writer, today, accepted>>

-----------------------------------------------------------------------------
(* write, called by Info, Log, Warn and Err: looks at the switch and at    *)
(* _ready without the mutex, and appends with it.                          *)

WriteChecks(m) ==
  /\ writer[m] = "new"
  /\ writer' = [writer EXCEPT ![m] = IF Writing /\ ready THEN "checked" ELSE "dropped"]
  /\ UNCHANGED <<Writing, ready, name, stream, queues, pc, lists, next, today,
                 disk, accepted>>

WriteAppends(m) ==
  /\ writer[m] = "checked"
  /\ writer' = [writer EXCEPT ![m] = "queued"]
  /\ queues' = Append(queues, m)
  /\ accepted' = Append(accepted, m)
  /\ UNCHANGED <<Writing, ready, name, stream, pc, lists, next, today, disk>>

-----------------------------------------------------------------------------
(* flush, once per wake-up of the flusher.                                 *)

Wake ==
  /\ pc = "sleep"
  /\ Writing
  /\ pc' = "startup"
  /\ UNCHANGED <<Writing, ready, name, stream, queues, lists, next, writer, today,
                 disk, accepted>>

(* Startup again, which looks at the switch again.  Its error ends this    *)
(* flush.                                                                  *)
FlushStartup ==
  /\ pc = "startup"
  /\ \/ StartupOk /\ pc' = "swap"
     \/ StartupFails /\ pc' = "sleep"
  /\ UNCHANGED <<Writing, ready, queues, lists, next, writer, today, accepted>>

Swap ==
  /\ pc = "swap"
  /\ pc' = "write"
  /\ lists' = queues
  /\ next' = 1
  /\ queues' = <<>>
  /\ UNCHANGED <<Writing, ready, name, stream, writer, today, disk, accepted>>

WriteOne ==
  /\ pc = "write"
  /\ next <= Len(lists)
  /\ stream = "open"
  /\ file' = Append(file, lists[next])
  /\ next' = next + 1
  /\ UNCHANGED <<Writing, ready, name, stream, queues, pc, lists, writer, today,
                 dir, faults, accepted>>

(* Mutant of WriteFails: the stream is not opened again.                   *)
WriteFailsOnly ==
  /\ pc = "write"
  /\ next <= Len(lists)
  /\ pc' = "requeue"
  /\ IF stream = "nil" THEN UNCHANGED faults ELSE Fault
  /\ UNCHANGED <<Writing, ready, name, stream, queues, lists, next, writer, today,
                 dir, file, accepted>>

(* WriteString fails, always so on a nil stream; open then tries the file  *)
(* of the day again, if the switch is still on.                            *)
WriteFails ==
  /\ pc = "write"
  /\ next <= Len(lists)
  /\ pc' = "requeue"
  /\ LET failed == faults + (IF stream = "nil" THEN 0 ELSE 1)
     IN  \/ ~Writing /\ UNCHANGED stream /\ faults' = failed
         \/ Writing /\ dir /\ stream' = "open" /\ faults' = failed
         \/ Writing /\ dir /\ stream' = "nil" /\ faults' = failed + 1
         \/ Writing /\ ~dir /\ stream' = "nil" /\ faults' = failed
  /\ faults' <= MaxFaults
  /\ UNCHANGED <<Writing, ready, name, queues, lists, next, writer, today,
                 dir, file, accepted>>

(* Everything is written, and Sync succeeds.                               *)
Sync ==
  /\ pc = "write"
  /\ next > Len(lists)
  /\ pc' = "sleep"
  /\ lists' = <<>>
  /\ next' = 1
  /\ UNCHANGED <<Writing, ready, name, stream, queues, writer, today, disk, accepted>>

SyncFails ==
  /\ pc = "write"
  /\ lists # <<>> /\ next > Len(lists)
  /\ pc' = "requeue"
  /\ Fault
  /\ UNCHANGED <<Writing, ready, name, stream, queues, lists, next, writer, today,
                 dir, file, accepted>>

(* Mutant of Requeue: the batch goes behind what was queued meanwhile.     *)
RequeueBehind ==
  /\ pc = "requeue"
  /\ pc' = "sleep"
  /\ queues' = queues \o lists
  /\ lists' = <<>>
  /\ next' = 1
  /\ UNCHANGED <<Writing, ready, name, stream, writer, today, disk, accepted>>

(* Mutant of Requeue: the position is kept for the next flush.             *)
RequeueInPlace ==
  /\ pc = "requeue"
  /\ pc' = "sleep"
  /\ queues' = lists \o queues
  /\ UNCHANGED <<Writing, ready, name, stream, lists, next, writer, today, disk,
                 accepted>>

(* The deferred function of flush.                                         *)
Requeue ==
  /\ pc = "requeue"
  /\ pc' = "sleep"
  /\ queues' = lists \o queues
  /\ lists' = <<>>
  /\ next' = 1
  /\ UNCHANGED <<Writing, ready, name, stream, writer, today, disk, accepted>>

-----------------------------------------------------------------------------
(* StopWriting and StartWriting, and the clock.                            *)
Switch ==
  /\ Writing' = ~Writing
  /\ UNCHANGED <<ready, name, stream, queues, pc, lists, next, writer, today,
                 disk, accepted>>

NextDay ==
  /\ today < MaxDay
  /\ today' = today + 1
  /\ UNCHANGED <<Writing, ready, name, stream, queues, pc, lists, next, writer,
                 disk, accepted>>

Flush ==
  \/ Wake \/ FlushStartup \/ Swap
  \/ WriteOne \/ WriteFails \/ Sync \/ SyncFails \/ Requeue

Next ==
  \/ Start \/ Flush \/ Switch \/ NextDay
  \/ \E m \in Msgs : WriteChecks(m) \/ WriteAppends(m)

Spec == Init /\ [][Next]_vars

(* The flusher is a goroutine that never ends, and a call of write that    *)
(* has begun returns.                                                      *)
Fairness == WF_vars(Flush) /\ \A m \in Msgs : WF_vars(WriteAppends(m))

FairSpec == Spec /\ Fairness

-----------------------------------------------------------------------------
(* s tells r: a message comes only when all that are before it in r have   *)
(* come, and all of r come.  It may repeat them: the first occurrences are *)
(* r, which has no message twice.                                          *)
Tells(s, r) ==
  /\ \A i \in 1..Len(s) : \E n \in 1..Len(r) :
       s[i] = r[n] /\ \A l \in 1..n - 1 : \E j \in 1..i - 1 : s[j] = r[l]
  /\ \A n \in 1..Len(r) : \E i \in 1..Len(s) : s[i] = r[n]

InFile(m) == \E i \in 1..Len(file) : file[i] = m

(* No accepted message is lost and none overtakes another, whatever fails, *)
(* however often the writing is switched, and over the change of day:      *)
(* file, batch and queue together hold the messages in the order in which  *)
(* they were accepted, and each once unless something has failed.          *)
NothingLostOrOvertaken ==
  /\ Tells(file \o lists \o queues, accepted)
  /\ faults = 0 => file \o SubSeq(lists, next, Len(lists)) \o queues = accepted

(* When writing stays on and the directory exists, every accepted message  *)
(* reaches the file, through failed opens, writes and syncs.  (A directory *)
(* that could not be created when Startup turned to the day's file is not  *)
(* tried again before the next day: hence the premise.)                    *)
AcceptedReachesFile ==
  <>[](Writing /\ dir) => \A m \in Msgs : writer[m] = "queued" ~> InFile(m)
=============================================================================
