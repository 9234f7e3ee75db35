-------------------------- MODULE AsyncLoggerProofs --------------------------
(***************************************************************************)
(* Proofs about AsyncLogger, for any messages, days and faults.            *)
(*                                                                         *)
(* The argument counts: batch and queue together are always the last of    *)
(* the accepted messages (RestInv), all the others are in the file, and so *)
(* is the part of the batch before the position (DoneInv).  The file may   *)
(* repeat what a failed batch had written, but never has a message before  *)
(* those that were accepted earlier (FileInv); and without a failure it is *)
(* exactly the messages that have left (CleanInv).                         *)
(***************************************************************************)
EXTENDS AsyncLogger, SequenceTheorems, TLAPS

(* What has not left the logger, and how many messages have.               *)
Rest == lists \o queues
Taken == Len(accepted) - Len(Rest)

RestInv ==
  /\ Taken \in Nat
  /\ \A i \in 1..Len(Rest) : Rest[i] = accepted[Taken + i]

FileInv ==
  \A i \in 1..Len(file) : \E n \in 1..Len(accepted) :
    file[i] = accepted[n] /\ \A l \in 1..n - 1 : \E j \in 1..i - 1 : file[j] = accepted[l]

DoneInv ==
  \A n \in 1..Taken + next - 1 : \E i \in 1..Len(file) : file[i] = accepted[n]

(* Without a failure a batch can only go back when there is no stream, and *)
(* then nothing of it was written.                                         *)
CleanInv ==
  faults = 0 =>
    /\ Len(file) = Taken + next - 1
    /\ \A i \in 1..Len(file) : file[i] = accepted[i]
    /\ pc = "requeue" \/ stream = "nil" => next = 1

IInv == TypeOK /\ RestInv /\ FileInv /\ DoneInv /\ CleanInv

-----------------------------------------------------------------------------
LEMMA Shorter ==
  ASSUME NEW a \in Nat, NEW b \in Nat, NEW c \in Nat, c <= b
  PROVE  \A n \in 1..a + c - 1 : n \in 1..a + b - 1
OBVIOUS

(* Concatenation, element by element.                                      *)
LEMMA Joined ==
  ASSUME NEW s \in Seq(Msgs), NEW t \in Seq(Msgs)
  PROVE  /\ s \o t \in Seq(Msgs) /\ Len(s \o t) = Len(s) + Len(t)
         /\ Len(s) \in Nat /\ Len(t) \in Nat
         /\ \A i \in 1..Len(s) : (s \o t)[i] = s[i]
         /\ \A i \in 1..Len(t) : (s \o t)[Len(s) + i] = t[i]
<1>1. /\ s \o t \in Seq(Msgs) /\ Len(s \o t) = Len(s) + Len(t)
      /\ \A i \in 1 .. Len(s) + Len(t) : (s \o t)[i] = IF i <= Len(s) THEN s[i] ELSE t[i - Len(s)]
  BY ConcatProperties
<1>2. Len(s) \in Nat /\ Len(t) \in Nat
  BY LenProperties
<1>3. ASSUME NEW i \in 1..Len(s) PROVE (s \o t)[i] = s[i]
  BY <1>1, <1>2
<1>4. ASSUME NEW i \in 1..Len(t) PROVE (s \o t)[Len(s) + i] = t[i]
  <2>1. Len(s) + i \in 1 .. Len(s) + Len(t) /\ ~(Len(s) + i <= Len(s)) /\ Len(s) + i - Len(s) = i
    BY <1>2
  <2> QED BY <1>1, <2>1
<1> QED BY <1>1, <1>2, <1>3, <1>4

LEMMA Added ==
  ASSUME NEW s \in Seq(Msgs), NEW m \in Msgs
  PROVE  /\ Append(s, m) \in Seq(Msgs) /\ Len(Append(s, m)) = Len(s) + 1 /\ Len(s) \in Nat
         /\ \A i \in 1..Len(s) : Append(s, m)[i] = s[i]
         /\ Append(s, m)[Len(s) + 1] = m
BY AppendProperties, LenProperties

LEMMA RestFacts ==
  ASSUME TypeOK
  PROVE  /\ Rest \in Seq(Msgs) /\ Len(Rest) = Len(lists) + Len(queues)
         /\ Len(lists) \in Nat /\ Len(queues) \in Nat /\ Len(file) \in Nat
         /\ Len(accepted) \in Nat /\ next \in 1..Len(lists) + 1
         /\ \A i \in 1..Len(lists) : Rest[i] = lists[i]
         /\ \A i \in 1..Len(queues) : Rest[Len(lists) + i] = queues[i]
BY Joined, LenProperties DEF TypeOK, Rest

LEMMA InitInv == Init => IInv
<1> SUFFICES ASSUME Init PROVE IInv
  OBVIOUS
<1>1. TypeOK
  <2>1. /\ today \in 1..MaxDay /\ name \in 0..today /\ faults \in 0..MaxFaults
        /\ next \in 1..Len(lists) + 1
    BY BoundAssumption DEF Init
  <2>2. ready = (pc # "off")
    BY DEF Init
  <2> QED BY <2>1, <2>2 DEF Init, TypeOK
<1>2. Rest = <<>> /\ Len(accepted) = 0 /\ Len(file) = 0 /\ Len(Rest) = 0
  BY ConcatEmptySeq, EmptySeq DEF Init, Rest
<1>3. Taken = 0
  <2>1. Taken = 0 - 0
    BY <1>2, Zenon DEF Taken
  <2> QED BY <2>1
<1>4. RestInv /\ FileInv /\ DoneInv /\ CleanInv
  BY <1>2, <1>3 DEF Init, RestInv, FileInv, DoneInv, CleanInv
<1> QED BY <1>1, <1>4 DEF IInv

-----------------------------------------------------------------------------
(* Steps that move no message out and take none in, and at most set the    *)
(* position back.                                                          *)
LEMMA QuietInv ==
  ASSUME IInv, TypeOK', UNCHANGED <<Rest, file, accepted>>, next' <= next,
         faults' = 0 => faults = 0 /\ next' = next,
         faults' = 0 /\ (pc' = "requeue" \/ stream' = "nil") => next = 1
  PROVE  IInv'
<1>1. Taken' = Taken
  BY DEF Taken
<1>2. RestInv' /\ FileInv'
  BY <1>1 DEF IInv, RestInv, FileInv
<1>3. DoneInv'
  <2>1. next \in Nat /\ next' \in Nat /\ Taken \in Nat
    BY RestFacts DEF IInv, RestInv, TypeOK
  <2>2. \A n \in 1..Taken + next' - 1 : n \in 1..Taken + next - 1
    BY <2>1, Shorter
  <2>3. \A n \in 1..Taken + next' - 1 : \E i \in 1..Len(file) : file[i] = accepted[n]
    BY <2>2, Zenon DEF IInv, DoneInv
  <2>4. \A n \in 1..Taken' + next' - 1 : \E i \in 1..Len(file') : file'[i] = accepted'[n]
    BY <1>1, <2>3, Zenon
  <2> QED BY <2>4, Zenon DEF DoneInv
<1>4. CleanInv'
  BY <1>1 DEF IInv, CleanInv
<1> QED BY <1>2, <1>3, <1>4 DEF IInv

LEMMA StartupInv ==
  ASSUME IInv, Start \/ FlushStartup
  PROVE  IInv'
<1>1. /\ UNCHANGED <<Writing, queues, lists, file, next, writer, today, accepted>>
      /\ StartupOk \/ StartupFails
  BY DEF Start, FlushStartup, StartupOk, StartupFails
<1>2. lists = <<>> /\ pc \notin {"write", "requeue"}
  BY DEF IInv, TypeOK, Start, FlushStartup
<1>3. next = 1
  BY <1>2 DEF IInv, TypeOK
<1>4. faults' \in 0..MaxFaults /\ (faults' = 0 => faults = 0)
  BY <1>1, BoundAssumption DEF StartupOk, StartupFails, Fault, IInv, TypeOK
<1>5. name' \in 0..today /\ stream' \in {"nil", "open"} /\ dir' \in BOOLEAN
  <2>1. today \in 0..today /\ name \in 0..today
    BY DEF IInv, TypeOK
  <2>2. CASE StartupOk
    BY <2>1, <2>2 DEF StartupOk, IInv, TypeOK
  <2>3. CASE StartupFails
    BY <2>1, <2>3 DEF StartupFails, IInv, TypeOK
  <2> QED BY <1>1, <2>2, <2>3
<1>6. /\ ready' \in BOOLEAN /\ ready' = (pc' # "off")
      /\ pc' \in {"off", "sleep", "swap"}
  BY DEF Start, FlushStartup, IInv, TypeOK
<1>7. TypeOK'
  BY <1>1, <1>2, <1>4, <1>5, <1>6 DEF IInv, TypeOK
<1>8. UNCHANGED Rest /\ next' <= next
  BY <1>1, <1>3 DEF Rest
<1> QED BY <1>1, <1>3, <1>4, <1>7, <1>8, QuietInv

LEMMA OtherInv ==
  ASSUME IInv,
         \/ Wake \/ SyncFails \/ Switch \/ NextDay
         \/ \E m \in Msgs : WriteChecks(m)
         \/ UNCHANGED vars
  PROVE  IInv'
<1>1. UNCHANGED <<queues, lists, file, next, accepted, stream>> /\ (faults' = 0 => faults = 0)
  BY DEF Wake, SyncFails, Fault, Switch, NextDay, WriteChecks, disk, vars, IInv, TypeOK
<1>2. TypeOK'
  <2> USE DEF disk, IInv, TypeOK
  <2>1. CASE Wake \/ Switch \/ UNCHANGED vars
    BY <2>1 DEF Wake, Switch, vars
  <2>2. CASE SyncFails
    BY <2>2, BoundAssumption DEF SyncFails, Fault
  <2>3. CASE NextDay
    <3>1. today' \in 1..MaxDay /\ name' \in 0..today'
      BY <2>3, BoundAssumption DEF NextDay
    <3> QED BY <2>3, <3>1 DEF NextDay
  <2>4. CASE \E m \in Msgs : WriteChecks(m)
    BY <2>4 DEF WriteChecks
  <2> QED BY <2>1, <2>2, <2>3, <2>4
<1>3. faults' = 0 /\ (pc' = "requeue" \/ stream' = "nil") => next = 1
  BY <1>1 DEF Wake, SyncFails, Fault, Switch, NextDay, WriteChecks, disk, vars, IInv, TypeOK,
              CleanInv
<1>4. UNCHANGED Rest /\ next' <= next
  BY <1>1 DEF Rest, IInv, TypeOK
<1> QED BY <1>1, <1>2, <1>3, <1>4, QuietInv

LEMMA WriteFailsInv ==
  ASSUME IInv, WriteFails
  PROVE  IInv'
<1> USE DEF WriteFails
<1>1. UNCHANGED <<queues, lists, file, next, accepted>>
  OBVIOUS
<1>2. /\ faults' \in 0..MaxFaults /\ stream' \in {"nil", "open"}
      /\ faults' = 0 => faults = 0 /\ stream = "nil"
  BY BoundAssumption DEF IInv, TypeOK
<1>3. TypeOK'
  BY <1>2 DEF IInv, TypeOK
<1>4. faults' = 0 => next = 1
  BY <1>2 DEF IInv, CleanInv
<1>5. UNCHANGED Rest /\ next' <= next
  BY <1>1 DEF Rest, IInv, TypeOK
<1> QED BY <1>1, <1>2, <1>3, <1>4, <1>5, QuietInv

-----------------------------------------------------------------------------
(* A message is accepted at the end of everything.                         *)
LEMMA AppendsInv ==
  ASSUME IInv, NEW m \in Msgs, WriteAppends(m)
  PROVE  IInv'
<1> USE DEF WriteAppends, disk
<1>1. /\ queues' \in Seq(Msgs) /\ accepted' \in Seq(Msgs) /\ Len(accepted) \in Nat
      /\ Len(accepted') = Len(accepted) + 1
      /\ \A n \in 1..Len(accepted) : accepted'[n] = accepted[n]
      /\ accepted'[Len(accepted) + 1] = m
  BY Added DEF IInv, TypeOK
<1>2. TypeOK'
  BY <1>1 DEF IInv, TypeOK
<1>3. /\ Rest' = Append(Rest, m) /\ Len(Rest) \in Nat /\ Len(Rest') = Len(Rest) + 1
      /\ \A i \in 1..Len(Rest) : Rest'[i] = Rest[i]
      /\ Rest'[Len(Rest) + 1] = m
  <2>1. lists \in Seq(Msgs) /\ queues \in Seq(Msgs) /\ <<m>> \in Seq(Msgs)
    BY DEF IInv, TypeOK
  <2>2. Append(queues, m) = queues \o <<m>> /\ Append(Rest, m) = Rest \o <<m>>
    BY <2>1, RestFacts, AppendIsConcat DEF IInv
  <2>3. lists \o (queues \o <<m>>) = (lists \o queues) \o <<m>>
    BY <2>1, ConcatAssociative
  <2>4. Rest' = Append(Rest, m)
    BY <2>2, <2>3 DEF Rest
  <2> QED BY <2>4, RestFacts, Added DEF IInv
<1>4. Taken' = Taken /\ Taken \in Nat /\ Taken + Len(Rest) = Len(accepted)
  BY <1>1, <1>3 DEF Taken, IInv, RestInv
<1>5. RestInv'
  <2>1. ASSUME NEW i \in 1..Len(Rest) + 1 PROVE Rest'[i] = accepted'[Taken + i]
    <3>1. CASE i = Len(Rest) + 1
      <4>1. Taken + i = Len(accepted) + 1
        BY <1>3, <1>4, <3>1
      <4> QED BY <1>1, <1>3, <3>1, <4>1
    <3>2. CASE i # Len(Rest) + 1
      <4>1. i \in 1..Len(Rest) /\ Taken + i \in 1..Len(accepted)
        BY <1>3, <1>4, <3>2
      <4> QED BY <1>1, <1>3, <4>1 DEF IInv, RestInv
    <3> QED BY <3>1, <3>2
  <2> QED BY <1>3, <1>4, <2>1 DEF RestInv
<1>6. FileInv'
  <2>1. ASSUME NEW i \in 1..Len(file)
        PROVE  \E n \in 1..Len(accepted') :
                 /\ file[i] = accepted'[n]
                 /\ \A l \in 1..n - 1 : \E j \in 1..i - 1 : file[j] = accepted'[l]
    <3>1. PICK n \in 1..Len(accepted) :
             file[i] = accepted[n] /\ \A l \in 1..n - 1 : \E j \in 1..i - 1 : file[j] = accepted[l]
      BY DEF IInv, FileInv
    <3>2. n \in 1..Len(accepted') /\ \A l \in 1..n - 1 : l \in 1..Len(accepted)
      BY <1>1
    <3> QED BY <1>1, <3>1, <3>2
  <2> QED BY <2>1 DEF FileInv
<1>7. next \in Nat /\ Taken + next - 1 <= Len(accepted)
  <2>1. next \in 1..Len(lists) + 1 /\ Len(lists) \in Nat /\ Len(queues) \in Nat
        /\ Len(Rest) = Len(lists) + Len(queues)
    BY RestFacts DEF IInv
  <2> QED BY <1>4, <2>1
<1>8. DoneInv'
  <2>1. \A n \in 1..Taken + next - 1 : n \in 1..Len(accepted)
    BY <1>1, <1>4, <1>7
  <2> QED BY <1>1, <1>4, <2>1 DEF IInv, DoneInv
<1>9. CleanInv'
  <2>1. faults = 0 => Len(file) <= Len(accepted)
    BY <1>7 DEF IInv, CleanInv
  <2>2. Len(file) \in Nat
    BY RestFacts DEF IInv
  <2>3. faults = 0 => \A i \in 1..Len(file) : i \in 1..Len(accepted)
    BY <1>1, <2>1, <2>2
  <2> QED BY <1>1, <1>4, <2>3 DEF IInv, CleanInv
<1> QED BY <1>2, <1>5, <1>6, <1>8, <1>9 DEF IInv

-----------------------------------------------------------------------------
(* A batch is taken, goes back, or has been written.                       *)
LEMMA BatchInv ==
  ASSUME IInv, Swap \/ Requeue
  PROVE  IInv'
<1> USE DEF Swap, Requeue, disk
<1>1. /\ lists \in Seq(Msgs) /\ queues \in Seq(Msgs) /\ lists \o queues \in Seq(Msgs)
      /\ <<>> \in Seq(Msgs) /\ next' = 1 /\ next \in 1..Len(lists) + 1 /\ Len(lists) \in Nat
  BY Joined DEF IInv, TypeOK
<1>2. TypeOK'
  <2>1. /\ queues' \in Seq(Msgs) /\ lists' \in Seq(Msgs) /\ Len(lists') \in Nat
        /\ lists' # <<>> => pc' = "write"
    BY <1>1, LenProperties
  <2>2. next' \in 1..Len(lists') + 1
    BY <1>1, <2>1
  <2> QED BY <2>1, <2>2 DEF IInv, TypeOK
<1>3. UNCHANGED Rest
  <2>1. CASE Swap
    <3>1. lists = <<>> /\ lists' = queues /\ queues' = <<>>
      BY <2>1 DEF IInv, TypeOK
    <3> QED BY <1>1, <3>1, ConcatEmptySeq DEF Rest
  <2>2. CASE Requeue
    BY <1>1, <2>2, ConcatEmptySeq DEF Rest
  <2> QED BY <2>1, <2>2
<1>4. Swap => next = 1
  BY <1>1 DEF IInv, TypeOK
<1>5. faults' = 0 => faults = 0 /\ next = 1
  BY <1>4 DEF IInv, CleanInv
<1> QED BY <1>1, <1>2, <1>3, <1>5, QuietInv

LEMMA SyncInv ==
  ASSUME IInv, Sync
  PROVE  IInv'
<1> USE DEF Sync, disk
<1>1. /\ lists' = <<>> /\ Len(lists') = 0 /\ queues' = queues /\ next' = 1
      /\ next = Len(lists) + 1 /\ Len(lists) \in Nat
      /\ queues \in Seq(Msgs)
  BY RestFacts, EmptySeq DEF IInv, TypeOK
<1>2. TypeOK'
  BY <1>1 DEF IInv, TypeOK
<1>3. Rest' = queues
  BY <1>1, ConcatEmptySeq DEF Rest
<1>4. Taken' = Taken + Len(lists) /\ Taken \in Nat
  <2>1. Taken' = Len(accepted) - Len(queues)
    BY <1>3, Zenon DEF Taken
  <2>2. Len(Rest) = Len(lists) + Len(queues) /\ Len(queues) \in Nat /\ Len(accepted) \in Nat
    BY RestFacts DEF IInv
  <2>3. Taken = Len(accepted) - (Len(lists) + Len(queues))
    BY <2>2, Zenon DEF Taken
  <2> QED BY <1>1, <2>1, <2>2, <2>3 DEF IInv, RestInv
<1>5. Taken' + next' - 1 = Taken + next - 1
  BY <1>1, <1>4
<1>6. RestInv'
  <2>1. ASSUME NEW i \in 1..Len(queues) PROVE queues[i] = accepted[Taken' + i]
    <3>1. Len(lists) + i \in 1..Len(Rest) /\ Rest[Len(lists) + i] = queues[i]
          /\ Taken' + i = Taken + (Len(lists) + i)
      BY <1>4, RestFacts DEF IInv
    <3> QED BY <3>1 DEF IInv, RestInv
  <2> QED BY <1>1, <1>3, <1>4, <2>1 DEF RestInv
<1>7. FileInv'
  BY DEF IInv, FileInv
<1>8. DoneInv'
  <2>1. \A n \in 1..Taken' + next' - 1 : \E i \in 1..Len(file) : file[i] = accepted[n]
    BY <1>5, Zenon DEF IInv, DoneInv
  <2> QED BY <2>1, Zenon DEF DoneInv
<1>9. CleanInv'
  <2>1. faults = 0 => Len(file) = Taken' + next' - 1
    BY <1>5, Zenon DEF IInv, CleanInv
  <2> QED BY <1>1, <2>1 DEF IInv, CleanInv
<1> QED BY <1>2, <1>6, <1>7, <1>8, <1>9 DEF IInv

(* The next message of the batch is written after all before it.           *)
LEMMA WriteOneInv ==
  ASSUME IInv, WriteOne
  PROVE  IInv'
<1> USE DEF WriteOne
<1>1. /\ next \in 1..Len(lists) /\ lists[next] \in Msgs
      /\ Len(lists) \in Nat /\ Len(file) \in Nat /\ Len(accepted) \in Nat
      /\ UNCHANGED <<Rest, accepted>>
  BY RestFacts DEF IInv, TypeOK, Rest
<1>2. /\ file' \in Seq(Msgs) /\ Len(file') = Len(file) + 1
      /\ \A i \in 1..Len(file) : file'[i] = file[i]
      /\ file'[Len(file) + 1] = lists[next]
  BY <1>1, Added DEF IInv, TypeOK
<1>3. TypeOK'
  BY <1>1, <1>2 DEF IInv, TypeOK
<1>4. Taken' = Taken /\ Taken \in Nat /\ Taken + Len(Rest) = Len(accepted)
  BY <1>1, RestFacts DEF Taken, IInv, RestInv
<1>5. lists[next] = accepted[Taken + next] /\ Taken + next \in 1..Len(accepted)
  <2>1. next \in 1..Len(Rest) /\ Rest[next] = lists[next]
    BY <1>1, RestFacts DEF IInv
  <2> QED BY <1>4, <2>1, RestFacts DEF IInv, RestInv
<1>6. RestInv'
  BY <1>1, <1>4 DEF IInv, RestInv
<1>7. \A n \in 1..Taken + next - 1 : \E i \in 1..Len(file) : file'[i] = accepted[n]
  BY <1>2 DEF IInv, DoneInv
<1>8. FileInv'
  <2>1. ASSUME NEW i \in 1..Len(file')
        PROVE  \E n \in 1..Len(accepted) :
                 /\ file'[i] = accepted[n]
                 /\ \A l \in 1..n - 1 : \E j \in 1..i - 1 : file'[j] = accepted[l]
    <3>1. CASE i \in 1..Len(file)
      <4>1. PICK n \in 1..Len(accepted) :
               file[i] = accepted[n] /\ \A l \in 1..n - 1 : \E j \in 1..i - 1 : file[j] = accepted[l]
        BY <3>1 DEF IInv, FileInv
      <4>2. \A j \in 1..i - 1 : j \in 1..Len(file)
        BY <1>1, <3>1
      <4> QED BY <1>2, <3>1, <4>1, <4>2
    <3>2. CASE i = Len(file) + 1
      <4>1. i - 1 = Len(file)
        BY <1>1, <3>2
      <4>2. file'[i] = accepted[Taken + next]
        BY <1>2, <1>5, <3>2
      <4> HIDE DEF WriteOne
      <4>3. (Taken + next) - 1 = Taken + next - 1
        BY <1>1, <1>4
      <4>4. PICK n \in 1..Len(accepted) : n = Taken + next
        BY <1>5
      <4>5. file'[i] = accepted[n]
        BY <4>2, <4>4, Zenon
      <4>6. \A l \in 1..n - 1 : \E j \in 1..i - 1 : file'[j] = accepted[l]
        <5>1. \A l \in 1..n - 1 : \E j \in 1..Len(file) : file'[j] = accepted[l]
          BY <1>7, <4>3, <4>4, Zenon
        <5> QED BY <4>1, <5>1, Zenon
      <4> QED BY <4>5, <4>6, Zenon
    <3> QED BY <1>1, <1>2, <3>1, <3>2
  <2> QED BY <1>1, <2>1 DEF FileInv
<1>9. DoneInv'
  <2>1. ASSUME NEW n \in 1..Taken + (next + 1) - 1
        PROVE  \E i \in 1..Len(file') : file'[i] = accepted[n]
    <3>1. CASE n = Taken + next
      <4>1. Len(file) + 1 \in 1..Len(file')
        BY <1>1, <1>2
      <4> QED BY <1>2, <1>5, <3>1, <4>1
    <3>2. CASE n # Taken + next
      <4>1. n \in 1..Taken + next - 1 /\ \A i \in 1..Len(file) : i \in 1..Len(file')
        BY <1>1, <1>2, <1>4, <3>2
      <4> QED BY <1>7, <4>1
    <3> QED BY <3>1, <3>2
  <2> QED BY <1>1, <1>4, <2>1 DEF DoneInv
<1>10. CleanInv'
  <2>1. ASSUME faults = 0
        PROVE  /\ Len(file') = Taken + (next + 1) - 1
               /\ \A i \in 1..Len(file') : file'[i] = accepted[i]
    <3>1. Len(file) = Taken + next - 1 /\ \A i \in 1..Len(file) : file[i] = accepted[i]
      BY <2>1 DEF IInv, CleanInv
    <3> QED BY <1>1, <1>2, <1>4, <1>5, <3>1
  <2> QED BY <1>1, <1>4, <2>1 DEF CleanInv
<1> QED BY <1>3, <1>6, <1>8, <1>9, <1>10 DEF IInv

(* The invariant holds in every reachable state.                           *)
THEOREM Inductive == Spec => []IInv
<1>1. IInv /\ [Next]_vars => IInv'
  BY StartupInv, OtherInv, WriteFailsInv, AppendsInv, BatchInv, SyncInv, WriteOneInv
     DEF Next, Flush
<1> QED BY InitInv, <1>1, PTL DEF Spec

(* The variables keep their types, and the flusher its batch, its position *)
(* and its readiness in step.                                              *)
THEOREM TypeCorrect == Spec => []TypeOK
<1>1. IInv => TypeOK
  BY DEF IInv
<1> QED BY Inductive, <1>1, PTL

-----------------------------------------------------------------------------
(* What the invariant says of file, batch and queue put together.          *)
LEMMA AllFacts ==
  ASSUME IInv
  PROVE  /\ file \o lists \o queues = file \o Rest
         /\ Len(file \o Rest) = Len(file) + Len(Rest)
         /\ Len(file) \in Nat /\ Len(Rest) \in Nat /\ Taken \in Nat
         /\ Taken + Len(Rest) = Len(accepted)
         /\ \A i \in 1..Len(file) : (file \o Rest)[i] = file[i]
         /\ \A i \in 1..Len(Rest) : (file \o Rest)[Len(file) + i] = accepted[Taken + i]
         /\ \A n \in 1..Taken : \E i \in 1..Len(file) : file[i] = accepted[n]
<1>1. /\ file \in Seq(Msgs) /\ lists \in Seq(Msgs) /\ queues \in Seq(Msgs)
      /\ Rest \in Seq(Msgs) /\ Len(accepted) \in Nat /\ next \in Nat /\ 1 <= next
  BY RestFacts DEF IInv, TypeOK
<1>2. file \o lists \o queues = file \o Rest
  <2>1. (file \o lists) \o queues = file \o (lists \o queues)
    BY <1>1, ConcatAssociative
  <2> QED BY <2>1, Zenon DEF Rest
<1>3. /\ Len(file \o Rest) = Len(file) + Len(Rest) /\ Len(file) \in Nat /\ Len(Rest) \in Nat
      /\ \A i \in 1..Len(file) : (file \o Rest)[i] = file[i]
      /\ \A i \in 1..Len(Rest) : (file \o Rest)[Len(file) + i] = Rest[i]
  BY <1>1, Joined
<1>4. Taken \in Nat /\ \A i \in 1..Len(Rest) : Rest[i] = accepted[Taken + i]
  BY DEF IInv, RestInv
<1>5. Taken + Len(Rest) = Len(accepted)
  BY <1>1, <1>3 DEF Taken
<1>6. \A n \in 1..Taken : n \in 1..Taken + next - 1
  BY <1>1, <1>4
<1>7. \A n \in 1..Taken : \E i \in 1..Len(file) : file[i] = accepted[n]
  BY <1>6 DEF IInv, DoneInv
<1> QED BY <1>2, <1>3, <1>4, <1>5, <1>7

LEMMA AllTold == IInv => Tells(file \o lists \o queues, accepted)
<1> SUFFICES ASSUME IInv PROVE Tells(file \o Rest, accepted)
  BY AllFacts, Zenon
<1> DEFINE s == file \o Rest
<1>1. /\ Len(s) = Len(file) + Len(Rest) /\ Len(file) \in Nat /\ Len(Rest) \in Nat /\ Taken \in Nat
      /\ Taken + Len(Rest) = Len(accepted)
      /\ \A i \in 1..Len(file) : s[i] = file[i]
      /\ \A i \in 1..Len(Rest) : s[Len(file) + i] = accepted[Taken + i]
      /\ \A n \in 1..Taken : \E i \in 1..Len(file) : file[i] = accepted[n]
  BY AllFacts, Zenon
<1> HIDE DEF s
<1>2. ASSUME NEW i \in 1..Len(s)
      PROVE  \E n \in 1..Len(accepted) :
               s[i] = accepted[n] /\ \A l \in 1..n - 1 : \E j \in 1..i - 1 : s[j] = accepted[l]
  <2>1. CASE i <= Len(file)
    <3>1. i \in 1..Len(file)
      BY <1>1, <2>1
    <3>2. PICK n \in 1..Len(accepted) :
             file[i] = accepted[n] /\ \A l \in 1..n - 1 : \E j \in 1..i - 1 : file[j] = accepted[l]
      BY <3>1 DEF IInv, FileInv
    <3>3. \A j \in 1..i - 1 : j \in 1..Len(file)
      BY <1>1, <3>1
    <3> QED BY <1>1, <3>1, <3>2, <3>3
  <2>2. CASE ~(i <= Len(file))
    <3>1. PICK k \in 1..Len(Rest) : i = Len(file) + k
      <4>1. i - Len(file) \in 1..Len(Rest) /\ i = Len(file) + (i - Len(file))
        BY <1>1, <2>2
      <4> QED BY <4>1
    <3> DEFINE n == Taken + k
    <3>2. n \in 1..Len(accepted) /\ s[i] = accepted[n]
      BY <1>1, <3>1
    <3>3. ASSUME NEW l \in 1..n - 1 PROVE \E j \in 1..i - 1 : s[j] = accepted[l]
      <4>1. CASE l <= Taken
        <5>1. l \in 1..Taken
          BY <1>1, <4>1
        <5>2. PICK j \in 1..Len(file) : file[j] = accepted[l]
          BY <1>1, <5>1
        <5>3. j \in 1..i - 1
          BY <1>1, <3>1, <5>2
        <5> QED BY <1>1, <5>2, <5>3
      <4>2. CASE ~(l <= Taken)
        <5>1. /\ l - Taken \in 1..Len(Rest) /\ Len(file) + (l - Taken) \in 1..i - 1
              /\ Taken + (l - Taken) = l
          BY <1>1, <3>1, <4>2
        <5>2. s[Len(file) + (l - Taken)] = accepted[l]
          BY <1>1, <5>1
        <5> QED BY <5>1, <5>2
      <4> QED BY <4>1, <4>2
    <3> HIDE DEF n
    <3> QED BY <3>2, <3>3
  <2> QED BY <2>1, <2>2
<1>3. ASSUME NEW n \in 1..Len(accepted)
      PROVE  \E i \in 1..Len(s) : s[i] = accepted[n]
  <2>1. CASE n <= Taken
    <3>1. n \in 1..Taken
      BY <1>1, <2>1
    <3>2. PICK i \in 1..Len(file) : file[i] = accepted[n]
      BY <1>1, <3>1
    <3>3. i \in 1..Len(s)
      BY <1>1, <3>2
    <3> QED BY <1>1, <3>2, <3>3
  <2>2. CASE ~(n <= Taken)
    <3>1. /\ n - Taken \in 1..Len(Rest) /\ Len(file) + (n - Taken) \in 1..Len(s)
          /\ Taken + (n - Taken) = n
      BY <1>1, <2>2
    <3>2. s[Len(file) + (n - Taken)] = accepted[n]
      BY <1>1, <3>1
    <3> QED BY <3>1, <3>2
  <2> QED BY <2>1, <2>2
<1>4. Tells(s, accepted)
  BY <1>2, <1>3 DEF Tells
<1> QED BY <1>4 DEF s

(* Without a failure the file, what is left of the batch and the queue are *)
(* the accepted messages: the same length, and message by message.         *)
LEMMA CleanTold ==
  ASSUME IInv, faults = 0
  PROVE  file \o SubSeq(lists, next, Len(lists)) \o queues = accepted
<1> DEFINE left == SubSeq(lists, next, Len(lists))
           whole == (file \o left) \o queues
<1>1. /\ file \in Seq(Msgs) /\ lists \in Seq(Msgs) /\ queues \in Seq(Msgs)
      /\ accepted \in Seq(Msgs) /\ Len(accepted) \in Nat
      /\ Len(file) \in Nat /\ Len(lists) \in Nat /\ Len(queues) \in Nat
      /\ next \in 1..Len(lists) + 1 /\ Taken \in Nat
      /\ Len(Rest) = Len(lists) + Len(queues) /\ Taken + Len(Rest) = Len(accepted)
  BY RestFacts, AllFacts DEF IInv, TypeOK
<1>2. /\ Len(file) = Taken + next - 1
      /\ \A i \in 1..Len(file) : file[i] = accepted[i]
  BY DEF IInv, CleanInv
<1>3. /\ \A i \in 1..Len(lists) : lists[i] = accepted[Taken + i]
      /\ \A i \in 1..Len(queues) : queues[i] = accepted[Taken + (Len(lists) + i)]
  <2>1. /\ \A i \in 1..Len(lists) : i \in 1..Len(Rest) /\ Rest[i] = lists[i]
        /\ \A i \in 1..Len(queues) : Len(lists) + i \in 1..Len(Rest) /\ Rest[Len(lists) + i] = queues[i]
    BY <1>1, RestFacts DEF IInv
  <2> QED BY <2>1 DEF IInv, RestInv
<1>4. /\ left \in Seq(Msgs) /\ Len(left) = Len(lists) - next + 1
      /\ \A i \in 1..Len(left) : left[i] = accepted[Len(file) + i]
  <2>1. \A i \in next..Len(lists) : lists[i] \in Msgs
    BY <1>1
  <2>2. next \in Int /\ Len(lists) \in Int
    BY <1>1
  <2>3. /\ left \in Seq(Msgs)
        /\ Len(left) = IF next <= Len(lists) THEN Len(lists) - next + 1 ELSE 0
        /\ \A i \in 1..Len(lists) - next + 1 : left[i] = lists[next + i - 1]
    BY <2>1, <2>2, SubSeqProperties
  <2>4. Len(left) = Len(lists) - next + 1
    BY <1>1, <2>3
  <2>5. ASSUME NEW i \in 1..Len(left) PROVE left[i] = accepted[Len(file) + i]
    <3>1. /\ next + i - 1 \in 1..Len(lists) /\ Taken + (next + i - 1) = Len(file) + i
          /\ i \in 1..Len(lists) - next + 1
      BY <1>1, <1>2, <2>4
    <3> QED BY <1>3, <2>3, <3>1
  <2> QED BY <2>3, <2>4, <2>5
<1> HIDE DEF left
<1>5. /\ file \o left \in Seq(Msgs) /\ Len(file \o left) = Len(file) + Len(left)
      /\ \A i \in 1..Len(file) : (file \o left)[i] = file[i]
      /\ \A i \in 1..Len(left) : (file \o left)[Len(file) + i] = left[i]
  BY <1>1, <1>4, Joined
<1>6. /\ whole \in Seq(Msgs) /\ Len(whole) = Len(file \o left) + Len(queues)
      /\ \A i \in 1..Len(file \o left) : whole[i] = (file \o left)[i]
      /\ \A i \in 1..Len(queues) : whole[Len(file \o left) + i] = queues[i]
  BY <1>1, <1>5, Joined
<1> HIDE DEF whole
<1>7. /\ Len(file) + Len(left) = Taken + Len(lists) /\ Len(file \o left) = Taken + Len(lists)
      /\ Len(whole) = Len(accepted)
  <2>1. Len(left) \in Nat /\ Len(file) + Len(left) = Taken + Len(lists)
    BY <1>1, <1>2, <1>4
  <2>2. Len(file \o left) = Taken + Len(lists)
    BY <1>5, <2>1, Zenon
  <2>3. Len(whole) = (Taken + Len(lists)) + Len(queues)
    BY <1>6, <2>2, Zenon
  <2>4. (Taken + Len(lists)) + Len(queues) = Taken + (Len(lists) + Len(queues))
    BY <1>1
  <2>5. Len(whole) = Len(accepted)
    BY <1>1, <2>3, <2>4, Zenon
  <2> QED BY <2>1, <2>2, <2>5
<1>8. ASSUME NEW i \in 1..Len(whole) PROVE whole[i] = accepted[i]
  <2>1. CASE i \in 1..Len(file)
    <3>1. i \in 1..Len(file \o left)
      BY <1>1, <1>4, <1>5, <2>1
    <3> QED BY <1>2, <1>5, <1>6, <2>1, <3>1
  <2>2. CASE i \in Len(file) + 1..Len(file) + Len(left)
    <3>1. PICK k \in 1..Len(left) : i = Len(file) + k
      <4>1. i - Len(file) \in 1..Len(left) /\ i = Len(file) + (i - Len(file))
        BY <1>1, <1>4, <2>2
      <4> QED BY <4>1
    <3>2. i \in 1..Len(file \o left)
      BY <1>1, <1>4, <1>5, <2>2
    <3> QED BY <1>4, <1>5, <1>6, <3>1, <3>2
  <2>3. CASE i \in Taken + Len(lists) + 1..Len(accepted)
    <3>1. PICK k \in 1..Len(queues) : i = Taken + Len(lists) + k
      <4>1. i - (Taken + Len(lists)) \in 1..Len(queues)
            /\ i = Taken + Len(lists) + (i - (Taken + Len(lists)))
        BY <1>1, <2>3
      <4> QED BY <4>1
    <3>2. i = Len(file \o left) + k /\ i = Taken + (Len(lists) + k)
      <4>1. Taken + Len(lists) + k = Taken + (Len(lists) + k)
        BY <1>1
      <4> QED BY <1>7, <3>1, <4>1, Zenon
    <3>3. whole[i] = queues[k]
      BY <1>6, <3>1, <3>2
    <3>4. queues[k] = accepted[i]
      BY <1>3, <3>1, <3>2
    <3> QED BY <3>3, <3>4
  <2> QED BY <1>1, <1>4, <1>7, <2>1, <2>2, <2>3
<1>9. whole = accepted
  BY <1>1, <1>6, <1>7, <1>8, SeqEqual
<1> QED BY <1>9 DEF whole, left

(* No accepted message is lost or overtaken, whatever fails: file, batch   *)
(* and queue together tell the accepted messages, and each once as long as *)
(* nothing has failed (flush and write).                                   *)
THEOREM NothingLost == Spec => []NothingLostOrOvertaken
<1>1. IInv => NothingLostOrOvertaken
  BY AllTold, CleanTold DEF NothingLostOrOvertaken
<1> QED BY Inductive, <1>1, PTL
=============================================================================
