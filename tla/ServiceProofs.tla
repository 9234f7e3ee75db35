---------------------------- MODULE ServiceProofs ----------------------------
(***************************************************************************)
(* Proofs about RouteGuard, for any requests, tokens, sessions, options    *)
(* and number of writes of the auth service, and about ObjectStore, for    *)
(* any callers, contents, names and orders.                                *)
(*                                                                         *)
(* The guard: what a request could have seen keeps up with Redis while the *)
(* request is under way (ObserveInv), so that each of the two reads of     *)
(* GuardRoute finds something the request could have seen, and what it     *)
(* concludes from the first is still so when it has made the second        *)
(* (GuardInv).                                                             *)
(*                                                                         *)
(* The store: two things make the answers true whatever the other callers  *)
(* do.  The names a content was stored with only grow, so that a name once *)
(* found stays one of them; and an object goes only by a removal that      *)
(* every call under way could have seen.  For archives, DiskInv says what  *)
(* the files written so far hold.                                          *)
(***************************************************************************)
EXTENDS RouteGuard, ObjectStore, SequenceTheorems, TLAPS

-----------------------------------------------------------------------------
(* The guard.                                                              *)

GuardSpec == GuardInit /\ [][GuardNext]_rvars

Handlers == {"HandleNotfound", "SetWsCredential", "SetMetadata", "GuardRoute", "client",
             "ReadMarker", "ReadSession"}

Stored == Sessions \cup {Broken}

GuardTypes ==
  /\ client \in Nat /\ dials \in Nat
  /\ mutex \in Requests \cup {Nobody}
  /\ markers \subseteq Tokens /\ tickets \subseteq Tokens /\ session \in Stored
  /\ where \in [Requests -> Handlers \cup Ends]
  /\ sent \in [Requests -> Send]
  /\ roles \in [Requests -> SUBSET UNION {RoleIds(s) : s \in Stored}]
  /\ live \in [Requests -> BOOLEAN]
  /\ stored \in [Requests -> SUBSET Stored]
  /\ steady \in [Requests -> BOOLEAN]

(* The guard's client is its first connection.                             *)
ClientInv == client = dials /\ dials <= 1

(* A request that is under way could have seen what Redis has now, and     *)
(* nothing else if nothing was written since it began.                     *)
ObserveInv ==
  \A r \in Requests : Underway(r) =>
    /\ sent[r].token \in markers => live[r]
    /\ session \in stored[r]
    /\ steady[r] /\ live[r] => sent[r].token \in markers
    /\ steady[r] => stored[r] = {session}

(* What has been decided of a request by where it is.                      *)
GuardInv ==
  \A r \in Requests :
    /\ where[r] = "GuardRoute" => ~m.disableGuards
    /\ where[r] \in {"client", "ReadMarker", "ReadSession"} => Guards(r)
    /\ where[r] = "ReadSession" => live[r]
    /\ where[r] # "handled" => roles[r] = {}
    /\ where[r] = "handled" /\ ~Guards(r) => roles[r] = {}
    /\ where[r] = "handled" /\ Guards(r) =>
         live[r] /\ \E s \in stored[r] \ {Broken} : roles[r] = RoleIds(s)

(* Why a request was turned away.                                          *)
RefusedInv ==
  \A r \in Requests : where[r] = "401" /\ steady[r] =>
    ~Parses(sent[r].token) \/ ~live[r] \/ stored[r] = {Broken}

GuardIInv == GuardTypes /\ ClientInv /\ ObserveInv /\ GuardInv /\ RefusedInv

-----------------------------------------------------------------------------
LEMMA GuardInitInv == GuardInit => GuardIInv
<1> SUFFICES ASSUME GuardInit PROVE GuardIInv
  OBVIOUS
<1>1. GuardTypes
  <2>1. (CHOOSE s \in Sends : TRUE) \in Send
    BY ServiceAssumption
  <2> QED BY <2>1 DEF GuardInit, GuardTypes, Ends, Stored
<1>2. ClientInv /\ ObserveInv /\ GuardInv /\ RefusedInv
  BY DEF GuardInit, ClientInv, ObserveInv, GuardInv, RefusedInv, Underway, Ends
<1> QED BY <1>1, <1>2 DEF GuardIInv

(* The handlers before the guard.                                          *)
LEMMA BeforeInv ==
  ASSUME GuardIInv, NEW r \in Requests,
         \/ Arrive(r) \/ HandleNotfound(r) \/ SetWsCredential(r)
         \/ WsCredentialFails(r) \/ SetMetadata(r)
  PROVE  GuardIInv'
<1> USE DEF GuardIInv, Moves, guard, redis, history, Underway, Ends, Handlers
<1>1. CASE Arrive(r)
  <2> USE <1>1 DEF Arrive, Observe
  <2>1. PICK s \in Sends : sent' = [sent EXCEPT ![r] = s]
    OBVIOUS
  <2>2. s \in Send
    BY ServiceAssumption
  <2>3. GuardTypes'
    BY <2>1, <2>2 DEF GuardTypes
  <2>4. ClientInv' /\ ObserveInv'
    BY <2>1 DEF GuardTypes, ClientInv, ObserveInv
  <2>5. GuardInv' /\ RefusedInv'
    BY <2>1 DEF GuardTypes, GuardInv, RefusedInv, Guards, Parses
  <2> QED BY <2>3, <2>4, <2>5
<1>2. CASE HandleNotfound(r)
  <2> USE <1>2 DEF HandleNotfound
  <2>1. GuardTypes' /\ ClientInv' /\ ObserveInv'
    BY DEF GuardTypes, ClientInv, ObserveInv
  <2>2. GuardInv' /\ RefusedInv'
    BY DEF GuardTypes, GuardInv, RefusedInv, Guards, Parses
  <2> QED BY <2>1, <2>2
<1>3. CASE SetWsCredential(r) /\ wsClient
  <2>1. PICK t \in tickets :
          /\ sent' = [sent EXCEPT ![r].token = t, ![r].portal = TRUE]
          /\ live' = [live EXCEPT ![r] = t \in markers]
          /\ where' = [where EXCEPT ![r] = "SetMetadata"]
    BY <1>3 DEF SetWsCredential
  <2>2. /\ UNCHANGED <<m, client, dials, mutex, markers, session, tickets, expired, roles,
                       stored, steady>>
        /\ where[r] = "SetWsCredential"
    BY <1>3 DEF SetWsCredential
  <2>3. sent'[r] \in Send /\ sent'[r].token = t /\ sent' \in [Requests -> Send]
    BY <2>1 DEF GuardTypes, Send
  <2>4. GuardTypes'
    BY <2>1, <2>2, <2>3 DEF GuardTypes
  <2>5. ClientInv' /\ ObserveInv'
    <3>1. live'[r] <=> t \in markers
      BY <2>1 DEF GuardTypes
    <3>2. \A q \in Requests \ {r} :
            live'[q] = live[q] /\ sent'[q] = sent[q] /\ where'[q] = where[q]
      BY <2>1 DEF GuardTypes
    <3>3. ASSUME NEW q \in Requests, q # r, Underway(q)'
          PROVE  ObserveInv!(q)'
      BY <2>2, <3>2, <3>3 DEF ObserveInv
    <3>4. ObserveInv!(r)'
      BY <2>2, <2>3, <3>1 DEF ObserveInv
    <3> QED BY <2>2, <3>3, <3>4 DEF ClientInv, ObserveInv
  <2>6. GuardInv' /\ RefusedInv'
    BY <2>1, <2>2 DEF GuardTypes, GuardInv, RefusedInv, Guards, Parses
  <2> QED BY <2>4, <2>5, <2>6
<1>4. CASE \/ SetWsCredential(r) /\ ~wsClient
           \/ WsCredentialFails(r)
  <2> USE <1>4 DEF SetWsCredential, WsCredentialFails, Disturbed
  <2>1. GuardTypes' /\ ClientInv'
    BY DEF GuardTypes, ClientInv
  <2>2. ObserveInv'
    BY DEF GuardTypes, ObserveInv
  <2>3. GuardInv' /\ RefusedInv'
    BY DEF GuardTypes, GuardInv, RefusedInv, Guards, Parses
  <2> QED BY <2>1, <2>2, <2>3
<1>5. CASE SetMetadata(r)
  <2> USE <1>5 DEF SetMetadata
  <2>1. GuardTypes' /\ ClientInv' /\ ObserveInv'
    BY DEF GuardTypes, ClientInv, ObserveInv
  <2>2. GuardInv' /\ RefusedInv'
    BY DEF GuardTypes, GuardInv, RefusedInv, Guards, Parses
  <2> QED BY <2>1, <2>2
<1> QED BY <1>1, <1>2, <1>3, <1>4, <1>5

(* GuardRoute, and its client.                                             *)
LEMMA RouteInv ==
  ASSUME GuardIInv, NEW r \in Requests,
         \/ GuardRoute(r) \/ LockClient(r) \/ HaveClient(r) \/ NoClient(r)
         \/ ReadMarker(r) \/ ReadSession(r) \/ ReadFails(r)
  PROVE  GuardIInv'
<1> USE DEF GuardIInv, Moves, guard, redis, history, Underway, Ends, Handlers
<1>1. CASE GuardRoute(r)
  <2> USE <1>1 DEF GuardRoute
  <2>1. GuardTypes' /\ ClientInv' /\ ObserveInv'
    BY DEF GuardTypes, ClientInv, ObserveInv
  <2>2. GuardInv' /\ RefusedInv'
    BY DEF GuardTypes, GuardInv, RefusedInv, Guards, Parses
  <2> QED BY <2>1, <2>2
<1>2. CASE LockClient(r)
  <2> USE <1>2 DEF LockClient
  <2>1. GuardTypes' /\ ClientInv' /\ ObserveInv'
    BY DEF GuardTypes, ClientInv, ObserveInv
  <2>2. GuardInv' /\ RefusedInv'
    BY DEF GuardInv, RefusedInv, Guards, Parses
  <2> QED BY <2>1, <2>2
<1>3. CASE HaveClient(r)
  <2> USE <1>3 DEF HaveClient
  <2>1. GuardTypes' /\ ClientInv'
    BY DEF GuardTypes, ClientInv
  <2>2. ObserveInv'
    BY DEF GuardTypes, ObserveInv
  <2>3. GuardInv' /\ RefusedInv'
    BY DEF GuardTypes, GuardInv, RefusedInv, Guards, Parses
  <2> QED BY <2>1, <2>2, <2>3
<1>4. CASE NoClient(r) \/ ReadFails(r)
  <2> USE <1>4 DEF NoClient, ReadFails, Disturbed
  <2>1. GuardTypes' /\ ClientInv'
    BY DEF GuardTypes, ClientInv
  <2>2. ObserveInv'
    BY DEF GuardTypes, ObserveInv
  <2>3. GuardInv' /\ RefusedInv'
    BY DEF GuardTypes, GuardInv, RefusedInv, Guards, Parses
  <2> QED BY <2>1, <2>2, <2>3
<1>5. CASE ReadMarker(r)
  <2> USE <1>5 DEF ReadMarker
  <2>1. GuardTypes' /\ ClientInv' /\ ObserveInv'
    BY DEF GuardTypes, ClientInv, ObserveInv
  <2>2. GuardInv'
    BY DEF GuardTypes, ObserveInv, GuardInv, Guards
  <2>3. RefusedInv'
    BY DEF GuardTypes, ObserveInv, RefusedInv, Parses
  <2> QED BY <2>1, <2>2, <2>3
<1>6. CASE ReadSession(r)
  <2> USE <1>6 DEF ReadSession
  <2>1. GuardTypes' /\ ClientInv' /\ ObserveInv'
    BY DEF GuardTypes, ClientInv, ObserveInv
  <2>2. GuardInv'
    BY DEF GuardTypes, ObserveInv, GuardInv, Guards
  <2>3. RefusedInv'
    BY DEF GuardTypes, ObserveInv, RefusedInv, Parses
  <2> QED BY <2>1, <2>2, <2>3
<1> QED BY <1>1, <1>2, <1>3, <1>4, <1>5, <1>6

(* The auth service.                                                       *)
LEMMA WriteInv ==
  ASSUME GuardIInv,
         \/ \E t \in Tokens : Login(t) \/ Revoke(t) \/ Issue(t) \/ Expire(t)
         \/ \E s \in Sessions \cup {Broken} : Rewrite(s)
  PROVE  GuardIInv'
<1>1. /\ Write
      /\ markers' \subseteq Tokens /\ tickets' \subseteq Tokens /\ session' \in Stored
      /\ expired \subseteq expired'
  BY DEF Login, Revoke, Issue, Expire, Rewrite, GuardIInv, GuardTypes, Stored
<1> USE <1>1 DEF Write, GuardIInv, guard, Underway
<1>2. GuardTypes' /\ ClientInv'
  BY DEF GuardTypes, ClientInv
<1>3. ObserveInv'
  BY DEF GuardTypes, ObserveInv
<1>4. GuardInv'
  BY DEF GuardTypes, GuardInv, Guards, Ends
<1>5. RefusedInv'
  BY DEF GuardTypes, RefusedInv, Parses, Ends
<1> QED BY <1>2, <1>3, <1>4, <1>5

(* The invariant holds in every reachable state.                           *)
THEOREM GuardInductive == GuardSpec => []GuardIInv
<1>1. GuardInit => GuardIInv
  BY GuardInitInv
<1>2. GuardIInv /\ UNCHANGED rvars => GuardIInv'
  BY DEF GuardIInv, GuardTypes, ClientInv, ObserveInv, GuardInv, RefusedInv, rvars, guard, redis,
         history, Underway, Guards, Parses
<1>3. GuardIInv /\ [GuardNext]_rvars => GuardIInv'
  BY <1>2, BeforeInv, RouteInv, WriteInv DEF GuardNext
<1> QED BY <1>1, <1>3, PTL DEF GuardSpec

-----------------------------------------------------------------------------
(* A request that gets past the guard had a live token since it began and  *)
(* holds exactly the roles of a session stored since it began, and a       *)
(* request is turned away only for a reason, for any number of revocations *)
(* and rewritten sessions between the reads.                               *)
THEOREM GuardFresh == GuardSpec => []GuardDecidesFresh
<1>1. GuardIInv => GuardDecidesFresh
  BY DEF GuardIInv, ClientInv, GuardInv, RefusedInv, GuardDecidesFresh, OneClient, HasRole, RoleIds
<1> QED BY GuardInductive, <1>1, PTL

-----------------------------------------------------------------------------
(* The store.                                                              *)

StoreSpec == StoreInit /\ [][StoreNext]_ovars

Uploading == {"EnsureBucket", "MakeBucket", "IsFileExist", "PutObject"}
Reading == {"GetObject", "Copy"}

Steps == {"idle", "RemoveObject", "StatObject", "DownloadStat", "OpenFile"} \cup Uploading \cup Reading

StoreTypes ==
  /\ object \in [Contents -> Names \cup {None}]
  /\ named \in [Contents -> SUBSET Names]
  /\ at \in [Callers -> Steps]
  /\ order \in [Callers -> Orders]
  /\ rest \in [Callers -> Seq(Contents)]
  /\ info \in [Callers -> Names \cup {None}]
  /\ removed \in [Callers -> SUBSET Contents]
  /\ disk = [p \in Callers |-> disk[p]]
  /\ reply = [p \in Callers |-> reply[p]]

(* An object has the name it was stored with last.                         *)
NamedInv == \A c \in Contents : object[c] # None => object[c] \in named[c]

(* Which call a step belongs to, and which of its objects it has left.     *)
Ids(p) == order[p].ids
Done(p) == Len(Ids(p)) - Len(rest[p])

ControlInv(p) ==
  /\ at[p] \in Uploading => order[p].op = "upload"
  /\ at[p] = "RemoveObject" => order[p].op = "delete"
  /\ at[p] = "StatObject" => order[p].op = "stream"
  /\ at[p] \in Reading => order[p].op \in {"stream", "download", "zip"}
  /\ at[p] = "DownloadStat" => order[p].op \in {"download", "zip"}
  /\ at[p] = "OpenFile" => order[p].op = "zip"

RestInv(p) ==
  at[p] # "idle" =>
    /\ Len(rest[p]) \in 1 .. Len(Ids(p))
    /\ \A i \in 1 .. Len(rest[p]) : rest[p][i] = Ids(p)[Done(p) + i]
    /\ order[p].op # "zip" => Len(rest[p]) = Len(Ids(p))

(* The i-th object is in a file, or was written over by one of the first n. *)
Archived(p, i, n, files) ==
  \/ \E f \in named[Ids(p)[i]] \cap DOMAIN files : files[f] = Ids(p)[i]
  \/ \E j \in i + 1 .. n : named[Ids(p)[i]] \cap named[Ids(p)[j]] # {}

DiskInv(p) ==
  /\ at[p] # "idle" =>
       \A i \in 1 .. Done(p) : Archived(p, i, Done(p), disk[p])
  /\ at[p] = "OpenFile" => info[p] \in named[Id(p)]

AnswerInv(p) ==
  /\ Answered(p, "upload") =>
       reply[p].id = Ids(p)[1] /\ (object[Ids(p)[1]] # None \/ Ids(p)[1] \in removed[p])
  /\ Answered(p, "download") => reply[p].body = Ids(p)[1] /\ reply[p].name \in named[Ids(p)[1]]
  /\ Answered(p, "stream") => reply[p].body \in {Ids(p)[1], "cut"}
  /\ Answered(p, "zip") =>
       \A i \in DOMAIN Ids(p) : Archived(p, i, Len(Ids(p)), reply[p].files)

CallInv(p) == ControlInv(p) /\ RestInv(p) /\ DiskInv(p) /\ AnswerInv(p)

StoreIInv == StoreTypes /\ NamedInv /\ \A p \in Callers : CallInv(p)

-----------------------------------------------------------------------------
LEMMA OrderTypes ==
  ASSUME StoreTypes, NEW p \in Callers
  PROVE  /\ order[p] \in Orders /\ order[p].op \in Ops
         /\ Ids(p) \in Seq(Contents) /\ Len(Ids(p)) \in Nat \ {0} /\ Ids(p)[1] \in Contents
         /\ \A i \in 1 .. Len(Ids(p)) : Ids(p)[i] \in Contents
         /\ order[p].op = "upload" => order[p].name \in Names
BY StoreAssumption DEF StoreTypes, Ids

(* A call that is under way is at an object, and only an archive is not at *)
(* its first.                                                              *)
LEMMA AtObject ==
  ASSUME StoreIInv, NEW p \in Callers, at[p] # "idle"
  PROVE  /\ Id(p) \in Contents /\ Id(p) = rest[p][1]
         /\ Done(p) \in Nat /\ Done(p) < Len(Ids(p))
         /\ Id(p) = Ids(p)[Done(p) + 1]
         /\ order[p].op # "zip" => Id(p) = Ids(p)[1]
<1>1. rest[p] \in Seq(Contents) /\ Len(rest[p]) \in Nat \ {0}
  BY OrderTypes DEF StoreIInv, StoreTypes, CallInv, RestInv
<1>2. Id(p) = rest[p][1] /\ Id(p) \in Contents
  BY <1>1 DEF Id
<1>3. Done(p) \in Nat /\ Done(p) < Len(Ids(p)) /\ (order[p].op # "zip" => Done(p) = 0)
  <2>1. Len(rest[p]) \in 1 .. Len(Ids(p)) /\ (order[p].op # "zip" => Len(rest[p]) = Len(Ids(p)))
    BY DEF StoreIInv, CallInv, RestInv
  <2>2. Len(Ids(p)) \in Nat
    BY OrderTypes DEF StoreIInv
  <2> QED BY <2>1, <2>2 DEF Done
<1>4. Id(p) = Ids(p)[Done(p) + 1]
  BY <1>1, <1>2 DEF StoreIInv, CallInv, RestInv
<1> QED BY <1>1, <1>2, <1>3, <1>4

LEMMA StoreInitInv == StoreInit => StoreIInv
<1> SUFFICES ASSUME StoreInit PROVE StoreIInv
  OBVIOUS
<1>1. order \in [Callers -> Orders]
  BY StoreAssumption DEF StoreInit
<1>2. StoreTypes /\ NamedInv
  BY <1>1 DEF StoreInit, StoreTypes, NamedInv, Steps
<1>3. ASSUME NEW p \in Callers PROVE CallInv(p)
  BY DEF StoreInit, CallInv, ControlInv, RestInv, DiskInv, AnswerInv, Answered, NoReply,
         Uploading, Reading
<1> QED BY <1>2, <1>3 DEF StoreIInv

-----------------------------------------------------------------------------
(* What a step of another caller may do to the store: names are added, and *)
(* an object that goes is recorded as removed.                             *)
Disturbs(q) ==
  /\ \A c \in Contents : named[c] \subseteq named'[c]
  /\ \A c \in Contents : object[c] # None => object'[c] # None \/ c \in removed'[q]
  /\ removed[q] \subseteq removed'[q]

Same(q) ==
  /\ at'[q] = at[q] /\ order'[q] = order[q] /\ rest'[q] = rest[q]
  /\ info'[q] = info[q] /\ disk'[q] = disk[q] /\ reply'[q] = reply[q]

(* A call stands the steps of others.                                      *)
LEMMA OthersKeep ==
  ASSUME StoreIInv, NEW q \in Callers, Same(q), Disturbs(q)
  PROVE  CallInv(q)'
<1> USE DEF Same
<1>1. ControlInv(q)' /\ RestInv(q)'
  BY DEF StoreIInv, CallInv, ControlInv, RestInv, Ids, Done
<1>2. DiskInv(q)'
  <2>1. ASSUME at[q] # "idle", NEW i \in 1 .. Done(q)
        PROVE  Archived(q, i, Done(q), disk[q])'
    <3>1. Archived(q, i, Done(q), disk[q])
      BY <2>1 DEF StoreIInv, CallInv, DiskInv
    <3>2. Done(q) \in Nat /\ Done(q) < Len(Ids(q))
      BY <2>1, AtObject
    <3>3. \A j \in 1 .. Done(q) : Ids(q)[j] \in Contents
      BY <3>2, OrderTypes DEF StoreIInv
    <3>4. Done(q)' = Done(q)
      BY DEF Done, Ids
    <3>5. Ids(q)[i] \in Contents /\ \A j \in i + 1 .. Done(q) : Ids(q)[j] \in Contents
      BY <3>2, <3>3
    <3> QED BY <3>1, <3>4, <3>5 DEF Archived, Ids, Disturbs
  <2>2. at[q] = "OpenFile" => info'[q] \in named'[Id(q)']
    BY AtObject DEF StoreIInv, CallInv, DiskInv, Disturbs, Id
  <2>3. Done(q)' = Done(q)
    BY DEF Done, Ids
  <2> QED BY <2>1, <2>2, <2>3 DEF DiskInv
<1>3. AnswerInv(q)'
  <2>1. ASSUME Answered(q, "zip"), NEW i \in DOMAIN Ids(q)
        PROVE  Archived(q, i, Len(Ids(q)), reply[q].files)'
    <3>1. Archived(q, i, Len(Ids(q)), reply[q].files)
      BY <2>1 DEF StoreIInv, CallInv, AnswerInv
    <3>2. Ids(q)[i] \in Contents /\ \A j \in i + 1 .. Len(Ids(q)) : Ids(q)[j] \in Contents
      BY OrderTypes DEF StoreIInv
    <3> QED BY <3>1, <3>2 DEF Archived, Ids, Disturbs
  <2>2. Ids(q)' = Ids(q)
    BY DEF Ids
  <2>3. \A op : Answered(q, op)' <=> Answered(q, op)
    BY DEF Answered
  <2>4. Ids(q)[1] \in Contents
    BY OrderTypes DEF StoreIInv
  <2> QED BY <2>1, <2>2, <2>3, <2>4 DEF StoreIInv, CallInv, AnswerInv, Disturbs
<1> QED BY <1>1, <1>2, <1>3 DEF CallInv

(* When the call of p moves and leaves the rest of the store and of the    *)
(* others alone, the invariant is that of p's call.                        *)
LEMMA OwnStep ==
  ASSUME StoreIInv, StoreTypes', NEW p \in Callers,
         UNCHANGED <<object, named, removed>>,
         \A q \in Callers \ {p} : Same(q),
         CallInv(p)'
  PROVE  StoreIInv'
<1>1. NamedInv'
  BY DEF StoreIInv, NamedInv
<1>2. ASSUME NEW q \in Callers, q # p PROVE CallInv(q)'
  BY <1>2, OthersKeep DEF Disturbs
<1> QED BY <1>1, <1>2 DEF StoreIInv

(* A new call.                                                             *)
LEMMA CallKeeps ==
  ASSUME StoreIInv, NEW p \in Callers, NEW o \in Orders, Call(p, o)
  PROVE  StoreIInv'
<1> USE DEF Call, Goes, store
<1>1. /\ o.op \in Ops /\ o.ids \in Seq(Contents) /\ Len(o.ids) \in Nat \ {0}
  BY StoreAssumption
<1>2. /\ o.op = "upload" => First(o.op) = "EnsureBucket"
      /\ o.op = "delete" => First(o.op) = "RemoveObject"
      /\ o.op = "stream" => First(o.op) = "StatObject"
      /\ o.op \in {"download", "zip"} => First(o.op) = "GetObject"
  BY DEF First
<1>3. First(o.op) \in Steps \ {"idle", "OpenFile"}
  BY <1>1, <1>2 DEF Ops, Steps, Uploading, Reading
<1>4. StoreTypes'
  BY <1>1, <1>3 DEF StoreIInv, StoreTypes
<1>5. NamedInv'
  BY DEF StoreIInv, NamedInv
<1>6. /\ at'[p] = First(o.op) /\ order'[p] = o /\ rest'[p] = o.ids
      /\ reply'[p] = NoReply
  BY DEF StoreIInv, StoreTypes
<1>7. CallInv(p)'
  <2>1. ControlInv(p)'
    BY <1>1, <1>2, <1>6 DEF ControlInv, Uploading, Reading, Ops
  <2>2. RestInv(p)' /\ Done(p)' = 0
    <3>1. Ids(p)' = o.ids /\ rest'[p] = o.ids
      BY <1>6 DEF Ids
    <3>2. Done(p)' = 0
      BY <1>1, <3>1 DEF Done
    <3> QED BY <1>1, <3>1, <3>2 DEF RestInv
  <2>3. DiskInv(p)'
    BY <1>3, <1>6, <2>2 DEF DiskInv
  <2>4. AnswerInv(p)'
    BY <1>3, <1>6 DEF AnswerInv, Answered
  <2> QED BY <2>1, <2>2, <2>3, <2>4 DEF CallInv
<1>8. ASSUME NEW q \in Callers, q # p PROVE CallInv(q)'
  <2>1. Same(q) /\ removed'[q] = removed[q]
    BY <1>8 DEF StoreIInv, StoreTypes, Same
  <2> QED BY <2>1, OthersKeep DEF Disturbs
<1> QED BY <1>4, <1>5, <1>7, <1>8 DEF StoreIInv

(* A call that fails, wherever it is.                                      *)
LEMMA FailedCall ==
  ASSUME NEW p \in Callers, at'[p] = "idle", reply'[p].result # "ok"
  PROVE  CallInv(p)'
BY DEF CallInv, ControlInv, RestInv, DiskInv, AnswerInv, Answered, Uploading, Reading

LEMMA AnswersWith ==
  ASSUME StoreTypes, NEW p \in Callers, NEW r, Answers(p, r)
  PROVE  /\ at'[p] = "idle" /\ reply'[p] = r
         /\ at' \in [Callers -> Steps] /\ reply' = [q \in Callers |-> reply'[q]]
         /\ \A q \in Callers \ {p} : at'[q] = at[q] /\ reply'[q] = reply[q]
BY DEF StoreTypes, Answers, Goes, Steps

LEMMA FailsAnswers ==
  ASSUME StoreTypes, NEW p \in Callers, Fails(p)
  PROVE  /\ at'[p] = "idle" /\ reply'[p].result # "ok"
         /\ at' \in [Callers -> Steps] /\ reply' = [q \in Callers |-> reply'[q]]
         /\ \A q \in Callers \ {p} : at'[q] = at[q] /\ reply'[q] = reply[q]
BY AnswersWith DEF Fails, NoReply

LEMMA GoesOn ==
  ASSUME StoreTypes, NEW p \in Callers, NEW to \in Steps, Goes(p, to)
  PROVE  /\ at'[p] = to /\ at' \in [Callers -> Steps]
         /\ \A q \in Callers \ {p} : at'[q] = at[q]
BY DEF StoreTypes, Goes

(* A call that goes on with the same object.                               *)
LEMMA MovedCall ==
  ASSUME StoreIInv, NEW p \in Callers, at[p] # "idle",
         at'[p] \in Steps \ {"idle", "OpenFile", "RemoveObject", "StatObject"},
         at'[p] \in Uploading => order[p].op = "upload",
         at'[p] \in Reading => order[p].op \in {"stream", "download", "zip"},
         at'[p] = "DownloadStat" => order[p].op \in {"download", "zip"},
         UNCHANGED <<order, rest, disk, named>>
  PROVE  CallInv(p)'
<1>1. ControlInv(p)' /\ AnswerInv(p)'
  BY DEF ControlInv, AnswerInv, Answered
<1>2. RestInv(p)'
  BY DEF StoreIInv, CallInv, RestInv, Ids, Done
<1>3. DiskInv(p)'
  <2>1. ASSUME NEW i \in 1 .. Done(p) PROVE Archived(p, i, Done(p), disk[p])'
    <3>1. Archived(p, i, Done(p), disk[p])
      BY DEF StoreIInv, CallInv, DiskInv
    <3> QED BY <3>1 DEF Archived, Ids, Done
  <2>2. Done(p)' = Done(p)
    BY DEF Done, Ids
  <2> QED BY <2>1, <2>2 DEF DiskInv
<1> QED BY <1>1, <1>2, <1>3 DEF CallInv

-----------------------------------------------------------------------------
(* Steps that fail a call, or move it on.                                  *)
LEMMA CallFailsInv ==
  ASSUME StoreIInv, NEW p \in Callers, CallFails(p)
  PROVE  StoreIInv'
<1> USE DEF CallFails, store, call
<1>1. StoreTypes' /\ \A q \in Callers \ {p} : Same(q)
  BY FailsAnswers DEF StoreIInv, StoreTypes, Same
<1>2. CallInv(p)'
  BY FailsAnswers, FailedCall DEF StoreIInv
<1> QED BY <1>1, <1>2, OwnStep

LEMMA BucketInv ==
  ASSUME StoreIInv, NEW p \in Callers, EnsureBucket(p) \/ MakeBucket(p)
  PROVE  StoreIInv'
<1> USE DEF EnsureBucket, MakeBucket, call
<1>1. UNCHANGED <<object, named, order, removed, rest, info, disk>> /\ at[p] \in Uploading
  BY DEF Uploading
<1>2. order[p].op = "upload" /\ at[p] # "idle"
  BY <1>1 DEF StoreIInv, CallInv, ControlInv, Uploading
<1>3. CASE Fails(p)
  <2>1. StoreTypes' /\ \A q \in Callers \ {p} : Same(q)
    BY <1>1, <1>3, FailsAnswers DEF StoreIInv, StoreTypes, Same
  <2>2. CallInv(p)'
    BY <1>3, FailsAnswers, FailedCall DEF StoreIInv
  <2> QED BY <1>1, <2>1, <2>2, OwnStep
<1>4. CASE ~Fails(p)
  <2>1. PICK to \in {"IsFileExist", "MakeBucket"} : Goes(p, to) /\ UNCHANGED reply
    BY <1>4
  <2>2. to \in Steps
    BY DEF Steps, Uploading
  <2>3. StoreTypes' /\ \A q \in Callers \ {p} : Same(q)
    BY <1>1, <2>1, <2>2, GoesOn DEF StoreIInv, StoreTypes, Same
  <2>4. at'[p] = to
    BY <2>1, <2>2, GoesOn DEF StoreIInv
  <2>5. CallInv(p)'
    BY <1>1, <1>2, <2>2, <2>4, MovedCall DEF Uploading, Reading
  <2> QED BY <1>1, <2>3, <2>5, OwnStep
<1> QED BY <1>3, <1>4

-----------------------------------------------------------------------------
(* Uploads: an answered upload has found or stored its object.             *)

(* Any step that leaves the store alone, and either fails its call, moves  *)
(* it on or answers it.                                                    *)
LEMMA QuietStep ==
  ASSUME StoreIInv, NEW p \in Callers, NEW r, NEW to \in Steps,
         Answers(p, r) \/ (Goes(p, to) /\ UNCHANGED reply),
         CallInv(p)',
         UNCHANGED <<object, named, order, removed, rest, info, disk>>
  PROVE  StoreIInv'
<1>1. StoreTypes' /\ \A q \in Callers \ {p} : Same(q)
  BY AnswersWith, GoesOn DEF StoreIInv, StoreTypes, Same
<1> QED BY <1>1, OwnStep

LEMMA UploadedCall ==
  ASSUME StoreIInv, NEW p \in Callers, at[p] \in Uploading, Uploaded(p),
         object'[Id(p)] # None \/ Id(p) \in removed'[p],
         order'[p] = order[p]
  PROVE  CallInv(p)'
<1>1. at'[p] = "idle" /\ reply'[p] = [NoReply EXCEPT !.result = "ok", !.id = Id(p)]
  BY AnswersWith DEF Uploaded, StoreIInv
<1>2. order[p].op = "upload" /\ at[p] # "idle"
  BY DEF StoreIInv, CallInv, ControlInv, Uploading
<1>3. Id(p) = Ids(p)[1]
  BY <1>2, AtObject
<1>4. AnswerInv(p)'
  BY <1>1, <1>2, <1>3 DEF AnswerInv, Answered, Ids, NoReply
<1>5. ControlInv(p)' /\ RestInv(p)' /\ DiskInv(p)'
  BY <1>1 DEF ControlInv, RestInv, DiskInv, Uploading, Reading
<1> QED BY <1>4, <1>5 DEF CallInv

LEMMA IsFileExistInv ==
  ASSUME StoreIInv, NEW p \in Callers, IsFileExist(p)
  PROVE  StoreIInv'
<1> USE DEF IsFileExist, store, call
<1>1. order[p].op = "upload" /\ at[p] # "idle" /\ at[p] \in Uploading
  BY DEF StoreIInv, CallInv, ControlInv, Uploading
<1>2. CASE Uploaded(p) /\ There(p)
  <2>1. CallInv(p)'
    BY <1>1, <1>2, UploadedCall DEF There
  <2>2. "idle" \in Steps
    BY DEF Steps
  <2> QED BY <1>2, <2>1, <2>2, QuietStep DEF Uploaded
<1>3. CASE Goes(p, "PutObject") /\ UNCHANGED reply
  <2>1. "PutObject" \in Steps
    BY DEF Steps, Uploading
  <2>2. at'[p] = "PutObject"
    BY <1>3, <2>1, GoesOn DEF StoreIInv
  <2>3. CallInv(p)'
    BY <1>1, <2>1, <2>2, MovedCall DEF Reading
  <2> QED BY <1>3, <2>1, <2>3, QuietStep
<1> QED BY <1>2, <1>3

(* The object is stored under a name that its content then was stored with. *)
LEMMA StoredObject ==
  ASSUME StoreIInv, NEW p \in Callers, at[p] = "PutObject", Stores(p),
         UNCHANGED removed
  PROVE  /\ object' \in [Contents -> Names \cup {None}]
         /\ named' \in [Contents -> SUBSET Names]
         /\ NamedInv' /\ object'[Id(p)] # None
         /\ \A q \in Callers : Disturbs(q)
<1>1. Id(p) \in Contents /\ order[p].name \in Names /\ order[p].name # None
  BY AtObject, OrderTypes, StoreAssumption DEF StoreIInv, CallInv, ControlInv, Uploading
<1> QED BY <1>1 DEF Stores, StoreIInv, StoreTypes, NamedInv, Disturbs

LEMMA PutInv ==
  ASSUME StoreIInv, NEW p \in Callers, PutObject(p) \/ PutUnheard(p)
  PROVE  StoreIInv'
<1> USE DEF PutObject, PutUnheard, call
<1>1. /\ at[p] = "PutObject" /\ Stores(p)
      /\ UNCHANGED <<order, removed, rest, info, disk>>
  OBVIOUS
<1>2. PICK r : Answers(p, r)
  BY DEF Uploaded, Fails
<1>3. StoreTypes' /\ \A q \in Callers \ {p} : Same(q)
  BY <1>1, <1>2, StoredObject, AnswersWith DEF StoreIInv, StoreTypes, Same
<1>4. CallInv(p)'
  <2>1. CASE Uploaded(p)
    BY <1>1, <2>1, StoredObject, UploadedCall DEF Uploading
  <2>2. CASE Fails(p)
    BY <2>2, FailsAnswers, FailedCall DEF StoreIInv
  <2> QED BY <2>1, <2>2
<1>5. ASSUME NEW q \in Callers, q # p PROVE CallInv(q)'
  BY <1>1, <1>3, <1>5, StoredObject, OthersKeep
<1> QED BY <1>1, <1>3, <1>4, <1>5, StoredObject DEF StoreIInv

-----------------------------------------------------------------------------
(* A removal, which every call under way takes note of.                    *)
LEMMA RemoveInv ==
  ASSUME StoreIInv, NEW p \in Callers, RemoveObject(p)
  PROVE  StoreIInv'
<1> USE DEF RemoveObject
<1>1. Id(p) \in Contents /\ order[p].op = "delete"
  BY AtObject DEF StoreIInv, CallInv, ControlInv
<1>2. PICK r : Answers(p, r)
  OBVIOUS
<1>3. StoreTypes' /\ \A q \in Callers \ {p} : Same(q)
  BY <1>1, <1>2, AnswersWith DEF StoreIInv, StoreTypes, Same
<1>4. NamedInv' /\ \A q \in Callers : Disturbs(q)
  BY <1>1 DEF StoreIInv, StoreTypes, NamedInv, Disturbs
<1>5. CallInv(p)'
  <2>1. at'[p] = "idle"
    BY <1>2, AnswersWith DEF StoreIInv
  <2> QED BY <1>1, <2>1 DEF CallInv, ControlInv, RestInv, DiskInv, AnswerInv, Answered,
             Uploading, Reading
<1>6. ASSUME NEW q \in Callers, q # p PROVE CallInv(q)'
  BY <1>3, <1>4, <1>6, OthersKeep
<1> QED BY <1>3, <1>4, <1>5, <1>6 DEF StoreIInv

-----------------------------------------------------------------------------
(* Downloads and streams.                                                  *)
LEMMA StreamedCall ==
  ASSUME StoreIInv, NEW p \in Callers, at[p] # "idle", order[p].op = "stream",
         NEW body \in {Id(p), "cut"}, Streamed(p, body), order'[p] = order[p]
  PROVE  CallInv(p)'
<1>1. at'[p] = "idle" /\ reply'[p] = [NoReply EXCEPT !.result = "ok", !.body = body]
  BY AnswersWith DEF Streamed, StoreIInv
<1>2. Id(p) = Ids(p)[1]
  BY AtObject
<1>3. AnswerInv(p)'
  BY <1>1, <1>2 DEF AnswerInv, Answered, Ids, NoReply
<1> QED BY <1>1, <1>3 DEF CallInv, ControlInv, RestInv, DiskInv, Uploading, Reading

LEMMA ReadInv ==
  ASSUME StoreIInv, NEW p \in Callers,
         StatObject(p) \/ GetObject(p) \/ Copy(p) \/ CopyFails(p)
  PROVE  StoreIInv'
<1> USE DEF StatObject, GetObject, Copy, CopyFails, store, call
<1>1. /\ UNCHANGED <<object, named, order, removed, rest, info, disk>>
      /\ at[p] \in {"StatObject"} \cup Reading /\ at[p] # "idle"
  BY DEF Reading
<1>2. "idle" \in Steps /\ Reading \subseteq Steps /\ "DownloadStat" \in Steps
  BY DEF Steps
<1>3. order[p].op \in {"stream", "download", "zip"}
  BY <1>1 DEF StoreIInv, CallInv, ControlInv
<1>4. CASE Fails(p)
  <2>1. CallInv(p)'
    BY <1>4, FailsAnswers, FailedCall DEF StoreIInv
  <2> QED BY <1>1, <1>2, <1>4, <2>1, QuietStep DEF Fails
<1>5. CASE \E to \in Reading : Goes(p, to) /\ UNCHANGED reply
  <2>1. PICK to \in Reading : Goes(p, to) /\ UNCHANGED reply
    BY <1>5
  <2>2. at'[p] = to
    BY <1>2, <2>1, GoesOn DEF StoreIInv
  <2>3. CallInv(p)'
    BY <1>1, <1>2, <1>3, <2>2, MovedCall DEF Reading, Uploading
  <2> QED BY <1>1, <1>2, <2>1, <2>3, QuietStep
<1>6. CASE Goes(p, "DownloadStat") /\ UNCHANGED reply /\ order[p].op # "stream"
  <2>1. at'[p] = "DownloadStat"
    BY <1>2, <1>6, GoesOn DEF StoreIInv
  <2>2. CallInv(p)'
    BY <1>1, <1>2, <1>3, <1>6, <2>1, MovedCall DEF Reading, Uploading
  <2> QED BY <1>1, <1>2, <1>6, <2>2, QuietStep
<1>7. CASE order[p].op = "stream" /\ \E body \in {Id(p), "cut"} : Streamed(p, body)
  <2>1. PICK body \in {Id(p), "cut"} : Streamed(p, body)
    BY <1>7
  <2>2. CallInv(p)'
    BY <1>1, <1>7, <2>1, StreamedCall
  <2> QED BY <1>1, <1>2, <2>1, <2>2, QuietStep DEF Streamed
<1> QED BY <1>4, <1>5, <1>6, <1>7 DEF Reading

(* The name is one of the object's, because it was there.                  *)
LEMMA DownloadStatInv ==
  ASSUME StoreIInv, NEW p \in Callers, DownloadStat(p)
  PROVE  StoreIInv'
<1> USE DEF DownloadStat, store, call
<1>1. /\ Id(p) \in Contents /\ Done(p) \in Nat
      /\ order[p].op \in {"download", "zip"}
      /\ order[p].op = "download" => Id(p) = Ids(p)[1]
  BY AtObject DEF StoreIInv, CallInv, ControlInv
<1>2. info' \in [Callers -> Names \cup {None}] /\ info'[p] = object[Id(p)]
  BY <1>1 DEF StoreIInv, StoreTypes
<1>3. There(p) => object[Id(p)] \in named[Id(p)]
  BY <1>1 DEF There, StoreIInv, NamedInv
<1>4. (\E r : Answers(p, r)) \/ (Goes(p, "OpenFile") /\ UNCHANGED reply)
  BY DEF Fails
<1>5. "OpenFile" \in Steps
  BY DEF Steps
<1>6. StoreTypes' /\ \A q \in Callers \ {p} : Same(q)
  BY <1>2, <1>4, <1>5, AnswersWith, GoesOn DEF StoreIInv, StoreTypes, Same
<1>7. CASE ~There(p)
  <2>1. CallInv(p)'
    BY <1>7, FailsAnswers, FailedCall DEF StoreIInv
  <2> QED BY <1>6, <2>1, OwnStep
<1>8. CASE There(p) /\ order[p].op = "zip"
  <2>1. at'[p] = "OpenFile"
    BY <1>5, <1>8, GoesOn DEF StoreIInv
  <2>2. ControlInv(p)' /\ AnswerInv(p)'
    BY <1>8, <2>1 DEF ControlInv, AnswerInv, Answered, Uploading, Reading
  <2>3. RestInv(p)'
    BY DEF StoreIInv, CallInv, RestInv, Ids, Done
  <2>4. DiskInv(p)'
    <3>1. ASSUME NEW i \in 1 .. Done(p) PROVE Archived(p, i, Done(p), disk[p])'
      <4>1. Archived(p, i, Done(p), disk[p])
        BY DEF StoreIInv, CallInv, DiskInv
      <4> QED BY <4>1 DEF Archived, Ids, Done
    <3>2. Done(p)' = Done(p) /\ Id(p)' = Id(p)
      BY DEF Done, Ids, Id
    <3>3. info'[p] \in named'[Id(p)']
      BY <1>2, <1>3, <1>8, <3>2
    <3> QED BY <3>1, <3>2, <3>3 DEF DiskInv
  <2> QED BY <1>6, <2>2, <2>3, <2>4, OwnStep DEF CallInv
<1>9. CASE There(p) /\ order[p].op # "zip"
  <2>1. /\ at'[p] = "idle"
        /\ reply'[p] = [NoReply EXCEPT !.result = "ok", !.name = object[Id(p)], !.body = Id(p)]
    BY <1>9, AnswersWith DEF StoreIInv
  <2>2. AnswerInv(p)'
    BY <1>1, <1>3, <1>9, <2>1 DEF AnswerInv, Answered, Ids, NoReply
  <2> QED BY <1>6, <2>1, <2>2, OwnStep
          DEF CallInv, ControlInv, RestInv, DiskInv, Uploading, Reading
<1> QED BY <1>7, <1>8, <1>9

-----------------------------------------------------------------------------
(* Archives.  A file that is written over is one of an object that was     *)
(* stored under the name of the one that is written now.                   *)
Written(p) ==
  [n \in DOMAIN disk[p] \cup {info[p]} |-> IF n = info[p] THEN Id(p) ELSE disk[p][n]]

LEMMA WrittenArchives ==
  ASSUME StoreIInv, NEW p \in Callers, at[p] = "OpenFile",
         NEW i \in 1 .. Done(p) + 1
  PROVE  Archived(p, i, Done(p) + 1, Written(p))
<1>1. /\ Done(p) \in Nat /\ Id(p) = Ids(p)[Done(p) + 1]
      /\ info[p] \in named[Id(p)]
  BY AtObject DEF StoreIInv, CallInv, DiskInv
<1>2. info[p] \in DOMAIN Written(p) /\ Written(p)[info[p]] = Id(p)
  BY DEF Written
<1>3. CASE i = Done(p) + 1
  BY <1>1, <1>2, <1>3 DEF Archived
<1>4. CASE i # Done(p) + 1
  <2>1. i \in 1 .. Done(p) /\ Done(p) + 1 \in i + 1 .. Done(p) + 1
    BY <1>1, <1>4
  <2>2. Archived(p, i, Done(p), disk[p])
    BY <2>1 DEF StoreIInv, CallInv, DiskInv
  <2>3. ASSUME NEW f \in named[Ids(p)[i]] \cap DOMAIN disk[p], disk[p][f] = Ids(p)[i]
        PROVE  Archived(p, i, Done(p) + 1, Written(p))
    <3>1. CASE f = info[p]
      BY <1>1, <2>1, <2>3, <3>1 DEF Archived
    <3>2. CASE f # info[p]
      <4>1. f \in DOMAIN Written(p) /\ Written(p)[f] = disk[p][f]
        BY <3>2 DEF Written
      <4> QED BY <2>3, <4>1 DEF Archived
    <3> QED BY <3>1, <3>2
  <2>4. ASSUME NEW j \in i + 1 .. Done(p), named[Ids(p)[i]] \cap named[Ids(p)[j]] # {}
        PROVE  Archived(p, i, Done(p) + 1, Written(p))
    <3>1. j \in i + 1 .. Done(p) + 1
      BY <1>1, <2>1
    <3> QED BY <2>4, <3>1 DEF Archived
  <2> QED BY <2>2, <2>3, <2>4 DEF Archived
<1> QED BY <1>3, <1>4

LEMMA OpenFileInv ==
  ASSUME StoreIInv, NEW p \in Callers, OpenFile(p)
  PROVE  StoreIInv'
<1> USE DEF OpenFile, store, call
<1>1. /\ at[p] = "OpenFile" /\ order[p].op = "zip"
      /\ rest[p] \in Seq(Contents) /\ Len(rest[p]) \in Nat \ {0}
      /\ Done(p) \in Nat /\ Len(Ids(p)) \in Nat
      /\ Len(rest[p]) = Len(Ids(p)) - Done(p)
  <2>1. at[p] = "OpenFile" /\ order[p].op = "zip"
    BY DEF StoreIInv, CallInv, ControlInv
  <2>2. rest[p] \in Seq(Contents) /\ Len(rest[p]) \in 1 .. Len(Ids(p))
    BY <2>1 DEF StoreIInv, StoreTypes, CallInv, RestInv
  <2>3. Len(Ids(p)) \in Nat /\ Done(p) \in Nat
    BY <2>1, OrderTypes, AtObject DEF StoreIInv
  <2> QED BY <2>1, <2>2, <2>3 DEF Done
<1>2. /\ rest' \in [Callers -> Seq(Contents)] /\ rest'[p] = Tail(rest[p])
      /\ Len(rest'[p]) = Len(rest[p]) - 1
      /\ \A i \in 1 .. Len(rest[p]) - 1 : rest'[p][i] = rest[p][i + 1]
  BY <1>1, HeadTailProperties DEF StoreIInv, StoreTypes
<1>3. Ids(p)' = Ids(p) /\ Done(p)' = Done(p) + 1
  BY <1>1, <1>2 DEF Ids, Done
<1>4. (\E r : Answers(p, r)) \/ (Goes(p, "GetObject") /\ UNCHANGED reply)
  BY DEF Fails
<1>5. "GetObject" \in Steps
  BY DEF Steps, Reading
<1>6. StoreTypes' /\ \A q \in Callers \ {p} : Same(q)
  BY <1>2, <1>4, <1>5, AnswersWith, GoesOn DEF StoreIInv, StoreTypes, Same
<1>7. CASE info[p] = Unusable
  <2>1. CallInv(p)'
    BY <1>7, FailsAnswers, FailedCall DEF StoreIInv
  <2> QED BY <1>6, <2>1, OwnStep
<1>8. CASE info[p] # Unusable
  <2>1. disk'[p] = Written(p)
    BY <1>8 DEF StoreIInv, StoreTypes, Written
  <2>2. ASSUME NEW i \in 1 .. Done(p)'
        PROVE  Archived(p, i, Done(p), disk[p])'
    <3>1. i \in 1 .. Done(p) + 1
      BY <1>3
    <3>2. Archived(p, i, Done(p) + 1, Written(p))
      BY <1>1, <3>1, WrittenArchives
    <3>3. UNCHANGED <<named, order>>
      OBVIOUS
    <3> QED BY <1>3, <2>1, <3>2, <3>3 DEF Archived
  <2>3. CASE Len(rest[p]) > 1
    <3>1. at'[p] = "GetObject"
      BY <1>5, <1>8, <2>3, GoesOn DEF StoreIInv
    <3>2. ControlInv(p)' /\ AnswerInv(p)'
      BY <1>1, <3>1 DEF ControlInv, AnswerInv, Answered, Uploading, Reading
    <3>3. RestInv(p)'
      <4>1. Len(rest'[p]) \in 1 .. Len(Ids(p))
        BY <1>1, <1>2, <2>3
      <4>2. ASSUME NEW i \in 1 .. Len(rest'[p])
            PROVE  rest'[p][i] = Ids(p)[Done(p) + 1 + i]
        <5>1. i + 1 \in 1 .. Len(rest[p]) /\ rest'[p][i] = rest[p][i + 1]
          BY <1>1, <1>2, <4>2
        <5>2. rest[p][i + 1] = Ids(p)[Done(p) + (i + 1)]
          BY <1>1, <5>1 DEF StoreIInv, CallInv, RestInv
        <5>3. Done(p) + (i + 1) = Done(p) + 1 + i
          BY <1>1, <4>1
        <5> QED BY <5>1, <5>2, <5>3
      <4> QED BY <1>1, <1>3, <4>1, <4>2 DEF RestInv
    <3>4. DiskInv(p)'
      BY <2>2, <3>1 DEF DiskInv
    <3> QED BY <1>6, <3>2, <3>3, <3>4, OwnStep DEF CallInv
  <2>4. CASE ~(Len(rest[p]) > 1)
    <3>1. /\ at'[p] = "idle"
          /\ reply'[p] = [NoReply EXCEPT !.result = "ok", !.files = disk'[p]]
      BY <1>8, <2>4, AnswersWith DEF StoreIInv
    <3>2. reply'[p].files = disk'[p] /\ order'[p] = order[p]
      BY <3>1 DEF NoReply
    <3>3. Len(Ids(p)) = Done(p)' /\ DOMAIN Ids(p) = 1 .. Len(Ids(p))
      BY <1>1, <1>3, <2>4, OrderTypes DEF StoreIInv
    <3>4. AnswerInv(p)'
      <4>1. ASSUME NEW i \in DOMAIN Ids(p)'
            PROVE  Archived(p, i, Len(Ids(p)), reply[p].files)'
        <5>1. Archived(p, i, Done(p), disk[p])'
          BY <1>3, <2>2, <3>3, <4>1
        <5> QED BY <1>3, <3>2, <3>3, <5>1 DEF Archived
      <4>2. order'[p].op = "zip"
        BY <1>1, <3>2
      <4> QED BY <4>1, <4>2 DEF AnswerInv, Answered
    <3> QED BY <1>6, <3>1, <3>4, OwnStep
            DEF CallInv, ControlInv, RestInv, DiskInv, Uploading, Reading
  <2> QED BY <2>3, <2>4
<1> QED BY <1>7, <1>8

-----------------------------------------------------------------------------
(* The invariant holds in every reachable state.                           *)
THEOREM StoreInductive == StoreSpec => []StoreIInv
<1>1. StoreInit => StoreIInv
  BY StoreInitInv
<1>2. StoreIInv /\ UNCHANGED ovars => StoreIInv'
  <2> SUFFICES ASSUME StoreIInv, UNCHANGED ovars PROVE StoreIInv'
    OBVIOUS
  <2>1. StoreTypes' /\ NamedInv'
    BY DEF StoreIInv, StoreTypes, NamedInv, ovars
  <2>2. ASSUME NEW p \in Callers PROVE CallInv(p)'
    BY OthersKeep DEF ovars, Same, Disturbs
  <2> QED BY <2>1, <2>2 DEF StoreIInv
<1>3. StoreIInv /\ [StoreNext]_ovars => StoreIInv'
  BY <1>2, CallKeeps, CallFailsInv, BucketInv, IsFileExistInv, PutInv, RemoveInv, ReadInv,
     DownloadStatInv, OpenFileInv DEF StoreNext
<1> QED BY <1>1, <1>3, PTL DEF StoreSpec

(* What uploads, downloads, streams and archives answer is true, whatever  *)
(* other callers upload and remove meanwhile and whichever calls of the    *)
(* backend fail, for archives of any length.                               *)
THEOREM AnswersTrue == StoreSpec => []StoreAnswersTrue
<1>1. (\A p \in Callers : AnswerInv(p)) => StoreAnswersTrue
  BY DEF AnswerInv, StoreAnswersTrue, Archived, Ids
<1>2. StoreIInv => StoreAnswersTrue
  BY <1>1 DEF StoreIInv, CallInv
<1> QED BY StoreInductive, <1>2, PTL
=============================================================================
