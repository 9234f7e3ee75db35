------------------------ MODULE GatewayRegistryProofs ------------------------
(***************************************************************************)
(* Proofs about GatewayRegistry, for any services, boots, checksums and    *)
(* bounds: what the gateway mounts is a config that a server of the        *)
(* service ran with.                                                       *)
(*                                                                         *)
(* The argument follows a checksum: a server that answers a handshake has  *)
(* served its current boot (ServerInv), so that the checksum a goroutine   *)
(* holds is that of a boot that has served (AckInv), whatever has become   *)
(* of the server since; and Check mounts no config with another one.       *)
(***************************************************************************)
EXTENDS GatewayRegistry, SequenceTheorems, TLAPS

(* A service that is starting or serving has a boot within the bound, and  *)
(* has served it once it serves.                                           *)
ServerInv ==
  \A k \in Services :
    /\ boot[k] \in 0 .. Boots[k]
    /\ server[k] # "down" => boot[k] \in AnyBoot
    /\ server[k] = "serve" => boot[k] \in served[k]

(* What a goroutine was told by a handshake is the checksum of a boot of   *)
(* its service that has served.                                            *)
AckInv ==
  \A c \in composers :
    c.ack # "none" => \E b \in served[c.cfg.key] : Sum[b] = c.ack

IInv ==
  /\ TypeOK
  /\ inbox \in Seq(Config)
  /\ ServerInv /\ AckInv /\ MountedWasServed

-----------------------------------------------------------------------------
LEMMA InitInv == Init => IInv
<1> SUFFICES ASSUME Init PROVE IInv
  OBVIOUS
<1>1. TypeOK /\ inbox \in Seq(Config)
  BY ConfigAssumption DEF Init, TypeOK
<1>2. ServerInv /\ AckInv /\ MountedWasServed
  BY ConfigAssumption DEF Init, ServerInv, AckInv, MountedWasServed
<1> QED BY <1>1, <1>2 DEF IInv

(* The next boot of a service is one that has a config.                    *)
LEMMA NextBoot ==
  ASSUME IInv, NEW k \in Services, boot[k] < Boots[k]
  PROVE  boot[k] + 1 \in AnyBoot /\ boot[k] + 1 \in 0 .. Boots[k]
BY ConfigAssumption DEF IInv, ServerInv

LEMMA CurrentConfig ==
  ASSUME IInv, NEW k \in Services, server[k] # "down"
  PROVE  Current(k) \in Config
BY DEF IInv, ServerInv, Current, Config

LEMMA InboxElements ==
  ASSUME inbox' \in Seq(Config)
  PROVE  \A n \in DOMAIN inbox' : inbox'[n] \in Config
OBVIOUS

(* NewServer, Start, Stop and a crash.                                     *)
LEMMA ServiceInv ==
  ASSUME IInv, NEW k \in Services,
         NewServer(k) \/ Start(k) \/ StartFails(k) \/ Stop(k)
  PROVE  IInv'
<1> USE DEF IInv, At, Excuse, watch
<1>1. CASE NewServer(k)
  <2> USE <1>1 DEF NewServer
  <2>1. TypeOK' /\ inbox' \in Seq(Config)
    BY NextBoot DEF TypeOK
  <2>2. ServerInv'
    BY NextBoot DEF TypeOK, ServerInv
  <2>3. AckInv' /\ MountedWasServed'
    BY DEF AckInv, MountedWasServed
  <2> QED BY <2>1, <2>2, <2>3
<1>2. CASE Write(k)
  <2> USE <1>2 DEF Write
  <2>1. TypeOK' /\ inbox' \in Seq(Config)
    BY DEF TypeOK, ServerInv
  <2>2. ServerInv' /\ AckInv' /\ MountedWasServed'
    BY DEF TypeOK, ServerInv, AckInv, MountedWasServed
  <2> QED BY <2>1, <2>2
<1>3. CASE Publish(k)
  <2> USE <1>3 DEF Publish
  <2>1. inbox' \in Seq(Config)
    BY CurrentConfig, AppendProperties
  <2>2. TypeOK'
    BY <2>1 DEF TypeOK
  <2>3. ServerInv' /\ AckInv' /\ MountedWasServed'
    BY DEF TypeOK, ServerInv, AckInv, MountedWasServed
  <2> QED BY <2>1, <2>2, <2>3
<1>4. CASE Serve(k)
  <2> USE <1>4 DEF Serve
  <2>1. TypeOK' /\ inbox' \in Seq(Config)
    BY DEF TypeOK, ServerInv
  <2>2. ServerInv'
    BY DEF TypeOK, ServerInv
  <2>3. \A s \in Services : served[s] \subseteq served'[s]
    BY DEF TypeOK
  <2>4. AckInv'
    BY <2>3 DEF TypeOK, Composer, Config, AckInv
  <2>5. MountedWasServed'
    BY <2>3 DEF MountedWasServed
  <2> QED BY <2>1, <2>2, <2>4, <2>5
<1>5. CASE StartFails(k)
  <2> USE <1>5 DEF StartFails, Fault
  <2>1. inbox' \in Seq(Config)
    BY CurrentConfig, AppendProperties
  <2>2. hash' \in [Services -> AnyBoot \cup {0}]
    BY DEF TypeOK, ServerInv
  <2>3. faults' \in 0 .. MaxFaults
    BY ConfigAssumption DEF TypeOK
  <2>4. TypeOK'
    BY <2>1, <2>2, <2>3, InboxElements DEF TypeOK
  <2>5. ServerInv' /\ AckInv' /\ MountedWasServed'
    BY DEF TypeOK, ServerInv, AckInv, MountedWasServed
  <2> QED BY <2>1, <2>4, <2>5
<1>6. CASE Stop(k)
  <2> USE <1>6 DEF Stop
  <2>1. TypeOK' /\ inbox' \in Seq(Config)
    BY DEF TypeOK
  <2>2. ServerInv' /\ AckInv' /\ MountedWasServed'
    BY DEF TypeOK, ServerInv, AckInv, MountedWasServed
  <2> QED BY <2>1, <2>2
<1> QED BY <1>1, <1>2, <1>3, <1>4, <1>5, <1>6 DEF Start

-----------------------------------------------------------------------------
(* Gateway.Open and Redis.                                                 *)
LEMMA GatewayInv ==
  ASSUME IInv, Open \/ Get \/ Watch \/ Subscribe \/ Disconnect \/ Receive \/ Close
  PROVE  IInv'
<1> USE DEF IInv, service
<1>1. CASE Open \/ Watch \/ Subscribe \/ Disconnect
  <2> USE <1>1 DEF Open, Watch, Subscribe, Disconnect, Fault
  <2>1. TypeOK' /\ inbox' \in Seq(Config)
    BY ConfigAssumption DEF TypeOK
  <2>2. ServerInv' /\ AckInv' /\ MountedWasServed'
    BY DEF ServerInv, AckInv, MountedWasServed
  <2> QED BY <2>1, <2>2
<1>2. CASE Get
  <2> USE <1>2 DEF Get, Compose
  <2>1. composers' \subseteq Composer
    BY ConfigAssumption DEF TypeOK, Composer, Config
  <2>2. TypeOK' /\ inbox' \in Seq(Config)
    BY <2>1 DEF TypeOK
  <2>3. ServerInv' /\ AckInv' /\ MountedWasServed'
    BY DEF ServerInv, AckInv, MountedWasServed
  <2> QED BY <2>2, <2>3
<1>3. CASE Receive
  <2> USE <1>3 DEF Receive, Compose
  <2>1. Head(inbox) \in Config /\ inbox' \in Seq(Config)
    BY HeadTailProperties
  <2>2. composers' \subseteq Composer
    BY <2>1, ConfigAssumption DEF TypeOK, Composer
  <2>3. TypeOK'
    BY <2>1, <2>2 DEF TypeOK, watch
  <2>4. ServerInv' /\ AckInv' /\ MountedWasServed'
    BY DEF ServerInv, AckInv, MountedWasServed
  <2> QED BY <2>1, <2>3, <2>4
<1>4. CASE Close
  <2> USE <1>4 DEF Close
  <2>1. TypeOK' /\ inbox' \in Seq(Config)
    BY DEF TypeOK
  <2>2. ServerInv' /\ AckInv'
    BY DEF ServerInv, AckInv
  <2>3. MountedWasServed'
    BY DEF MountedWasServed
  <2> QED BY <2>1, <2>2, <2>3
<1> QED BY <1>1, <1>2, <1>3, <1>4

(* NewComposite and the mounting of its result.                            *)
LEMMA ComposingInv ==
  ASSUME IInv, NEW c \in composers,
         Composing(c) \/ Unanswered(c) \/ HandshakeBreaks(c)
  PROVE  IInv'
<1> DEFINE k == c.cfg.key
<1> USE DEF IInv, service, watch, Excuse
<1>1. c \in Composer /\ k \in Services /\ c.cfg.boot \in AnyBoot
  BY DEF TypeOK, Composer, Config
<1>2. CASE Handshake(c)
  <2> USE <1>2 DEF Handshake
  <2>1. boot[k] \in AnyBoot /\ boot[k] \in served[k]
    BY <1>1 DEF ServerInv
  <2>2. [c EXCEPT !.ack = Sum[boot[k]]] \in Composer
    BY <1>1, <2>1 DEF Composer
  <2>3. TypeOK' /\ inbox' \in Seq(Config)
    BY <2>2 DEF TypeOK
  <2>4. AckInv'
    <3>1. ASSUME NEW d \in composers'
          PROVE  d.ack # "none" => \E b \in served[d.cfg.key] : Sum[b] = d.ack
      <4>1. CASE d \in composers
        BY <4>1 DEF AckInv
      <4>2. CASE d = [c EXCEPT !.ack = Sum[boot[k]]]
        BY <1>1, <2>1, <4>2 DEF Composer
      <4> QED BY <3>1, <4>1, <4>2
    <3> QED BY <3>1 DEF AckInv
  <2>5. ServerInv' /\ MountedWasServed'
    BY DEF ServerInv, MountedWasServed
  <2> QED BY <2>3, <2>4, <2>5
<1>3. CASE HandshakeFails(c) \/ HandshakeBreaks(c)
  <2> USE <1>3 DEF HandshakeFails, HandshakeBreaks, Failed, Broken, Retry, Fault
  <2>1. composers' \subseteq Composer
    <3>1. CASE c.i < MaxTries
      <4>1. c.i + 1 \in 0 .. MaxTries /\ 0 \in AnyBoot \cup {0}
        BY <1>1, <3>1, ConfigAssumption DEF Composer
      <4>2. [c EXCEPT !.i = @ + 1] \in Composer
        BY <1>1, <4>1 DEF Composer
      <4>3. [[c EXCEPT !.i = @ + 1] EXCEPT !.asks = 0] \in Composer
        BY <4>1, <4>2 DEF Composer
      <4> QED BY <3>1, <4>3 DEF TypeOK
    <3>2. CASE ~(c.i < MaxTries)
      BY <3>2 DEF TypeOK
    <3> QED BY <3>1, <3>2
  <2>2. faults' \in 0 .. MaxFaults
    BY ConfigAssumption DEF TypeOK
  <2>3. excuse' \in [Services -> SUBSET {"unheard", "http", "gaveup", "overtaken"}]
    BY <1>1 DEF TypeOK
  <2>4. TypeOK' /\ inbox' \in Seq(Config)
    BY <2>1, <2>2, <2>3 DEF TypeOK
  <2>5. AckInv'
    <3>1. ASSUME NEW d \in composers'
          PROVE  d.ack # "none" => \E b \in served[d.cfg.key] : Sum[b] = d.ack
      <4>1. CASE d \in composers
        BY <4>1 DEF AckInv
      <4>2. CASE d \notin composers
        <5>1. d = [[c EXCEPT !.i = @ + 1] EXCEPT !.asks = 0]
          BY <3>1, <4>2
        <5>2. d.ack = c.ack /\ d.cfg = c.cfg
          BY <1>1, <5>1 DEF Composer
        <5> QED BY <5>2 DEF AckInv
      <4> QED BY <4>1, <4>2
    <3> QED BY <3>1 DEF AckInv
  <2>6. ServerInv' /\ MountedWasServed'
    BY DEF ServerInv, MountedWasServed
  <2> QED BY <2>4, <2>5, <2>6
<1>4. CASE Mount(c)
  <2> USE <1>4 DEF Mount
  <2>1. TypeOK' /\ inbox' \in Seq(Config)
    BY <1>1 DEF TypeOK
  <2>2. ServerInv' /\ AckInv'
    BY DEF ServerInv, AckInv
  <2>3. MountedWasServed'
    <3>1. k \notin Http => \E b \in served[k] : Sum[b] = Sum[c.cfg.boot]
      BY <1>1, ConfigAssumption DEF IsHttp, Check, AckInv
    <3> QED BY <1>1, <3>1 DEF TypeOK, MountedWasServed
  <2> QED BY <2>1, <2>2, <2>3
<1>5. CASE Drop(c)
  <2> USE <1>5 DEF Drop
  <2>1. TypeOK' /\ inbox' \in Seq(Config)
    BY DEF TypeOK
  <2>2. ServerInv' /\ AckInv' /\ MountedWasServed'
    BY DEF ServerInv, AckInv, MountedWasServed
  <2> QED BY <2>1, <2>2
<1>6. CASE Unanswered(c)
  <2> USE <1>6 DEF Unanswered, Fault
  <2>1. boot[k] \in AnyBoot
    BY <1>1 DEF ServerInv
  <2>2. [c EXCEPT !.asks = boot[k]] \in Composer
    BY <1>1, <2>1 DEF Composer
  <2>3. faults' \in 0 .. MaxFaults
    BY ConfigAssumption DEF TypeOK
  <2>4. TypeOK' /\ inbox' \in Seq(Config)
    BY <2>2, <2>3 DEF TypeOK
  <2>5. AckInv'
    BY <1>1 DEF AckInv, TypeOK, Composer
  <2>6. ServerInv' /\ MountedWasServed'
    BY DEF ServerInv, MountedWasServed
  <2> QED BY <2>4, <2>5, <2>6
<1> QED BY <1>2, <1>3, <1>4, <1>5, <1>6 DEF Composing

LEMMA StutterInv ==
  ASSUME IInv, Idle \/ UNCHANGED vars
  PROVE  IInv'
<1>1. UNCHANGED vars
  BY DEF Idle
<1> QED BY <1>1 DEF vars, IInv, TypeOK, ServerInv, AckInv, MountedWasServed

(* The invariant holds in every reachable state.                           *)
THEOREM Inductive == Spec => []IInv
<1>1. IInv /\ [Next]_vars => IInv'
  BY ServiceInv, GatewayInv, ComposingInv, StutterInv DEF Next
<1> QED BY InitInv, <1>1, PTL DEF Spec

-----------------------------------------------------------------------------
(* Every variable keeps its type: in particular every config in the hash,  *)
(* on the channel and with a goroutine is of a boot that was.              *)
THEOREM TypeCorrect == Spec => []TypeOK
<1>1. IInv => TypeOK
  BY DEF IInv
<1> QED BY Inductive, <1>1, PTL

(* Only a gRPC config that a server really ran with is ever mounted, for   *)
(* any number of boots, retries, starts of the gateway and faults.         *)
THEOREM MountedServed == Spec => []MountedWasServed
<1>1. IInv => MountedWasServed
  BY DEF IInv
<1> QED BY Inductive, <1>1, PTL
=============================================================================
