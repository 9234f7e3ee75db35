---------------------------- MODULE GatewayRegistry ----------------------------
(***************************************************************************)
(* Service discovery: a gRPC server announces its config in a Redis hash   *)
(* and on a Redis channel before it serves (src/gateway/service/server.go, *)
(* src/gateway/controller/redis/registry.go); the gateway reads the hash,  *)
(* subscribes to the channel, and for each config it learns of a goroutine *)
(* shakes hands with the server, compares checksums and mounts the         *)
(* composite (src/gateway/controller/gateway.go,                           *)
(* src/gateway/service/client.go).                                         *)
(*                                                                         *)
(* A deployment of a service is a boot, numbered per service; a config is  *)
(* abstracted to its service's key and its boot, and Sum gives the         *)
(* checksum of the config each boot runs with.  All boots of a service     *)
(* listen on one address, and every config is written by a Server.         *)
(***************************************************************************)
EXTENDS Naturals, FiniteSets, Sequences

CONSTANTS
  Services,       \* the keys of the configs
  Http,           \* those whose TypeConn is "http"
  Boots,          \* bound: the boots of each service, from 1
  Sum,            \* the checksum of the config of each boot
  MaxTries,       \* "max" in NewComposite
  MaxOpens,       \* bound: starts of the gateway
  MaxFaults       \* bound: Redis and network errors, and lost connections

AnyBoot == DOMAIN Sum

ASSUME ConfigAssumption ==
  /\ Http \subseteq Services
  /\ \A b \in AnyBoot : b \in Nat \ {0} /\ Sum[b] # "none"
  /\ \A k \in Services : Boots[k] \in Nat /\ 1 .. Boots[k] \subseteq AnyBoot
  /\ MaxTries \in Nat /\ MaxOpens \in Nat \ {0} /\ MaxFaults \in Nat

VARIABLES
  server,         \* where Start is in each service's current boot
  boot,           \* the number of that boot, 0 before the first
  hash,           \* the Redis hash: the boot whose config was last written
  gateway,        \* where Open is
  opens,          \* how often Open was called
  channel,        \* does Redis relay the channel to the gateway?
  inbox,          \* messages between Redis and the goroutine of Open
  composers,      \* goroutines in NewComposite
  mounted,        \* the boot of the composite last given to Mount, 0 if none
  faults,
  served,         \* history: the boots of each service that have served
  excuse          \* history: why the current boot may stay unmounted

vars == <<server, boot, hash, gateway, opens, channel, inbox, composers,
          mounted, faults, served, excuse>>

service == <<server, boot, hash, served>>
watch == <<gateway, opens, channel>>

Config == [key : Services, boot : AnyBoot]

(* A goroutine of Open: the config, where it came from, the retries, the   *)
(* boot that took its handshake and has not answered, 0 if none has, and   *)
(* the checksum of the server that acknowledged.                           *)
Composer == [cfg : Config, from : {"Get", "Watch"}, i : 0 .. MaxTries,
             asks : AnyBoot \cup {0},
             ack : {Sum[b] : b \in AnyBoot} \cup {"none"}]

TypeOK ==
  /\ server \in [Services -> {"down", "write", "publish", "listen", "serve"}]
  /\ boot \in [Services -> AnyBoot \cup {0}]
  /\ hash \in [Services -> AnyBoot \cup {0}]
  /\ gateway \in {"down", "get", "watch", "open"}
  /\ opens \in 0 .. MaxOpens
  /\ channel \in {"none", "heard", "lost"}
  /\ \A n \in DOMAIN inbox : inbox[n] \in Config
  /\ composers \subseteq Composer
  /\ mounted \in [Services -> AnyBoot \cup {0}]
  /\ faults \in 0 .. MaxFaults
  /\ served \in [Services -> SUBSET AnyBoot]
  /\ excuse \in [Services -> SUBSET {"unheard", "http", "gaveup", "overtaken"}]

Init ==
  /\ server = [k \in Services |-> "down"]
  /\ boot = [k \in Services |-> 0]
  /\ hash = [k \in Services |-> 0]
  /\ gateway = "down"
  /\ opens = 0
  /\ channel = "none"
  /\ inbox = <<>>
  /\ composers = {}
  /\ mounted = [k \in Services |-> 0]
  /\ faults = 0
  /\ served = [k \in Services |-> {}]
  /\ excuse = [k \in Services |-> {}]

-----------------------------------------------------------------------------
At(k, from, to) == server[k] = from /\ server' = [server EXCEPT ![k] = to]

Fault == faults < MaxFaults /\ faults' = faults + 1

Current(k) == [key |-> k, boot |-> boot[k]]

Compose(cfg, from) ==
  [cfg |-> cfg, from |-> from, i |-> 0, asks |-> 0, ack |-> "none"]

(* The gateway has read the hash; it learns of later configs by the channel. *)
HasRead == gateway \in {"watch", "open"}

Excuse(k, why) == excuse' = [excuse EXCEPT ![k] = @ \cup why]

-----------------------------------------------------------------------------
(* A service: NewServer opens the listener; Start writes, publishes and    *)
(* serves.  An error of Redis, which may have done what was asked all the  *)
(* same, makes Start return, and what has been written stays in the hash:  *)
(* neither Start nor Stop removes it.  (An http service calls              *)
(* Server.Write, and its own HTTP server serves.)                          *)

NewServer(k) ==
  /\ At(k, "down", "write")
  /\ boot[k] < Boots[k]
  /\ boot' = [boot EXCEPT ![k] = @ + 1]
  /\ excuse' = [excuse EXCEPT ![k] = {}]
  /\ UNCHANGED <<hash, served, watch, inbox, composers, mounted, faults>>

(* Mutant of Write: HSETNX in place of HSET.                               *)
WriteOnce(k) ==
  /\ At(k, "write", "publish")
  /\ hash' = [hash EXCEPT ![k] = IF @ = 0 THEN boot[k] ELSE @]
  /\ Excuse(k, {why \in {"unheard", "http"} :
                  /\ HasRead
                  /\ IF why = "http" THEN k \in Http ELSE channel = "none"})
  /\ UNCHANGED <<boot, served, watch, inbox, composers, mounted, faults>>

Write(k) ==
  /\ At(k, "write", "publish")
  /\ hash' = [hash EXCEPT ![k] = boot[k]]
  /\ Excuse(k, {why \in {"unheard", "http"} :
                  /\ HasRead
                  /\ IF why = "http" THEN k \in Http ELSE channel = "none"})
  /\ UNCHANGED <<boot, served, watch, inbox, composers, mounted, faults>>

(* Redis delivers a message to those who are subscribed now.               *)
Publish(k) ==
  /\ At(k, "publish", "listen")
  /\ IF channel = "heard"
     THEN /\ inbox' = Append(inbox, Current(k))
          /\ excuse' = [excuse EXCEPT ![k] = @ \ {"unheard"}]
     ELSE /\ UNCHANGED inbox
          /\ Excuse(k, {why \in {"unheard"} : channel = "lost"})
  /\ UNCHANGED <<boot, hash, served, watch, composers, mounted, faults>>

Serve(k) ==
  /\ At(k, "listen", "serve")
  /\ served' = [served EXCEPT ![k] = @ \cup {boot[k]}]
  /\ UNCHANGED <<boot, hash, watch, inbox, composers, mounted, faults, excuse>>

StartFails(k) ==
  /\ Fault
  /\ server' = [server EXCEPT ![k] = "down"]
  /\ \/ /\ server[k] = "write"
        /\ hash' \in {hash, [hash EXCEPT ![k] = boot[k]]}
        /\ UNCHANGED inbox
     \/ /\ server[k] = "publish"
        /\ \/ UNCHANGED inbox
           \/ channel = "heard" /\ inbox' = Append(inbox, Current(k))
        /\ UNCHANGED hash
  /\ UNCHANGED <<boot, served, watch, composers, mounted, excuse>>

(* Stop, or a crash anywhere in Start.                                     *)
Stop(k) ==
  /\ server[k] # "down"
  /\ server' = [server EXCEPT ![k] = "down"]
  /\ UNCHANGED <<boot, hash, served, watch, inbox, composers, mounted, faults, excuse>>

-----------------------------------------------------------------------------
(* Gateway.Open: reg.Get, a goroutine for every config, then reg.Watch.    *)

Open ==
  /\ gateway = "down" /\ opens < MaxOpens
  /\ gateway' = "get"
  /\ opens' = opens + 1
  /\ UNCHANGED <<service, channel, inbox, composers, mounted, faults, excuse>>

Get ==
  /\ gateway = "get"
  /\ gateway' = "watch"
  /\ composers' = {Compose([key |-> k, boot |-> hash[k]], "Get") :
                     k \in {s \in Services : hash[s] # 0}}
  /\ excuse' = [k \in Services |-> {}]
  /\ UNCHANGED <<service, opens, channel, inbox, mounted, faults>>

(* Watch does not wait until Redis has processed PSUBSCRIBE.               *)
Watch ==
  /\ gateway = "watch"
  /\ gateway' = "open"
  /\ UNCHANGED <<service, opens, channel, inbox, composers, mounted, faults, excuse>>

(* The first time, and when go-redis has connected again.                  *)
Subscribe ==
  /\ gateway = "open" /\ channel # "heard"
  /\ channel' = "heard"
  /\ UNCHANGED <<service, gateway, opens, inbox, composers, mounted, faults, excuse>>

Disconnect ==
  /\ channel = "heard"
  /\ Fault
  /\ channel' = "lost"
  /\ UNCHANGED <<service, gateway, opens, inbox, composers, mounted, excuse>>

(* The two relays of Watch and the goroutine of Open, which starts another. *)
Receive ==
  /\ inbox # <<>>
  /\ composers' = composers \cup {Compose(Head(inbox), "Watch")}
  /\ inbox' = Tail(inbox)
  /\ UNCHANGED <<service, watch, mounted, faults, excuse>>

(* Get fails, or the gateway's process ends; it is started again.          *)
Close ==
  /\ gateway # "down" /\ opens < MaxOpens
  /\ gateway' = "down"
  /\ channel' = "none"
  /\ inbox' = <<>>
  /\ composers' = {}
  /\ mounted' = [k \in Services |-> 0]
  /\ UNCHANGED <<service, opens, faults, excuse>>

-----------------------------------------------------------------------------
(* NewComposite and what Open's goroutines do with its result.  The        *)
(* composite of an http config is built without a handshake.               *)

IsHttp(c) == c.cfg.key \in Http

(* The handshake of c lies with a server that is still there.  It has no   *)
(* deadline (context.Background()), so that nothing but the server or the  *)
(* end of their connection wakes the goroutine.                            *)
Waits(c) ==
  c.asks # 0 /\ server[c.cfg.key] = "serve" /\ boot[c.cfg.key] = c.asks

Handshake(c) ==
  LET k == c.cfg.key
  IN  /\ ~IsHttp(c) /\ c.ack = "none" /\ c.asks = 0
      /\ server[k] = "serve"
      /\ composers' = (composers \ {c}) \cup {[c EXCEPT !.ack = Sum[boot[k]]]}
      /\ UNCHANGED <<service, watch, inbox, mounted, faults, excuse>>

(* The server takes the call and does not answer.                          *)
Unanswered(c) ==
  LET k == c.cfg.key
  IN  /\ ~IsHttp(c) /\ c.ack = "none" /\ c.asks = 0
      /\ server[k] = "serve" /\ Fault
      /\ composers' = (composers \ {c}) \cup {[c EXCEPT !.asks = boot[k]]}
      /\ UNCHANGED <<service, watch, inbox, mounted, excuse>>

(* The call returns an error: no server is there or the one that took it   *)
(* has gone; or the network fails.                                         *)
Failed(c) ==
  /\ ~IsHttp(c) /\ c.ack = "none" /\ ~Waits(c)
  /\ IF c.asks = 0 /\ server[c.cfg.key] = "serve" THEN Fault ELSE UNCHANGED faults

Broken(c) == Waits(c) /\ Fault

(* Mutant of Retry: i <= max in place of i < max.                          *)
RetryOnceMore(c) ==
  /\ IF c.i <= MaxTries
     THEN /\ composers' = (composers \ {c}) \cup {[c EXCEPT !.i = @ + 1, !.asks = 0]}
          /\ UNCHANGED excuse
     ELSE /\ composers' = composers \ {c}
          /\ Excuse(c.cfg.key, {why \in {"gaveup"} : c.cfg.boot = boot[c.cfg.key]})
  /\ UNCHANGED <<service, watch, inbox, mounted>>

(* Mutant of Retry: the retries are not counted.                           *)
RetryUncounted(c) ==
  /\ composers' = (composers \ {c}) \cup {[c EXCEPT !.asks = 0]}
  /\ UNCHANGED <<service, watch, inbox, mounted, excuse>>

Retry(c) ==
  /\ IF c.i < MaxTries
     THEN /\ composers' = (composers \ {c}) \cup {[c EXCEPT !.i = @ + 1, !.asks = 0]}
          /\ UNCHANGED excuse
     ELSE /\ composers' = composers \ {c}
          /\ Excuse(c.cfg.key, {why \in {"gaveup"} : c.cfg.boot = boot[c.cfg.key]})
  /\ UNCHANGED <<service, watch, inbox, mounted>>

HandshakeFails(c) == Failed(c) /\ Retry(c)

HandshakeBreaks(c) == Broken(c) /\ Retry(c)

(* Mutant of Check: the checksum is not compared.                          *)
CheckNothing(c) == c.ack # "none"

Check(c) == c.ack = Sum[c.cfg.boot]

Mount(c) ==
  LET k == c.cfg.key
  IN  /\ IF IsHttp(c) THEN c.from = "Get" ELSE Check(c)
      /\ mounted' = [mounted EXCEPT ![k] = c.cfg.boot]
      /\ composers' = composers \ {c}
      /\ Excuse(k, {why \in {"overtaken"} : c.cfg.boot < mounted[k]})
      /\ UNCHANGED <<service, watch, inbox, faults>>

(* The checksum differs, or the config of an http service came by Watch.   *)
Drop(c) ==
  /\ IF IsHttp(c) THEN c.from = "Watch" ELSE c.ack # "none" /\ ~Check(c)
  /\ composers' = composers \ {c}
  /\ UNCHANGED <<service, watch, inbox, mounted, faults, excuse>>

-----------------------------------------------------------------------------
Start(k) == Write(k) \/ Publish(k) \/ Serve(k)

Composing(c) == Handshake(c) \/ HandshakeFails(c) \/ Mount(c) \/ Drop(c)

(* No boot is left in the bound, and the gateway waits for messages.       *)
Idle ==
  /\ \A k \in Services : server[k] = "down" /\ boot[k] = Boots[k]
  /\ gateway = "open" /\ inbox = <<>> /\ composers = {}
  /\ UNCHANGED vars

Next ==
  \/ \E k \in Services : NewServer(k) \/ Start(k) \/ StartFails(k) \/ Stop(k)
  \/ Open \/ Get \/ Watch \/ Subscribe \/ Disconnect \/ Receive \/ Close
  \/ \E c \in composers : Composing(c) \/ Unanswered(c) \/ HandshakeBreaks(c)
  \/ Idle

Spec == Init /\ [][Next]_vars

(* Goroutines and started calls go on, a gateway that stopped is started   *)
(* again and go-redis restores a subscription: as long as one of these is  *)
(* possible, one of them happens.  Nothing is assumed of services, nor that *)
(* a server answers or that the connection of a call in waiting breaks.    *)
Progress ==
  \/ Open \/ Get \/ Watch \/ Subscribe \/ Receive
  \/ \E k \in Services : Start(k)
  \/ \E c \in composers : Composing(c)

FairSpec == Spec /\ WF_vars(Progress)

-----------------------------------------------------------------------------
(* Only a gRPC config that a server really ran with is ever mounted,       *)
(* although a config stays in the hash when the Start that wrote it        *)
(* fails, services are replaced while goroutines shake hands with their    *)
(* address, and goroutines of one service end in any order.                *)
MountedWasServed ==
  \A k \in Services \ Http : mounted[k] # 0 =>
    \E b \in served[k] : Sum[b] = Sum[mounted[k]]

(* A service that keeps serving is mounted with its own config, for as     *)
(* long as it serves and in every run of the gateway, except in the cases  *)
(* the code leaves open: it was written and published between the          *)
(* gateway's read of the hash and its subscription, or published while the *)
(* subscription was lost; it is an http service announced after the read;  *)
(* all tries of its handshake failed; a slower goroutine mounted an older  *)
(* config over a newer one; it has taken the handshake and still does not  *)
(* answer.                                                                 *)
ServingIsMounted ==
  \A k \in Services :
    server[k] = "serve" ~>
      \/ server[k] # "serve" \/ excuse[k] # {}
      \/ mounted[k] # 0 /\ Sum[mounted[k]] = Sum[boot[k]]
      \/ \E c \in composers : c.cfg = Current(k) /\ Waits(c)

(* A goroutine of Open ends, however often services start and stop while   *)
(* it tries, unless the server that took its handshake stays up and does   *)
(* not answer: NewComposite sets no deadline, and waits with it.  When     *)
(* that server goes, the goroutine goes on with what is left of its tries. *)
ComposersEnd ==
  \A k \in Services :
    (\E c \in composers : c.cfg.key = k)
      ~> \A c \in composers : c.cfg.key = k => Waits(c)
=============================================================================
