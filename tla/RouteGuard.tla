------------------------------ MODULE RouteGuard ------------------------------
(***************************************************************************)
(* The middleware of a service (src/middleware, src/models/auth): the      *)
(* handlers RegisterService installs, in their order, for requests that    *)
(* are served concurrently while the auth service, which is another        *)
(* process, logs users in, revokes tokens and rewrites sessions in Redis.  *)
(*                                                                         *)
(* A token is of the one user of the model and carries the id of its       *)
(* liveness marker; a session is its list of role ids, "" for an entry     *)
(* without an id.                                                          *)
(***************************************************************************)
EXTENDS Naturals, Sequences, SequencesExt, FiniteSets

CONSTANTS
  Requests,       \* requests
  Sends,          \* what a request may send: route, token and portal
  Tokens,         \* well-formed tokens; any other token does not parse
  Sessions,       \* role lists the auth service writes
  OptionLists,    \* the options a service may be registered with
  MaxWrites       \* bound: writes of the auth service, and expiries

VARIABLES
  m,              \* the middleware's options
  wsClient,       \* has a websocket service its own Redis client?
  client,         \* guardRedisClient: 0, or the number of the connection
  mutex,          \* who holds guardRedisMu
  markers,        \* Redis: tokens with a liveness marker
  session,        \* Redis: the session data, or a value that is no session
  expired,        \* tokens past their expiry
  tickets,        \* Redis: tokens that can be had with a websocket credential
  where,          \* of each request, the next handler or its end
  sent,           \* what it sends
  roles,          \* the set of role ids in its context
  live, stored, steady,  \* history: see Observe
  writes, dials   \* writes so far, and connections made for the guard

redis == <<markers, session, tickets>>
guard == <<client, mutex, dials>>
history == <<live, stored, steady>>
rvars == <<m, wsClient, guard, redis, expired, where, sent, roles, history, writes>>

Nobody == "none"
Broken == <<"no session">>    \* absent, or not the JSON of a session

(* What requests send are records of a route, a token and whether they     *)
(* name a portal, and no request is called Nobody.                      *)
Send == [route : {s.route : s \in Sends}, token : {s.token : s \in Sends} \cup Tokens,
         portal : BOOLEAN]

ASSUME ServiceAssumption ==
  /\ Sends # {} /\ Sends \subseteq Send
  /\ Nobody \notin Requests

Ends == {"new", "handled", "404", "401", "500"}

-----------------------------------------------------------------------------
(* RegisterService applies the options in their order; a later one that    *)
(* names routes takes WithoutGuards back.                                  *)
Apply(o, opt) ==
  CASE opt = "WithoutGuards" -> [o EXCEPT !.disableGuards = TRUE]
    [] opt = "WithPublicRoute" -> [o EXCEPT !.disableGuards = FALSE, !.publicPath = {"login"}]
    [] opt = "WithBuiltinRoute" -> [o EXCEPT !.disableGuards = FALSE]
    [] opt = "WithNoRefRoute" -> [o EXCEPT !.noRefPath = {"hook"}]
    [] opt = "WithWebsocket" -> [o EXCEPT !.isWebsocket = TRUE]

RegisterService(options) ==
  FoldLeft(Apply, [disableGuards |-> FALSE, isWebsocket |-> FALSE,
                   publicPath |-> {}, noRefPath |-> {}], options)

GuardInit ==
  /\ m \in {RegisterService(o) : o \in OptionLists}
  /\ wsClient \in IF m.isWebsocket THEN BOOLEAN ELSE {FALSE}
  /\ client = 0 /\ mutex = Nobody /\ dials = 0
  /\ \/ markers = {} /\ session = Broken
     \/ markers = Tokens /\ session \in Sessions
  /\ expired = {} /\ tickets = {}
  /\ where = [r \in Requests |-> "new"]
  /\ sent = [r \in Requests |-> CHOOSE s \in Sends : TRUE]
  /\ roles = [r \in Requests |-> {}]
  /\ live = [r \in Requests |-> FALSE]
  /\ stored = [r \in Requests |-> {}]
  /\ steady = [r \in Requests |-> FALSE]
  /\ writes = 0

-----------------------------------------------------------------------------
Underway(r) == where[r] \notin Ends

(* What a request could have seen from its beginning on: its marker, the   *)
(* sessions, and whether all has stayed as it was.                         *)
Observe(r) ==
  /\ live' = [live EXCEPT ![r] = sent'[r].token \in markers]
  /\ stored' = [stored EXCEPT ![r] = {session}]
  /\ steady' = [steady EXCEPT ![r] = TRUE]

Moves(r, to) == where' = [where EXCEPT ![r] = to]

(* Redis answers a read with an error.                                     *)
Disturbed(r) == steady' = [steady EXCEPT ![r] = FALSE]

Arrive(r) ==
  /\ where[r] = "new"
  /\ sent' \in {[sent EXCEPT ![r] = s] : s \in Sends}
  /\ Moves(r, "HandleNotfound")
  /\ Observe(r)
  /\ UNCHANGED <<m, wsClient, guard, redis, expired, roles, writes>>

HandleNotfound(r) ==
  /\ where[r] = "HandleNotfound"
  /\ Moves(r, IF sent[r].route = "unknown" THEN "404"
              ELSE IF m.isWebsocket THEN "SetWsCredential" ELSE "SetMetadata")
  /\ UNCHANGED <<m, wsClient, guard, redis, expired, sent, roles, history, writes>>

(* The token is what Redis has for the credential, whatever was sent; a    *)
(* service whose client could not be connected panics.                     *)
SetWsCredential(r) ==
  /\ where[r] = "SetWsCredential"
  /\ IF wsClient
     THEN \E t \in tickets :
            /\ sent' = [sent EXCEPT ![r].token = t, ![r].portal = TRUE]
            /\ live' = [live EXCEPT ![r] = t \in markers]
            /\ Moves(r, "SetMetadata")
     ELSE Moves(r, "500") /\ UNCHANGED <<sent, live>>
  /\ UNCHANGED <<m, wsClient, guard, redis, expired, roles, stored, steady, writes>>

(* The credential is not a UUID, or Redis has nothing for it.              *)
WsCredentialFails(r) ==
  /\ where[r] = "SetWsCredential" /\ wsClient
  /\ Moves(r, "500") /\ Disturbed(r)
  /\ UNCHANGED <<m, wsClient, guard, redis, expired, sent, roles, live, stored, writes>>

SetMetadata(r) ==
  /\ where[r] = "SetMetadata"
  /\ roles' = [roles EXCEPT ![r] = {}]
  /\ Moves(r, IF ~sent[r].portal /\ sent[r].route \notin m.noRefPath THEN "500"
              ELSE IF m.disableGuards THEN "handled" ELSE "GuardRoute")
  /\ UNCHANGED <<m, wsClient, guard, redis, expired, sent, history, writes>>

-----------------------------------------------------------------------------
(* ParseToken.                                                             *)
Parses(token) == token \in Tokens \ expired

GuardRoute(r) ==
  /\ where[r] = "GuardRoute"
  /\ Moves(r, IF sent[r].route \in m.publicPath THEN "handled"
              ELSE IF Parses(sent[r].token) THEN "client" ELSE "401")
  /\ UNCHANGED <<m, wsClient, guard, redis, expired, sent, roles, history, writes>>

(* guardSessionRedis holds the mutex while it connects.                    *)
LockClient(r) ==
  /\ where[r] = "client" /\ mutex = Nobody
  /\ mutex' = r
  /\ UNCHANGED <<m, wsClient, client, dials, redis, expired, where, sent, roles, history,
                 writes>>

HaveClient(r) ==
  /\ where[r] = "client" /\ mutex = r
  /\ IF client = 0 THEN client' = dials + 1 /\ dials' = dials + 1
     ELSE UNCHANGED <<client, dials>>
  /\ mutex' = Nobody
  /\ Moves(r, "ReadMarker")
  /\ UNCHANGED <<m, wsClient, redis, expired, sent, roles, history, writes>>

(* Mutant of NoClient: the guard lets requests pass when it has no Redis.  *)
NoClientOpen(r) ==
  /\ where[r] = "client" /\ mutex = r /\ client = 0
  /\ mutex' = Nobody
  /\ Moves(r, "handled") /\ Disturbed(r)
  /\ UNCHANGED <<m, wsClient, client, dials, redis, expired, sent, roles, live, stored, writes>>

NoClient(r) ==
  /\ where[r] = "client" /\ mutex = r /\ client = 0
  /\ mutex' = Nobody
  /\ Moves(r, "401") /\ Disturbed(r)
  /\ UNCHANGED <<m, wsClient, client, dials, redis, expired, sent, roles, live, stored, writes>>

ReadMarker(r) ==
  /\ where[r] = "ReadMarker"
  /\ Moves(r, IF sent[r].token \in markers THEN "ReadSession" ELSE "401")
  /\ UNCHANGED <<m, wsClient, guard, redis, expired, sent, roles, history, writes>>

(* SessionEnvelope.RoleIds, whose order nobody asks for.                   *)
RoleIds(s) == ToSet(s) \ {""}

(* A second read: the session may have been rewritten since the first.     *)
ReadSession(r) ==
  /\ where[r] = "ReadSession"
  /\ IF session = Broken THEN Moves(r, "401") /\ UNCHANGED roles
     ELSE Moves(r, "handled") /\ roles' = [roles EXCEPT ![r] = RoleIds(session)]
  /\ UNCHANGED <<m, wsClient, guard, redis, expired, sent, history, writes>>

ReadFails(r) ==
  /\ where[r] \in {"ReadMarker", "ReadSession"}
  /\ Moves(r, "401") /\ Disturbed(r)
  /\ UNCHANGED <<m, wsClient, guard, redis, expired, sent, roles, live, stored, writes>>

(* HasRole, as a handler asks it.                                          *)
HasRole(r, id) == id # "" /\ id \in roles[r]

-----------------------------------------------------------------------------
(* The auth service and the clocks.                                        *)
Write ==
  /\ writes < MaxWrites /\ writes' = writes + 1
  /\ live' = [r \in Requests |-> live[r] \/ (Underway(r) /\ sent[r].token \in markers')]
  /\ stored' = [r \in Requests |-> IF Underway(r) THEN stored[r] \cup {session'} ELSE stored[r]]
  /\ steady' = [r \in Requests |-> steady[r] /\ ~Underway(r)]
  /\ UNCHANGED <<m, wsClient, guard, where, sent, roles>>

Login(t) ==
  markers' = markers \cup {t} /\ UNCHANGED <<session, expired, tickets>> /\ Write

Revoke(t) ==
  /\ t \in markers
  /\ markers' = markers \ {t} /\ UNCHANGED <<session, expired, tickets>> /\ Write

Rewrite(s) ==
  /\ s # session
  /\ session' = s /\ UNCHANGED <<markers, expired, tickets>> /\ Write

Issue(t) ==
  /\ m.isWebsocket /\ t \notin tickets
  /\ tickets' = tickets \cup {t} /\ UNCHANGED <<markers, session, expired>> /\ Write

Expire(t) ==
  /\ t \notin expired
  /\ expired' = expired \cup {t} /\ UNCHANGED <<markers, session, tickets>> /\ Write

GuardNext ==
  \/ \E r \in Requests :
       \/ Arrive(r) \/ HandleNotfound(r) \/ SetWsCredential(r) \/ WsCredentialFails(r)
       \/ SetMetadata(r) \/ GuardRoute(r) \/ LockClient(r) \/ HaveClient(r) \/ NoClient(r)
       \/ ReadMarker(r) \/ ReadSession(r) \/ ReadFails(r)
  \/ \E t \in Tokens : Login(t) \/ Revoke(t) \/ Issue(t) \/ Expire(t)
  \/ \E s \in Sessions \cup {Broken} : Rewrite(s)

-----------------------------------------------------------------------------
Guards(r) == ~m.disableGuards /\ sent[r].route \notin m.publicPath

(* The guard connects to Redis once, whichever requests come first.        *)
OneClient == dials <= 1

(* Between the two reads of GuardRoute tokens are revoked and sessions     *)
(* rewritten.  A request that gets past it had its marker at some moment   *)
(* since it began, so that a revocation before that counts, and holds a    *)
(* role only if a session stored since it began grants it, so that an      *)
(* older session does not; one that passes unguarded holds none.  And a    *)
(* request is turned away only if something is wrong or has changed.       *)
(* The guard does all this with one client.                                *)
GuardDecidesFresh ==
  /\ OneClient
  /\ \A r \in Requests :
       /\ where[r] = "handled" /\ Guards(r) =>
            /\ live[r]
            /\ \E s \in stored[r] \ {Broken} :
                 \A id \in UNION {ToSet(x) : x \in Sessions} : HasRole(r, id) <=> id # "" /\ id \in ToSet(s)
       /\ where[r] = "handled" /\ ~Guards(r) => roles[r] = {}
       /\ where[r] = "401" /\ steady[r] =>
            \/ ~Parses(sent[r].token)
            \/ ~live[r] \/ stored[r] = {Broken}
=============================================================================
