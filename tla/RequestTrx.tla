------------------------------ MODULE RequestTrx ------------------------------
(***************************************************************************)
(* Requests with a multi-database transaction: api.SetCtxAndTrx begins one *)
(* transaction on every database (NewSqlTransactionMultiDB, the eager      *)
(* driver of TrxBuilderMulti), the handler runs statements, and a response *)
(* helper ends the request: api.Success commits, api.Error rolls back,     *)
(* api.Transform just answers (src/api/api.go, src/api/context.go,         *)
(* src/db/trx.sqldriver.multi.go).                                         *)
(*                                                                         *)
(* Requests compete for the connections of the databases: every open       *)
(* transaction holds one of the PoolSize connections that                  *)
(* db.SetMaxOpenConns allows, and BeginTx waits for a free one until the   *)
(* request's context ends.  net/http ends that context when the client     *)
(* disconnects and when the handler returns; database/sql then rolls back  *)
(* what is still open.                                                     *)
(***************************************************************************)
EXTENDS Naturals, FiniteSets

CONSTANTS
  Requests,
  DBs,            \* the keys of TrxBuilderMulti's db map
  PoolSize        \* connections of each database

ASSUME PoolAssumption == PoolSize \in Nat \ {0} /\ IsFiniteSet(Requests)

VARIABLES
  pc,             \* where each request is
  driver,         \* what SetCtxAndTrx put under shared.TrxInstance
  todo,           \* what is left of the loop over the databases
  status,         \* the database/sql transaction of each request and database
  live,           \* is the request's context still live?
  resp,           \* the helper that answered
  wrote,          \* history: the databases on which a statement succeeded
  tried           \* history: has Commit been called?

vars == <<pc, driver, todo, status, live, resp, wrote, tried>>

(* database/sql: the requests that hold a connection of database k.        *)
Holders(k) == {r \in Requests : status[r][k] = "open"}

Types ==
  /\ pc \in [Requests -> {"begin", "handle", "commit", "rollback", "answered"}]
  /\ driver \in [Requests -> {"none", "ready", "nil"}]
  /\ todo \in [Requests -> SUBSET DBs]
  /\ status \in [Requests -> [DBs -> {"none", "open", "committed", "rolledback"}]]
  /\ live \in [Requests -> BOOLEAN]
  /\ resp \in [Requests -> {"none", "Success", "Error", "Transform", "panic"}]
  /\ wrote \in [Requests -> SUBSET DBs]
  /\ tried \in [Requests -> BOOLEAN]

(* No pool is overdrawn, however many requests begin at once.              *)
PoolsHold == \A k \in DBs : Cardinality(Holders(k)) <= PoolSize

TypeOK == Types /\ PoolsHold

Init ==
  /\ pc = [r \in Requests |-> "begin"]
  /\ driver = [r \in Requests |-> "none"]
  /\ todo = [r \in Requests |-> DBs]
  /\ status = [r \in Requests |-> [k \in DBs |-> "none"]]
  /\ live = [r \in Requests |-> TRUE]
  /\ resp = [r \in Requests |-> "none"]
  /\ wrote = [r \in Requests |-> {}]
  /\ tried = [r \in Requests |-> FALSE]

-----------------------------------------------------------------------------
Goto(r, label) == pc' = [pc EXCEPT ![r] = label]

At(r, from, to) == pc[r] = from /\ Goto(r, to)

Answer(r, from, how) ==
  /\ At(r, from, "answered")
  /\ resp' = [resp EXCEPT ![r] = how]

SetStatus(r, k, s) == status' = [status EXCEPT ![r][k] = s]

Pass(r, k) == k \in todo[r] /\ todo' = [todo EXCEPT ![r] = @ \ {k}]

(* database/sql: is there a connection left for BeginTx on database k?     *)
Free(k) == Cardinality(Holders(k)) < PoolSize

-----------------------------------------------------------------------------
(* NewSqlTransactionMultiDB: the loop over the map, in any order.  Its     *)
(* error return keeps the transactions begun so far: nobody can roll them  *)
(* back but database/sql, when the context ends.  SetCtxAndTrx only traces *)
(* the error and goes on with the nil driver.                              *)

(* Mutant of BeginOne: the pool has no limit.                              *)
BeginOneUnlimited(r, k) ==
  /\ At(r, "begin", "begin")
  /\ live[r]
  /\ Pass(r, k)
  /\ SetStatus(r, k, "open")
  /\ UNCHANGED <<driver, live, resp, wrote, tried>>

BeginOne(r, k) ==
  /\ At(r, "begin", "begin")
  /\ live[r]
  /\ Free(k)
  /\ Pass(r, k)
  /\ SetStatus(r, k, "open")
  /\ UNCHANGED <<driver, live, resp, wrote, tried>>

(* Mutant of BeginFails: BeginTx is tried again until it succeeds.         *)
BeginFailsRetries(r, k) ==
  /\ At(r, "begin", "begin")
  /\ k \in todo[r]
  /\ ~live[r] \/ Free(k)
  /\ UNCHANGED <<driver, todo, status, live, resp, wrote, tried>>

(* The context has ended, or the database answers with an error.           *)
BeginFails(r, k) ==
  /\ At(r, "begin", "handle")
  /\ k \in todo[r]
  /\ ~live[r] \/ Free(k)
  /\ driver' = [driver EXCEPT ![r] = "nil"]
  /\ todo' = [todo EXCEPT ![r] = {}]
  /\ UNCHANGED <<status, live, resp, wrote, tried>>

BeginDone(r) ==
  /\ At(r, "begin", "handle")
  /\ todo[r] = {}
  /\ driver' = [driver EXCEPT ![r] = "ready"]
  /\ UNCHANGED <<todo, status, live, resp, wrote, tried>>

-----------------------------------------------------------------------------
(* The handler: statements on the transaction of the database its context  *)
(* names.  A failed statement changes nothing here.  A statement on the    *)
(* nil driver dereferences it: that panic, like any other in the handler,  *)
(* is recovered outside, with no rollback.                                 *)

Exec(r, k) ==
  /\ At(r, "handle", "handle")
  /\ driver[r] = "ready"
  /\ status[r][k] = "open"
  /\ live[r]
  /\ wrote' = [wrote EXCEPT ![r] = @ \cup {k}]
  /\ UNCHANGED <<driver, todo, status, live, resp, tried>>

Panic(r) ==
  /\ Answer(r, "handle", "panic")
  /\ UNCHANGED <<driver, todo, status, live, wrote, tried>>

-----------------------------------------------------------------------------
(* api.Success: commits database after database, and answers 200.  With    *)
(* the nil driver, or at the first commit that fails, it calls api.Error.  *)

CallSuccess(r) ==
  /\ \/ /\ driver[r] = "ready"
        /\ At(r, "handle", "commit")
        /\ todo' = [todo EXCEPT ![r] = DBs]
        /\ tried' = [tried EXCEPT ![r] = TRUE]
     \/ /\ driver[r] = "nil"
        /\ At(r, "handle", "rollback")
        /\ UNCHANGED <<todo, tried>>
  /\ UNCHANGED <<driver, status, live, resp, wrote>>

CommitOne(r, k) ==
  /\ At(r, "commit", "commit")
  /\ live[r]
  /\ status[r][k] = "open"
  /\ Pass(r, k)
  /\ SetStatus(r, k, "committed")
  /\ UNCHANGED <<driver, live, resp, wrote, tried>>

(* Mutant of CommitFails: the error of a database is dropped, and the loop *)
(* goes on, as in Rollback.                                                *)
CommitFailsSilently(r, k) ==
  /\ At(r, "commit", "commit")
  /\ Pass(r, k)
  /\ UNCHANGED <<driver, status, live, resp, wrote, tried>>

(* The context has ended or the transaction with it: nothing changes.      *)
(* Otherwise the database failed, and the outcome on the server is unknown. *)
CommitFails(r, k) ==
  /\ At(r, "commit", "rollback")
  /\ k \in todo[r]
  /\ todo' = [todo EXCEPT ![r] = DBs]
  /\ IF live[r] /\ status[r][k] = "open"
     THEN \E s \in {"committed", "rolledback"} : SetStatus(r, k, s)
     ELSE UNCHANGED status
  /\ UNCHANGED <<driver, live, resp, wrote, tried>>

(* Mutant of CommitDone: the loop returns from its first pass.             *)
CommitDoneFirst(r) ==
  /\ todo[r] # DBs
  /\ Answer(r, "commit", "Success")
  /\ UNCHANGED <<driver, todo, status, live, wrote, tried>>

CommitDone(r) ==
  /\ todo[r] = {}
  /\ Answer(r, "commit", "Success")
  /\ UNCHANGED <<driver, todo, status, live, wrote, tried>>

-----------------------------------------------------------------------------
(* api.Error: rolls every database back, ignoring what Rollback says (the  *)
(* nil driver is skipped), and answers with an error.                      *)

(* Mutant of CallError: only Success settles the transaction.              *)
CallErrorOnly(r) ==
  /\ Answer(r, "handle", "Error")
  /\ UNCHANGED <<driver, todo, status, live, wrote, tried>>

CallError(r) ==
  /\ At(r, "handle", "rollback")
  /\ todo' = [todo EXCEPT ![r] = IF driver[r] = "ready" THEN DBs ELSE {}]
  /\ UNCHANGED <<driver, status, live, resp, wrote, tried>>

RollbackOne(r, k) ==
  /\ At(r, "rollback", "rollback")
  /\ Pass(r, k)
  /\ SetStatus(r, k, IF status[r][k] = "open" THEN "rolledback" ELSE status[r][k])
  /\ UNCHANGED <<driver, live, resp, wrote, tried>>

RollbackDone(r) ==
  /\ todo[r] = {}
  /\ Answer(r, "rollback", "Error")
  /\ UNCHANGED <<driver, todo, status, live, wrote, tried>>

(* api.Transform answers 200 with the transformed data.                    *)
Transform(r) ==
  /\ Answer(r, "handle", "Transform")
  /\ UNCHANGED <<driver, todo, status, live, wrote, tried>>

-----------------------------------------------------------------------------
(* net/http and database/sql.                                              *)

ContextEnds(r) ==
  /\ live[r]
  /\ live' = [live EXCEPT ![r] = FALSE]
  /\ UNCHANGED <<pc, driver, todo, status, resp, wrote, tried>>

(* Mutant of AwaitDone: the transactions are begun with a context of their *)
(* own, and the end of the request's goes by them.                         *)
AwaitDoneDetached(r, k) ==
  /\ live[r] /\ ~live[r]
  /\ status[r][k] = "open"
  /\ UNCHANGED vars

AwaitDone(r, k) ==
  /\ ~live[r]
  /\ status[r][k] = "open"
  /\ SetStatus(r, k, "rolledback")
  /\ UNCHANGED <<pc, driver, todo, live, resp, wrote, tried>>

Terminated ==
  /\ \A r \in Requests : pc[r] = "answered" /\ ~live[r]
  /\ UNCHANGED vars

Begin(r) == BeginDone(r) \/ \E k \in DBs : BeginOne(r, k) \/ BeginFails(r, k)

Settle(r) ==
  \/ CallSuccess(r) \/ CallError(r) \/ Transform(r) \/ Panic(r)
  \/ CommitDone(r) \/ RollbackDone(r)
  \/ \E k \in DBs : CommitOne(r, k) \/ CommitFails(r, k) \/ RollbackOne(r, k)

Next ==
  \/ \E r \in Requests : \/ Begin(r) \/ Settle(r) \/ ContextEnds(r)
                         \/ \E k \in DBs : Exec(r, k) \/ AwaitDone(r, k)
  \/ Terminated

Spec == Init /\ [][Next]_vars

(* Handlers end and call a helper, a client does not wait for ever, and    *)
(* net/http and database/sql do their part.                                *)
Fairness ==
  \A r \in Requests : /\ WF_vars(Begin(r)) /\ WF_vars(Settle(r))
                      /\ WF_vars(ContextEnds(r))
                      /\ \A k \in DBs : WF_vars(AwaitDone(r, k))

FairSpec == Spec /\ Fairness

-----------------------------------------------------------------------------
(* An answer of api.Success means that every database begun for the        *)
(* request is committed, although the client may disconnect between two    *)
(* commits and database/sql may roll back under the driver's feet.         *)
SuccessMeansDurable ==
  \A r \in Requests : resp[r] = "Success" =>
    \A k \in DBs : status[r][k] = "committed"

(* An error answer leaves nothing behind unless a commit was attempted: no *)
(* database committed and, with a driver to roll back, no transaction (and *)
(* no connection) still held when the answer goes out.                     *)
ErrorUndoes ==
  \A r \in Requests : resp[r] = "Error" =>
    /\ driver[r] = "ready" => \A k \in DBs : status[r][k] # "open"
    /\ ~tried[r] => \A k \in DBs : status[r][k] # "committed"

(* Every request is answered, even when several hold connections of one    *)
(* database while they wait for another's: the map is visited in a random  *)
(* order, so a cycle of waits can form, and only a context ends it.        *)
RequestsAnswered == \A r \in Requests : <>(pc[r] = "answered")

(* No transaction outlives its request for ever, including those of a      *)
(* constructor that failed half way and of a handler that panicked.        *)
ConnectionsReturn ==
  \A r \in Requests, k \in DBs : status[r][k] = "open" ~> status[r][k] # "open"

(* Each request's driver is a MultiTrx.  It has no closed flag, so it is   *)
(* active until its Commit succeeds.                                       *)
Promise(r) == INSTANCE MultiTrx WITH
  Keys <- DBs, txState <- status[r],
  outcome <- IF resp[r] = "Success" THEN "committed" ELSE "active"

Implements ==
  /\ \A r \in Requests : Promise(r)!Init
  /\ [][\A r \in Requests : Promise(r)!Next \/ UNCHANGED Promise(r)!vars]_vars

(* README.md: "request-scoped transactions are auto-committed/rolled back  *)
(* by the response helpers".  What a request wrote is not rolled back once *)
(* a helper has answered 200.                                              *)
HelpersSettle ==
  \A r \in Requests : resp[r] \in {"Success", "Transform"} =>
    \A k \in wrote[r] : status[r][k] # "rolledback"
=============================================================================
