------------------------------- MODULE LazyTrx -------------------------------
(***************************************************************************)
(* The lazy multi-database transaction                                     *)
(* (src/db/trx.sqldriver.multi.lazy.go): one driver shared by the          *)
(* goroutines of a request, a mutex, a closed flag and a map from database *)
(* key to the transaction begun on it.  A statement first looks its        *)
(* transaction up under the mutex (beginning it if it is not in the map),  *)
(* then uses it with the mutex released, so that commits, rollbacks and    *)
(* the end of a context can come between the two.                          *)
(*                                                                         *)
(* The transactions belong to database/sql.  Of that library the model     *)
(* keeps what the driver depends on: a transaction ends once; a call on an *)
(* ended one fails with ErrTxDone; Commit ends it whether or not the       *)
(* database accepted it; and it is rolled back in the background when the  *)
(* context it was begun with ends.  The driver begins a key at most once   *)
(* (BeginOnce), so a transaction is named by its key.                      *)
(***************************************************************************)
EXTENDS Naturals

CONSTANTS
  Callers,      \* the goroutines that share the driver, each with its context
  Keys,         \* the database keys a context may name
  Default,      \* shared.Default
  NoCaller,     \* nobody: the mutex is free, no context is bound
  NoKey         \* a context that names no database

ASSUME KeyAssumption == Default \in Keys /\ NoKey \notin Keys
ASSUME CallerAssumption == NoCaller \notin Callers

VARIABLES
  dbs,          \* the keys of the db map given to the constructor
  made,         \* did the constructor return a driver?
  mu, closed,   \* trxSqlDriverMultiDBState
  tx,           \* the keys of the tx map
  status,       \* the database/sql transaction of each key
  bound,        \* whose context it was begun with
  cancelled,    \* the callers whose context has ended
  pc,           \* where each caller is
  key,          \* the key its statement runs on
  todo,         \* what is left of its loop over the transactions
  begins,       \* history: how many times each key was begun
  acked,        \* history: the keys on which a statement succeeded
  commitRes     \* history: what Commit has answered on a driver still open

driver  == <<dbs, made, mu, closed, tx>>
sqlTx   == <<status, bound, cancelled>>
control == <<pc, key, todo>>
history == <<begins, acked, commitRes>>
vars    == <<driver, sqlTx, control, history>>

PCs == {"idle", "wantUse", "inUse", "exec", "wantCommit", "inCommit",
        "wantRollback", "undo"}

TypeOK ==
  /\ dbs \in SUBSET Keys
  /\ made \in {"no", "yes", "failed"}
  /\ mu \in Callers \cup {NoCaller}
  /\ closed \in BOOLEAN
  /\ tx \in SUBSET dbs
  /\ status \in [Keys -> {"none", "open", "committed", "rolledback"}]
  /\ bound \in [Keys -> Callers \cup {NoCaller}]
  /\ cancelled \in SUBSET Callers
  /\ pc \in [Callers -> PCs]
  /\ key \in [Callers -> Keys]
  /\ todo \in [Callers -> SUBSET Keys]
  /\ begins \in [Keys -> Nat]
  /\ acked \in SUBSET Keys
  /\ commitRes \in {"none", "ok", "err"}

Init ==
  /\ dbs \in SUBSET Keys
  /\ made = "no"
  /\ mu = NoCaller
  /\ closed = FALSE
  /\ tx = {}
  /\ status = [k \in Keys |-> "none"]
  /\ bound = [k \in Keys |-> NoCaller]
  /\ cancelled = {}
  /\ pc = [c \in Callers |-> "idle"]
  /\ key = [c \in Callers |-> Default]
  /\ todo = [c \in Callers |-> {}]
  /\ begins = [k \in Keys |-> 0]
  /\ acked = {}
  /\ commitRes = "none"

-----------------------------------------------------------------------------
(* Steps of a caller's control.                                            *)

Goto(c, label) == pc' = [pc EXCEPT ![c] = label]

At(c, from, to) == made = "yes" /\ pc[c] = from /\ Goto(c, to)

(* The call returns, and its local variables are gone.                     *)
Return(c, from) ==
  /\ At(c, from, "idle")
  /\ key' = [key EXCEPT ![c] = Default]
  /\ todo' = [todo EXCEPT ![c] = {}]

Lock(c)   == mu = NoCaller /\ mu' = c
Unlock(c) == mu' = NoCaller

(* getDBKey: shared.ExecuteIn if the context has it and there is such a    *)
(* database, else shared.X_PortalCode likewise, else the default, which    *)
(* need not be in the map.                                                 *)
DBKey(executeIn, portal) ==
  IF executeIn \in dbs THEN executeIn
  ELSE IF portal \in dbs THEN portal
  ELSE Default

Routes == {DBKey(e, p) : e, p \in Keys \cup {NoKey}}

(* Mutant of Begin: the nil check on t.db[key] is missing.                 *)
BeginAnywhere(c, k) ==
  /\ c \notin cancelled
  /\ tx' = tx \cup {k}
  /\ status' = [status EXCEPT ![k] = "open"]
  /\ bound' = [bound EXCEPT ![k] = c]
  /\ begins' = [begins EXCEPT ![k] = @ + 1]

(* BeginTx on t.db[k], and what it leaves in the map and in the library.   *)
Begin(c, k) ==
  /\ k \in dbs
  /\ c \notin cancelled
  /\ tx' = tx \cup {k}
  /\ status' = [status EXCEPT ![k] = "open"]
  /\ bound' = [bound EXCEPT ![k] = c]
  /\ begins' = [begins EXCEPT ![k] = @ + 1]

-----------------------------------------------------------------------------
(* NewSqlTransactionMultiDBLazy: begins the database its own context names, *)
(* before anybody else sees the driver.  It fails for an empty map, a key  *)
(* that is not in it, or when the database refuses.                        *)

New(c) ==
  /\ made = "no"
  /\ made' = "yes"
  /\ \E k \in Routes : Begin(c, k)
  /\ UNCHANGED <<dbs, mu, closed, cancelled, acked, commitRes, control>>

NewFails ==
  /\ made = "no"
  /\ made' = "failed"
  /\ UNCHANGED <<dbs, mu, closed, tx, sqlTx, control, history>>

-----------------------------------------------------------------------------
(* ExecContext, QueryContext, QueryRowContext, Tx, BeginContext: first     *)
(* getOrBeginTx under the mutex, then the statement without it.  When the  *)
(* lookup fails the call ends there (Tx and QueryRowContext panic, with    *)
(* the mutex already released by the deferred unlock).                     *)

CallUse(c) ==
  /\ At(c, "idle", "wantUse")
  /\ \E k \in Routes : key' = [key EXCEPT ![c] = k]
  /\ UNCHANGED <<driver, sqlTx, todo, history>>

LockUse(c) ==
  /\ At(c, "wantUse", "inUse")
  /\ Lock(c)
  /\ UNCHANGED <<dbs, made, closed, tx, sqlTx, key, todo, history>>

UseCached(c) ==
  /\ At(c, "inUse", "exec")
  /\ ~closed
  /\ key[c] \in tx
  /\ Unlock(c)
  /\ UNCHANGED <<dbs, made, closed, tx, sqlTx, key, todo, history>>

(* Mutant of UseBegin: the closed flag is not looked at.                   *)
UseBeginClosed(c) ==
  /\ At(c, "inUse", "exec")
  /\ key[c] \notin tx
  /\ Begin(c, key[c])
  /\ Unlock(c)
  /\ UNCHANGED <<dbs, made, closed, cancelled, key, todo, acked, commitRes>>

(* Mutant of UseBegin: the map is not looked at again under the mutex.     *)
UseBeginAgain(c) ==
  /\ At(c, "inUse", "exec")
  /\ ~closed
  /\ Begin(c, key[c])
  /\ Unlock(c)
  /\ UNCHANGED <<dbs, made, closed, cancelled, key, todo, acked, commitRes>>

UseBegin(c) ==
  /\ At(c, "inUse", "exec")
  /\ ~closed
  /\ key[c] \notin tx
  /\ Begin(c, key[c])
  /\ Unlock(c)
  /\ UNCHANGED <<dbs, made, closed, cancelled, key, todo, acked, commitRes>>

(* ErrSqlTransactionClosed, an unknown database, or BeginTx failing.       *)
UseFails(c) ==
  /\ Return(c, "inUse")
  /\ closed \/ key[c] \notin tx
  /\ Unlock(c)
  /\ UNCHANGED <<dbs, made, closed, tx, sqlTx, history>>

ExecOk(c) ==
  /\ Return(c, "exec")
  /\ status[key[c]] = "open"
  /\ c \notin cancelled
  /\ acked' = acked \cup {key[c]}
  /\ UNCHANGED <<driver, sqlTx, begins, commitRes>>

ExecFails(c) ==
  /\ Return(c, "exec")
  /\ UNCHANGED <<driver, sqlTx, history>>

-----------------------------------------------------------------------------
(* Commit: the mutex is held over the whole loop, which visits the map in  *)
(* any order and stops at the first error without closing the driver.      *)

CallCommit(c) ==
  /\ At(c, "idle", "wantCommit")
  /\ UNCHANGED <<driver, sqlTx, key, todo, history>>

LockCommit(c) ==
  /\ At(c, "wantCommit", "inCommit")
  /\ Lock(c)
  /\ ~closed
  /\ todo' = [todo EXCEPT ![c] = tx]
  /\ UNCHANGED <<dbs, made, closed, tx, sqlTx, key, history>>

CommitClosed(c) ==
  /\ Return(c, "wantCommit")
  /\ mu = NoCaller
  /\ closed
  /\ UNCHANGED <<driver, sqlTx, history>>

(* Can database/sql still commit the transaction of k?                     *)
Committable(k) == status[k] = "open" /\ bound[k] \notin cancelled

(* Mutant of CommitOne: ErrTxDone is passed over, as Rollback does.        *)
CommitOneLenient(c, k) ==
  /\ At(c, "inCommit", "inCommit")
  /\ k \in todo[c]
  /\ status' = [status EXCEPT ![k] = IF Committable(k) THEN "committed" ELSE @]
  /\ todo' = [todo EXCEPT ![c] = @ \ {k}]
  /\ UNCHANGED <<driver, bound, cancelled, key, history>>

CommitOne(c, k) ==
  /\ At(c, "inCommit", "inCommit")
  /\ k \in todo[c]
  /\ Committable(k)
  /\ status' = [status EXCEPT ![k] = "committed"]
  /\ todo' = [todo EXCEPT ![c] = @ \ {k}]
  /\ UNCHANGED <<driver, bound, cancelled, key, history>>

(* Mutant of CommitFails: the transaction that failed leaves the map.      *)
CommitFailsForgets(c, k) ==
  /\ Return(c, "inCommit")
  /\ k \in todo[c]
  /\ Committable(k)
  /\ status' = [status EXCEPT ![k] = "rolledback"]
  /\ tx' = tx \ {k}
  /\ Unlock(c)
  /\ commitRes' = "err"
  /\ UNCHANGED <<dbs, made, closed, bound, cancelled, begins, acked>>

(* ErrTxDone and an ended context leave the transaction as it is.  When    *)
(* the database itself fails the transaction is over, and what the server  *)
(* made of it is unknown.                                                  *)
CommitFails(c, k) ==
  /\ Return(c, "inCommit")
  /\ k \in todo[c]
  /\ \/ ~Committable(k) /\ UNCHANGED status
     \/ /\ Committable(k)
        /\ \E s \in {"committed", "rolledback"} :
             status' = [status EXCEPT ![k] = s]
  /\ Unlock(c)
  /\ commitRes' = "err"
  /\ UNCHANGED <<dbs, made, closed, tx, bound, cancelled,
                 begins, acked>>

CommitDone(c) ==
  /\ Return(c, "inCommit")
  /\ todo[c] = {}
  /\ closed' = TRUE
  /\ tx' = {}
  /\ Unlock(c)
  /\ commitRes' = "ok"
  /\ UNCHANGED <<dbs, made, sqlTx, begins, acked>>

-----------------------------------------------------------------------------
(* Rollback: closes the driver and takes the transactions out of the map   *)
(* under the mutex, then rolls them back one by one without it.  Nothing   *)
(* in the first part blocks, so it is one step.                            *)

CallRollback(c) ==
  /\ At(c, "idle", "wantRollback")
  /\ UNCHANGED <<driver, sqlTx, key, todo, history>>

(* Mutant of RollbackClosed: the early return forgets the mutex.           *)
RollbackClosedLocked(c) ==
  /\ Return(c, "wantRollback")
  /\ Lock(c)
  /\ closed
  /\ UNCHANGED <<dbs, made, closed, tx, sqlTx, history>>

RollbackClosed(c) ==
  /\ Return(c, "wantRollback")
  /\ mu = NoCaller
  /\ closed
  /\ UNCHANGED <<driver, sqlTx, history>>

(* Mutant of RollbackTake: the mutex is not taken.                         *)
RollbackTakeUnlocked(c) ==
  /\ At(c, "wantRollback", "undo")
  /\ ~closed
  /\ closed' = TRUE
  /\ todo' = [todo EXCEPT ![c] = tx]
  /\ tx' = {}
  /\ UNCHANGED <<dbs, made, mu, sqlTx, key, history>>

RollbackTake(c) ==
  /\ At(c, "wantRollback", "undo")
  /\ mu = NoCaller
  /\ ~closed
  /\ closed' = TRUE
  /\ todo' = [todo EXCEPT ![c] = tx]
  /\ tx' = {}
  /\ UNCHANGED <<dbs, made, mu, sqlTx, key, history>>

(* tx.Rollback: ErrTxDone is ignored; any other error is remembered for    *)
(* the answer, and database/sql drops the connection: rolled back as well. *)
RollbackOne(c, k) ==
  /\ At(c, "undo", "undo")
  /\ k \in todo[c]
  /\ status' = [status EXCEPT ![k] = IF @ = "open" THEN "rolledback" ELSE @]
  /\ todo' = [todo EXCEPT ![c] = @ \ {k}]
  /\ UNCHANGED <<driver, bound, cancelled, key, history>>

RollbackDone(c) ==
  /\ Return(c, "undo")
  /\ todo[c] = {}
  /\ UNCHANGED <<driver, sqlTx, history>>

-----------------------------------------------------------------------------
(* The contexts, and database/sql watching the ones it began with.         *)

ContextEnds(c) ==
  /\ c \notin cancelled
  /\ cancelled' = cancelled \cup {c}
  /\ UNCHANGED <<driver, status, bound, control, history>>

AwaitDone(k) ==
  /\ status[k] = "open"
  /\ bound[k] \in cancelled
  /\ status' = [status EXCEPT ![k] = "rolledback"]
  /\ UNCHANGED <<driver, bound, cancelled, control, history>>

(* A request whose constructor failed has no driver to go on with.         *)
Terminated == made = "failed" /\ UNCHANGED vars

Use(c)      == LockUse(c) \/ UseCached(c) \/ UseBegin(c) \/ UseFails(c)
               \/ ExecOk(c) \/ ExecFails(c)
Commit(c)   == \/ LockCommit(c) \/ CommitClosed(c) \/ CommitDone(c)
               \/ \E k \in Keys : CommitOne(c, k) \/ CommitFails(c, k)
Rollback(c) == \/ RollbackClosed(c) \/ RollbackTake(c) \/ RollbackDone(c)
               \/ \E k \in Keys : RollbackOne(c, k)

Next ==
  \/ \E c \in Callers : \/ New(c)
                        \/ CallUse(c) \/ CallCommit(c) \/ CallRollback(c)
                        \/ Use(c) \/ Commit(c) \/ Rollback(c)
                        \/ ContextEnds(c)
  \/ \E k \in Keys : AwaitDone(k)
  \/ NewFails
  \/ Terminated

Spec == Init /\ [][Next]_vars

(* A call that has started runs on: the library and the databases answer,  *)
(* and sync.Mutex does not starve a waiter.                                *)
Fairness ==
  \A c \in Callers :
    /\ WF_vars(Use(c) \/ Commit(c) \/ Rollback(c))
    /\ SF_vars(\/ LockUse(c) \/ LockCommit(c) \/ CommitClosed(c)
               \/ RollbackClosed(c) \/ RollbackTake(c))

FairSpec == Spec /\ Fairness

-----------------------------------------------------------------------------
(* Once the driver is closed and no Rollback is still in its loop, no      *)
(* database has a transaction open: a statement racing the close can       *)
(* neither leave one behind nor begin a new one, whatever Commit did       *)
(* before (a failed Commit followed by a Rollback leaks nothing).          *)
NoOpenAfterClose ==
  closed /\ (\A c \in Callers : pc[c] # "undo")
    => \A k \in Keys : status[k] # "open"

(* When Commit answers nil, everything begun is committed, and so is every *)
(* statement the driver acknowledged, although contexts may have ended and *)
(* earlier commits may have failed half way.                               *)
CommitIsTotal ==
  commitRes = "ok" =>
    /\ \A k \in Keys : begins[k] > 0 => status[k] = "committed"
    /\ \A k \in acked : status[k] = "committed"

(* The callers of one driver share one transaction per database.           *)
BeginOnce == \A k \in Keys : begins[k] <= 1

(* After Commit has failed on an open driver it never answers nil: the     *)
(* half that is done cannot be taken for the whole by a retry.             *)
FailedCommitSticks == [][commitRes = "err" => commitRes' = "err"]_vars

(* Every call returns: no path leaves the mutex locked, and the mutex is   *)
(* not needed while it is held.                                            *)
CallsReturn == \A c \in Callers : pc[c] # "idle" ~> pc[c] = "idle"

(* The driver is a MultiTrx.                                               *)
Outcome ==
  IF commitRes = "ok" THEN "committed"
  ELSE IF closed THEN "aborted" ELSE "active"

Promise == INSTANCE MultiTrx WITH txState <- status, outcome <- Outcome

Implements == Promise!Spec
=============================================================================
