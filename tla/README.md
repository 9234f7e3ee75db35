# Verification of common-libs-go

TLA+ models of the parts of `common-libs-go` whose correctness depends on
concurrency, failure or timing, TLC configurations that check them on small
instances, and TLAPS proofs for every value of the constants. Paths below
are relative to the repository root, `src/`.

## 1. The system

`common-libs-go` is a library for Go services: HTTP helpers on gin, database
transactions over one or several databases, a background worker on asynq, a
gRPC gateway with service discovery in Redis, a file logger, object storage
and code generators.

| Component | State it keeps | Operations | What is hard about it |
|---|---|---|---|
| Transaction contract (`db/db.go`) | - | begin, commit, rollback over one or several databases | what several databases can promise together |
| Lazy multi-database transaction (`db/trx.sqldriver.multi.lazy.go`) | map of open transactions, closed flag, mutex | constructor, routing, begin on first use, statements, `Commit`, `Rollback` | goroutines of one request share it; contexts end; `Commit` fails half way; `Rollback` works outside the mutex |
| Eager multi-database transaction (`db/trx.sqldriver.multi.go`) | map of transactions | begin on all databases, statements, `Commit`, `Rollback` | random begin order while waiting for connections; failures half way |
| Response helpers (`api/api.go`, `api/context.go`) | the request's transaction in the gin context | `SetCtxAndTrx`, `Success`, `Error`, `Transform` | what the answer says against what the databases did |
| Connections (`connection/connection.go`) | pools | constructors | requests compete for a bounded pool |
| File logger (`logger/logger.go`) | queue, switch, open file, day | `Startup`, `write`, flush, `StartWriting`/`StopWriting` | writers race the flusher; file operations fail in a batch; the day changes |
| Gateway registry (`gateway/controller`, `gateway/service/{server,client,config}.go`) | Redis hash and channel, mounted composites | `Server.Start`/`Stop`, `Registry.Write/Publish/Get/Watch`, `Gateway.Open`, `NewComposite`, `Mount` | read-then-subscribe gap; lost messages; retries; services replaced while goroutines shake hands |
| Worker (`worker/`) | asynq queues in Redis, one transaction per attempt | registration, `TracingMiddleware`, `Success` | at-least-once delivery; handlers that outlive their deadline; crashes around the commit |
| Cron (`worker/cron.worker.go`) | asynq scheduler, unique locks in Redis | `RegisterCron` | replicas with different clocks; the lock is released early |
| Gateway dispatch (`gateway/service/{service,router,context,views}.go`) | an immutable router | `Dispatch`, `Handshake`, route matching | pure |
| Single-database drivers (`db/trx.sqldriver.go`, `db/trx.builder.go`, `db/sqldriver*.go`) | one `sql.Tx`/`sql.DB` | delegation | none of its own |
| HTTP middleware (`middleware/middleware.go`, `models/auth`, `acl`) | options, the guard's Redis client; sessions are in Redis | `RegisterService`, `HandleNotfound`, `SetWsCredential`, `SetMetadata`, `GuardRoute`, `HasRole` | two reads of a session that can change in between; a client connected on first use |
| Object storage (`objstorage`, `controller/minio.ctrl.go`) | objects in MinIO or Azure | upload, delete, stream, download, zip | content-addressed upload against delete; a call is several calls of a backend, each of which may fail |
| Lists of rows (`api/index_param.go`, `view_param.go`, `sort_param.go`, `row_index.go`) | - | paging, sorting, filtering, counting | nested filters joined as text; two statements, and several pages, over a table that changes |
| Generic repository (`service/`) | - | `Get`, `Update`, `Remove`, counters | which rows the conditions affect |
| Helpers, errors, types, constants (`helper`, `serror`, `types`, `shared`) | - | pure functions, conversions | rounding and boundaries |
| Repository generator (`cmd/gen-repo`) | the files of a module, the route file, a Postman collection | one run for one or several tables, with `--ctl`, `--postman`, `--force`, `--dry-run` | regenerates files that people have edited; may fail after any of them |
| Classic generator (`cmd/gen-repo-classic`) | the same, and the registries, `handler.go` and `services.go` of the service | as above, with `--hard` | one module is wired into five shared files, one after the other |
| Reading of tables (`parser.go`, `loadTableDefinition` of both) | - | a table from its SQL text or from the catalog | quotes and parentheses; the two must agree |
| Column generator (`cmd/gen-columns`) | generated files | a run, with or without `--full` | embedding across files; what older runs left |
| Migration generator (`cmd/gen-migrations`) | files | a run | the next number is chosen and used in two steps |
| CLI (`cli`, `main.go`) | - | argument dispatch | - |

How they interact: a request passes the middleware; its gin handler calls `SetCtxAndTrx`, which begins a
transaction through a builder and leaves the driver in the context; statements
of the repositories and lists run on it; a response helper commits or rolls it back and
writes the answer; `database/sql` rolls back whatever is open when the
request's context ends. The worker's middleware does the same around a task,
with asynq in the place of `net/http`. Services announce themselves through
Redis to the gateway, which dials them and mounts them. All packages log
through the file logger. The generators run on a developer's machine and share
nothing with each other but the files.

`PROJECT.json` lists every component with its status, every hazard at its
line, and for every definition the lines it translates.

## 2. Modules

| Module | Models | Checked by | Proofs |
|---|---|---|---|
| `MultiTrx` | the abstract promise of a multi-database transaction | (as a property of the next two) | |
| `LazyTrx` | the lazy driver | `MCLazyTrx` | `LazyTrxProofs` |
| `RequestTrx` | requests with the eager driver, the response helpers, connection pools | `MCRequestTrx` | `RequestTrxProofs` |
| `AsyncLogger` | the file logger | `MCAsyncLogger` | `AsyncLoggerProofs` |
| `GatewayRegistry` | servers, Redis, the gateway | `MCGatewayRegistry` | `GatewayRegistryProofs` |
| `WorkerTask` | the attempts of one task | `MCWorkerTask` | `WorkerProofs` |
| `CronSchedule` | replicas enqueueing a cron entry | `MCCronSchedule` | `WorkerProofs` |
| `GeneratorRun` | the control of a run, which both repository generators share | (in the next two) | (in theirs) |
| `Selections` | loops that keep some elements of a slice | (in the modules that use it) | (in theirs) |
| `GenRepo` | runs of the repository generator and the developer's edits | `MCTools`, `MCGenRepo` | `ToolsProofs`, `ClassicProofs` |
| `GenRepoClassic` | runs of the classic generator and the developer's edits | `MCTools` | `ClassicProofs` |
| `PostmanCollection` | the collection of a module, used by `GenRepoClassic` | `MCTools` | `ClassicProofs` |
| `Generators` | both generators, one of them in a behaviour, and what they promise together | `MCTools` | `ClassicProofs` |
| `TableFields` | what both generators make of a table's columns and of struct tags | `MCTools` | `ToolsProofs` |
| `TableDdl` | how both generators read a table | `MCTools` | |
| `GenColumns` | the column generator | `MCTools` | |
| `Migrations` | concurrent runs of the migration generator | `MCTools` | `ToolsProofs` |
| `RouteGuard` | requests in the middleware against the auth service | `MCService` | `ServiceProofs` |
| `ObjectStore` | concurrent calls on the object storage | `MCService` | `ServiceProofs` |
| `RowIndex` | lists, lookups, updates and removals of rows | `MCService` | |

`MCTools` and `MCService` each put several components that share nothing into
one run: the first step chooses one of them, and the variables of the others stay.
They extend the components that have proofs (and take `TableFields`, which has no constants, through an instance of `TableDdl`), so that TLC checks the very definitions that are
proved, and evaluates their assumptions.

### MultiTrx

`txState` is the transaction of each database, `outcome` what the driver has
told its request. It promises that a database is begun at most once and only
while the transaction is active, that an ended database transaction never
changes, and that the whole is committed only when everything begun is. It
does not promise atomic commitment, because the code does not: databases
commit one after another.

### LazyTrx

`made`, `dbs`, `tx`, `closed` and `mu` are the fields of
`TrxSqlDriverMultiDBLazy`; `status` and `bound` are the `sql.Tx` of each
database and the caller whose context it was begun with; `pc`, `key`, `todo`
say where each goroutine is. A call is cut wherever another goroutine can see
the difference: at the mutex, between `getOrBeginTx` and the statement, between
two commits, and between the critical section of `Rollback` and its loop. The
order in which a map is ranged over is an `\E`. `Commit` and `Rollback` can be
called any number of times by any caller. Contexts end at any time
(`ContextEnds`) and `AwaitDone` is `database/sql` rolling back after that.
`PingContext` changes no state and is left out.

### RequestTrx

Each request begins on every database in any order (`BeginOne`, `BeginFails`),
executes, and calls one helper (`CallSuccess`, `CallError`, `Transform`) or
panics. `Free` is the limit of `SetMaxOpenConns`. A failed constructor leaves a
typed nil driver behind (`driver = "nil"`) and possibly transactions nobody
can reach, which only the end of the context releases. The context ends when
the client leaves or, at the latest, after the answer.

### AsyncLogger

`Writing`, `ready`, `name`, `stream` and `queues` are the package's variables;
`lists` and `next` are the locals of `flush`. `write` is two steps, its checks
(without the mutex) and its append; `flush` is one step for each operation on
the file, each of which may fail, and its deferred function is `Requeue`.
`Startup` notes the day's name before it opens anything (`Turn`), as the code
does. Message texts are model values.

### GatewayRegistry

A boot is one run of a service's server, with a config; `Sum` is its checksum.
`Server.Start` is cut into its write, its publish and its serving, each of which may fail;
a failed Redis command may have been applied. `inbox` is what the Redis channel
has delivered and `Receive` has not taken; while the subscription is not there
or lost, messages vanish. For each config learnt, a composer goroutine shakes hands,
retries up to `MaxTries`, compares checksums and mounts. The handshake has no deadline (`client.go:100` gives it
`context.Background()`), so a server may leave it open: `Unanswered` is the goroutine that asks a server which does
not answer, `asks` the boot it asked, and it stays there until that server ends, which breaks the call, or the
connection fails (`HandshakeBreaks`). `served` and `excuse` are history.

Left out: protected routes, malformed values in the hash, services without a
gateway endpoint, `GetConnection`, and the connections that retries leave open
(a hazard in `PROJECT.json` that no property covers: nothing bounds them). All boots of one
service use one address.

### WorkerTask

`task`, `tries` and `awaited` belong to asynq: the task in Redis, the attempts made
and the attempt whose result the processor waits for. `pc`, `res`, `status` and
`live` describe each attempt in `TracingMiddleware`: where it is, what it will
return, its transaction, its context. When a deadline or lease ends asynq retries
while the old handler may still run, so several attempts are alive at once. The
process may crash in any step; a commit on its way may then have happened. asynq
and `database/sql` are not in the repository and are modelled from how the
middleware uses them (asynq v0.24). The result a handler writes with
`worker.Success`, queues and their priorities are left out.

### CronSchedule

Time is counted in abstract units. Each replica's scheduler fires every tick
when its own clock (behind by `Offset`) reaches it, at most `Jitter` late.
`Enqueue` takes the unique lock for `TTL`; `Duplicate` finds it taken;
`EnqueueFails` is any other error, which the scheduler logs and forgets;
`Complete` is asynq releasing the lock with its task. `TimeAssumption` names
what the comment on the default ttl supposes: the ttl and the jitter fit in an
interval, and clocks differ by less than one.

### GenRepo

`state` and `decls` are the Go files of one table's module on disk: whether each is
missing, blank, unparsable or Go, and its declarations in order, each generated or
written by the developer. `wired` and `regs` are the module's part of the route
file, `folders` its Postman collection. What both generators' runs have in common is in `GeneratorRun`: `pc`, the files left (`todo`), how the
last run ended (`Ends`), and the reads and writes that fail (`Fault`). A run (`Run`) has any flags, reads the tags of the model file
(`LoadTags`), then decides for each file in turn whether to write it
(`Wanted`) and with what (`Render`: whole, or appended to what is there), patches the routes
(`PatchRoutes`) and rebuilds the collection (`PatchPostman`). Each step may fail
and end the run; since `os.WriteFile` truncates first, a failing write leaves
nothing, half a declaration, or some declarations (`Truncated`). Between runs
the developer adds, edits and removes declarations, routes and requests; he
does not break a file's syntax, does not add a declaration twice, and does not write while the generator runs.
`partial`, `stripped`, `wrote` and `torn` are history and name the exceptions of
the properties. Several tables in one run and the generated text are left out; tags are in `TableFields`.

### GenRepoClassic and PostmanCollection

A run (`ClassicRun`) is given one or several tables (`queue`) and any flags; for each
it reads the tags of the DTO (`ReadTags`), writes the module's files
(`WriteModuleFile`), appends the module's interfaces to two registries, which are
both read before either is written (`ReadRegistries`, `WriteRegistry`), registers
routes (`RegisterRoutes`), adds the use case to `NewGatewayHandler` (`PatchHandler`: field, parameter,
literal, each looked for by itself) and to its call (`PatchServices`: import,
variable, argument), and rebuilds the collection (`RebuildCollection`). Any of these may fail,
leaving what was written. A failed write may truncate a shared file: what is left is refused by later runs until
the developer restores it (`CutShort`), or it still parses, and later runs go on patching it: a registry with only
the first of its interfaces (`CutRegistry`), another file cut behind what is patched (`CutBehind`). Between runs he
adds code, changes tags, removes generated code, unwires a module, drops a route or a
field, or puts in a use case of his own. `incomplete`, `split` and `covered`
are history: the files and registries of a module that were left without something, the modules at which a run has
ended with the parameters in `handler.go` and the arguments in `services.go` different, and the modules of the last run.

`PostmanCollection` is the last step in detail: `Found` is the folder that is taken over,
`BaseItem` what a request is built from, `PathOf` where a path value is looked for,
`KeepsId` when the collection stays the same for Postman. The developer adds and edits requests, adds folders,
renames the first folder and gives it its name back; when the module's folder is not found, the rebuilt collection has
nothing of the old one but its id.

`Generators` puts the two generators side by side (`tool` says which of them a behaviour is about) and
states what both promise: `UserCodeKept`, `NothingTwice`, `ReferencesResolve`, `OkMeansDone`, `EditsSurvive`.

### TableDdl and TableFields

A `CREATE TABLE` text is a sequence of tokens. `Quote` and `Depth` are the scanner
that every splitting function of `parser.go` repeats, as recursive functions over positions;
`parseCreateStatement`, `parseColumnDefinition` and `extractPkColumns` keep the
names of the code. `Catalog` is what PostgreSQL reports for the same table
and `loadTableDefinition` what the generators make of it. The catalog has the expression of a generated column not as
it was written but as PostgreSQL prints it again, with casts (`Deparsed`; the two forms of one column are in
`cmd/gen-repo/main_test.go:67` and `:98`). The parsers of the two generators are one text; some
definitions are mapped to the one copy and some to the other. `Inside` says which of the
words that the type mapping looks for are inside a word of a type; it is data of the
instance and not computed from characters.

`TableFields` says which columns become fields of the structs (`DtoFields`), parameters of the edit handler
(`ReadFields`, `EditableFields`), validations (`CreateValidation`) and form fields of the Postman request
(`FormData`), and how the tags of a Dto that is generated again are merged with the developer's (`Readable`,
`Filled`, `Printed`). The two generators merge differently: the classic one (`MergedClassic`) keeps all tags and fills
in four defaults; the repository generator (`Merged`) fills in three, takes `query` away and sets the `validate` of
a column `id`, as `TestLoadDTOFieldTags` expects. `TagsKept` says of each what it keeps.

### GenColumns

A run removes the generated files (`Clean`), parses all sources (`Load`), writes one
file per source file in any order (`WriteColumns`) and `col.go` (`WriteAll`), and may stop at any of
these. `CollectFields` is the recursion of the code, `ColumnsOf` its meaning by
transitive closure. Struct names are unique across the sources; with two of one name the code
keeps the one it walks last. An output is named after its source's base name (`BaseName`), so that sources in two
directories may write the same file, and the last of them counts; `ColumnsCurrent` asks only that one of them be
there whole. A write that fails may leave an output that does not parse (`unparsed`).

### Migrations

A run lists the directory and chooses (`Start`), then creates its file with `O_EXCL` (`Create`).
`FirstThree` reads a plain number from its first three characters, as the code does.

### RouteGuard

`m` is the middleware after `RegisterService` has applied its options in order;
`where` is the next handler of each request. `GuardRoute` is cut at the
mutex of `guardSessionRedis`, at the read of the liveness marker and at the
read of the session. The auth service logs in, revokes, rewrites the session and issues
websocket credentials at any time; tokens expire. `live`, `stored` and `steady` are history:
what a request could have seen since it began. It models one user with several tokens.

### ObjectStore

Each call of the usecase is a sequence of calls to the backend (`at`), any of which
may fail; an upload may be stored and its answer lost. An id is the hash of the
content, so the model takes the content for both. `IsFileExist` counts every error as
"missing", as the code does. MinIO's `GetObject` is lazy and Azure's is not.

### RowIndex

A filter is the tree that fexpr parses; `ParseFilterAst` and
`GenerateFilterStmt` turn it into tokens of SQL, which `HoldsSql` evaluates by SQL's
precedence, and `Means` says what the tree means without going through text. `Index`
is the request with its page, size and sort; `Count` and `ListRows` are the two
statements of `RowIndex.List`, between which `Others` may change the table; `NextPage`
is the client asking for the next page. Rows come in any order that the sort allows.
The number in the JSON column is cast only beside a number (`TextRank` is its order as text).

## 3. Runs

| Run | Bounds | What it shows |
|---|---|---|
| `lazy` | 2 callers, 2 databases (any subset configured) | in every interleaving, nothing stays open once the driver is closed, a nil `Commit` is total, a database is begun once, a failed `Commit` is never taken for success by a retry, the driver implements `MultiTrx`, and every call returns: no path leaves the mutex locked |
| `request` | 2 requests, 2 databases, 1 connection each | an answer of `Success` is durable, an answer of `Error` leaves nothing behind (unless a commit was attempted), every request is answered, every connection returns, each request's driver implements `MultiTrx` |
| `request_helpers` | 1 request, 1 database | finding 1 |
| `logger` | 3 messages, 2 days, 2 faults | accepted messages are neither lost nor overtaken, are repeated only after a failure, and reach the file |
| `registry` | a gRPC service with 2 boots and an http service with 1, 1 retry, 2 gateway runs, 1 fault | only configs that a server ran with are mounted |
| `registry_live` | a gRPC service with 2 boots, 1 retry, 2 gateway runs, 2 faults | a service that keeps serving is mounted with its own config unless one of the named excuses applies; composers end, unless the server they asked stays up and does not answer |
| `worker` | 3 attempts | done means committed; no transaction is held past the middleware's return; an attempt commits unheard only in the window from its commit on, or with a commit in doubt; no transaction stays open |
| `cron` | 3 replicas (0, 5 and 30 s behind), minutely, ttl 55 s, jitter 5 s, 3 ticks | no tick is suppressed |
| `cron_once` | as `cron` | finding 2 |
| `tools` | `GenRepo`: 2 files (of 5) with 2 and 3 declarations, 2 runs, 2 edits, 1 fault; `GenRepoClassic`: 2 modules with 2 files, 3 runs of one table or two, 1 edit, 1 fault; `PostmanCollection`: with the classic generator, and alone with 3 runs, 4 edits and 1 fault, 2 folders of up to 3 requests; `TableDdl`: 9 types, 8 combinations of clauses, 3 shapes of statement; `GenColumns`: 3 files, 2 of one base name, 3 structs, 2 runs, 3 changes; `Migrations`: 2 terminals, 4 styles, 3 runs from number 998 | the developer's code and requests survive (`UserCodeKept`, `EditsSurvive`); nothing is generated twice (`NothingTwice`); every generated route has its handler (`RoutesHaveHandlers`); what the classic generator writes in shared files names what is there, and parameters and arguments stay in one order (`ReferencesResolve`); an ok run leaves nothing undone (`OkMeansDone`); a table reads the same from both sources, but for the form of a generated expression (`SourcesAgree`); structs, handlers, requests and tags fit, and after a run of the column generator the columns are those of the structs (`FieldsFit`); numbers grow (`NumbersGrow`) |
| `generator_postman` | `GenRepo` as in `tools` | finding 3 |
| `service` | `RouteGuard`: 2 requests, 2 tokens, 5 kinds of request, 3 configurations, 2 writes; `ObjectStore`: 2 callers, 2 contents, 4 calls, 1 failure; `RowIndex`: 4 possible rows, 7 filters, 2 scopes, 3 sorts, page sizes 2 to 4, 1 request with all its pages, 1 change by others | the guard decides on what was live while the request was served (`GuardDecidesFresh`); what the store answers is true (`StoreAnswersTrue`); lists, lookups, updates and removals are of the rows that were asked for (`RowsAsAskedFor`) |

Why the bounds are enough. For the transactions, two goroutines and two databases
are the least that make each hazard possible: one commits or rolls back while
the other is between look-up and statement; one database is committed when the
other fails. Two requests over two databases with one connection each are the smallest
cycle of waits. Three messages allow a batch that fails in the middle while
another message is being queued, and two faults a retry that fails again. Two boots, two
runs of the gateway and one retry allow each order in which goroutines of an old and a
new config can meet, and a failure before success. With three attempts, the last can meet two older handlers that still run.
Three ticks allow a late lock of one tick to meet the next one, twice. The generator's two
files are those the others depend on (the tags, the handlers); a target that is missing beside one that is there and a declaration
that is no target are in them, and two edits can remove both targets. In the classic generator, two modules
are the least whose order in `handler.go` and `services.go` can differ, and a third run
repairs what a failed second one left. Of the collection alone, four edits are a folder, its new name, a request in it and
the old name again. The statements have literals with every
token that the scanner treats specially, in front of, behind and inside the table. Three
structs allow an embedding of an embedding and a cycle, and three files an output that two share beside one of its own. Two writes of
the auth service fit between the two reads of the guard. Four calls of two callers allow
an upload that finds, a removal, a second upload and a zip across them.
Three rows with a nullable column and sizes from 2 give a full page, a short one
and one beyond the end. Where a
proof exists (section 5) the bound does not matter.

Deadlock is checked in every run but `tools` and `service`, in which bounded runs and
requests come to their end and nothing remains to do. Elsewhere actions named
`Terminated`, `Idle` and `Ended` are the states in which the system rightly stops.

`MaxDay`, `MaxFaults`, `Boots`, `MaxOpens`, `MaxTick`, `MaxRuns`, `MaxEdits`, `MaxClassicRuns`, `MaxClassicEdits`, `MaxRequests`, `MaxFolders`, `MaxColumnRuns`, `MaxChanges`,
`MaxMade`, `CollectionRuns`, `CollectionEdits`, `MaxWrites`, `MaxCalls`, `MaxFailures`, `MaxOps` and `MaxRowChanges` are bounds of the
models, each marked "bound" at its declaration; `MaxTries`, `MaxAttempts` and
`PoolSize` are parameters of the code.

### Fairness

- `LazyTrx`: a call that was made goes on, and `sync.Mutex` does not starve a
  waiter (strong fairness for taking the lock: Go's starvation mode). Nothing
  is assumed of callers, so a request may never commit.
- `RequestTrx`: handlers end and call a helper, `net/http` ends contexts and
  `database/sql` rolls back; no fairness is given to the winning of a
  connection beyond that of `Begin` itself.
- `AsyncLogger`: the flusher's goroutine is never stopped, and a `write` that has
  begun returns. Switching, days and starting are not fair.
- `GatewayRegistry`: as long as some goroutine can take a step, one does. This is weaker
  than fairness of each goroutine; it suffices because they cannot go round in circles.
  Services may fail, stop, or never start, and a server need not answer a handshake: nothing is assumed of it, and
  `ComposersEnd` excepts the goroutines that wait for a server which is still up.
- The generators, `RouteGuard`, `ObjectStore` and `RowIndex` assume none: their properties are of safety.
- `WorkerTask`: contexts end (asynq gives every attempt a deadline) and
  `database/sql` watches them. Handlers may run for ever.

## 4. Findings

1. `api/api.go:38`: `api.Transform` answers 200 without settling the
   request's transaction, so what the handler wrote is rolled back; the README
   says the response helpers commit or roll back. `HelpersSettle`, run
   `request_helpers`.
2. `worker/cron.worker.go:53`: the comment on `RegisterCron` says that Redis accepts only
   the first of the replicas racing a tick. asynq releases the unique lock when the
   task is completed, so a replica that fires within the ttl but after a short task
   has ended enqueues the same tick again. `OncePerTick`, run `cron_once`.
3. `cmd/gen-repo/postman.go:175`: the collection is rebuilt with the module's folder as its only
   item, so a request that was added in another folder is lost on the next run with
   `--postman`, although the README calls generation non-destructive. Requests
   in the module's folder are kept (`EditsSurvive`, run `tools`). `NonDestructive`, run `generator_postman`.

## 5. Proofs

All proofs are checked by tlapm to the last leaf.

**`LazyTrxProofs`**, for any callers and any databases, from the assumptions
that the placeholders `NoCaller` and `NoKey` are not members and that the default key is a database.
None of the safety properties is inductive. `IInv` adds to `TypeOK`:

- `MutexInv`: the mutex is held exactly by the caller in a critical section;
- `FreshInv`: nothing has happened before the constructor returns;
- `MapInv`: while the driver is open its map holds exactly what has been begun,
  and a database has been begun once if it has a transaction at all;
- `UndoInv`: whatever is open after the close is in some `Rollback`'s loop;
- `LoopInv`, `FailInv`: a commit loop has committed what it passed unless an
  earlier commit failed, and then the map holds a transaction that cannot be
  committed any more, which each later loop has yet to meet;
- `OkInv`: after a nil `Commit` the driver is closed and all begun is committed.

There is one lemma for each part of `Next`. From `Inductive` follow `TypeCorrect`
(proved first, alone), `NothingLeftOpen`, `CommitTotal`, `OneTransactionPerKey`,
`FailureSticks`, and `Refinement`: the driver implements `MultiTrx`, where every
step is a step of `MultiTrx` or a stutter.

**`RequestTrxProofs`**, for any databases, any finite set of requests and any pool size
(`PoolAssumption`). `DriverInv` ties the driver to where the request is and to the databases it has begun,
`LoopInv` says how far the loops of `Commit` and `Rollback` are, `AnswerInv` what an answer implies.
That no pool is overdrawn (in `TypeOK`) is a fact about cardinalities: only a step that takes a connection adds a
holder, and it finds one free. From `Inductive` follow `TypeCorrect`, `SuccessDurable`,
`ErrorLeavesNothing`, and `Refinement`: each request's driver implements its own `MultiTrx`, in which a step of
another request is a stutter.

**`WorkerProofs`** has two parts.

- The task, for any number of attempts. At most one attempt has a live context, the one asynq waits for
  (`AwaitInv`, `LiveInv`); so whatever commits is awaited at that moment, and only what asynq does with the
  attempt later can leave the commit unheard (`HeardInv`). `StatusInv` and `ResultInv` give an attempt's transaction
  and result by where it is. From `Inductive`: `TypeCorrect`, `DoneIsCommitted`,
  `NothingHeldOnReturn`, `OnlyUnheardRepeats`, and the action property `EndedStays`: what was committed or rolled back,
  and a task that is done, change no more.
- The cron entry, for any replicas, offsets, interval, ttl, jitter and number of ticks within
  `TimeAssumption`. `ClockInv` bounds how early and late schedulers are;
  `LockInv` says that a lock ends before the replica that took it is due for its
  next tick. The argument: consider the last replica to fire a tick that has no task yet. If it found the lock taken, the
  lock's task would be of an earlier tick, whose lock has ended, or of a later one, whose
  replica would be an interval ahead, further than clocks differ; so it enqueues. From `CronInductive`:
  `CronTypeCorrect` and `NoTickSuppressed` (`EveryTickEnqueued`).

**`GatewayRegistryProofs`**, for any services, boots, checksums and bounds (`ConfigAssumption`: no checksum is
the word for "none yet"). The argument follows a checksum: a server that answers a handshake has served its boot
(`ServerInv`), so the checksum a goroutine was told is that of a boot that has served (`AckInv`), whatever became
of the server since. From `Inductive`: `TypeCorrect` and `MountedServed`.

**`AsyncLoggerProofs`**, for any messages, days and faults (`BoundAssumption`). Batch and queue together are
always the last of the accepted messages (`RestInv`); all the others are in the file, with the part of
the batch before the position (`DoneInv`); the file may repeat, but has no message before those accepted earlier (`FileInv`), and
without a fault it is exactly what has left (`CleanInv`). From `Inductive`: `TypeCorrect` and `NothingLost`.

**`ServiceProofs`** has two parts. `GuardSpec` and `StoreSpec`, defined there, are the steps of `RouteGuard` and of
`ObjectStore` alone, which are what `MCService` allows once it has chosen that component.

- The guard, for any requests, tokens, sessions, options and number of writes (`ServiceAssumption`): what a request could have
  seen keeps up with Redis while it is under way (`ObserveInv`), so that each of the two reads finds
  something it could have seen, and what follows from the first still holds at the second (`GuardInv`); `RefusedInv`
  is the converse, for the requests turned away; `ClientInv` says that the client is the first and only connection. From `GuardInductive`: `GuardFresh`.
- The store, for any callers, contents, names and orders (`StoreAssumption`): the names a content was stored with only grow
  (`NamedInv`), and an object goes only by a removal that every call under way could have seen. `ControlInv` and `RestInv`
  say what each call has read at every point, `DiskInv` what the files written for an archive hold, `AnswerInv`
  what an answer implies. From `StoreInductive`: `AnswersTrue`.

**`ToolsProofs`** has three parts.

- The repository generator (`Spec` of `GenRepo`), for any files, declarations and targets, and any number of
  runs, edits and faults. `GenAssumption` says of the templates what `generator.go` does: each file has declarations,
  no two of one name, and the first of them is one of its targets. That last part is
  needed: a merge begins with a target, so that a write which fails half way through a merge leaves either
  nothing of it or a target (`TargetInv`), and the next run does not append the file once more. `CompleteInv` says that a
  file without an excuse has everything; `ProgressInv` that what the run under way has left behind is
  complete, the routes too once it is past them; `RequestInv` that the developer's requests are in the
  collection. The missing routes are enumerated in increasing order; that a finite set of numbers has such an
  enumeration is proved by the least counterexample (`Enumerable`). From `Inductive`:
  `TypeCorrect`, `NeverTwiceHolds`, `RoutesOnce`, `HandlersThere`, `OkComplete`,
  `RequestsStay` and the action property `UserCodeStays`: a run without `--force` only appends.
- The migration generator, for any terminals, descriptions and older migrations (`StyleAssumption`);
  `MigrationsSpec` is its steps alone. While no plain migration has reached 1000 every number is read back as it was printed, so a run
  chooses one above all it has listed (`ChosenInv`, with `DirInv`, that the numbers have a highest). From `MigrationsInductive`: `Growing`.
- Fields and tags. `HandlersFit`: for any columns with distinct names, each is a field of exactly one of the two structs, the edit handler and
  the validations use only fields of the DTO, and the Postman forms send what they read or require
  (`HandlerFits`). `TagsStay`: whatever tags a field of the Dto had and whatever its column, the classic generator keeps the value of each
  key the developer has chosen, up to the first malformed pair; the repository generator does for all keys but `query`, which
  it takes away, and the `validate` of `id`, which it sets; each leaves no `form`, `json` or `db` empty, and once more
  changes nothing (`TagsKept`). Both rest on loops that keep some elements of a slice
  (`PickedIs`, `SeqIs`): the positions that are kept are a finite set, which has one increasing enumeration. Of several
  pairs with one key the last counts (`LastPair`).

**`ClassicProofs`** is about the classic generator, its Postman collection, and both generators together, for any
modules, files of a module, queues of tables, flags and prefixes, and any number of runs, edits and faults
(`ClassicAssumption`: a module has files, a run is given tables, and the developer's own use case is no module).
`ClassicIInv` is what is inductive:

- `NowInv` and `DoneInv` keep account of a run, of the module it is at and of those that it has left behind: each shared file is
  patched after what it names was generated, or was cut by a write that failed; `ControlInv` says which steps and files are left to it;
- `OrderInv`: unless a run has ended at `handler.go` or `services.go` with the two different, the parameters of `NewGatewayHandler` and the
  arguments of its call are the same list, but for the one use case that is being added. It is why
  `ReferencesResolve` holds for the order, which neither patch looks at;
- `PartInv`, `TagsInv`, `OwnInv`: part of a file stays only where something is missing, the run has seen the tags before it writes
  the DTO, and the developer's use case is a field before it is a parameter;
- `FolderInv`: the folder a run has built is the first, and no other has its name, whatever the developer adds and renames;
  so a rebuild starts from it or finds none. `WrittenInv`: what he wrote is in it.

From `ClassicInductive` follow `ClassicNamesResolve`, `ClassicOkComplete` and `CollectionEditsStay`; with
`Inductive` of `ToolsProofs` (`GeneratorsInductive`) also `ToolsTyped`, `NothingIsTwice`, `EveryReferenceResolves`,
`OkIsDone`, `AllEditsSurvive` and the action property `UserCodeIsKept`, which are the properties of the run `tools`. TLC
checked `ClassicIInv` first, with two edits.

The inductive invariants were checked by TLC on the instances of section 3 before they were proved. Every
assumption on constants is an `ASSUME` of the component's module, and TLC evaluates it in the runs.

Model-checked only:

- liveness, which is out of the prover's reach: `CallsReturn`, `RequestsAnswered`,
  `ConnectionsReturn`, `AcceptedReachesFile`, `ServingIsMounted`, `ComposersEnd`, `TransactionEnds`;
- `SourcesAgree`, and `FieldsFit` of the tables that were read: they fold over text, and induction over data is out of
  the prover's reach. What `FieldsFit` says of a table and of tags is proved, for every table with distinct names and for all tags (`HandlersFit`, `TagsStay`);
- `GenColumns` (`ColumnsCurrent`, in `FieldsFit`) and `RowIndex` (`RowsAsAskedFor`), which are recursive over data and declare
  `RECURSIVE` operators; so do `MCTools` and `MCService` through them, and what these two define themselves stays with TLC.

## 6. Not modelled

Generated protobuf code, formatting of errors, SQL text helpers,
JSON and SQL conversions and templates are I/O or text, with no control that a property
here would tell apart. Configuration from the environment is read once. The
single-database drivers delegate every call. The gateway's router is built once and only read. Of
modelled components, what is left out is in their notes in `PROJECT.json`.

What the models take as given, and what the properties leave open because the code does. None of
these contradicts a document of the repository; a user should know of them.

- Reading a table: constraints of a table other than `PRIMARY KEY` (`UNIQUE (...)`, `FOREIGN KEY`, `CHECK`)
  are read as columns, an identity column as a generated one; `DEFAULT(0)` and `CHECK(...)`
  written without a space count as the type; an apostrophe in a comment of the SQL text opens a literal; a keyword
  word inside a literal is taken for a clause; a column whose name begins with `CONSTRAINT` is taken for one. `interval` and `point`
  contain "int" and become `int`; `int8` becomes `int` from text and `int64` from the catalog. Arrays
  become their element type. A generated column's expression, which no generated file uses, is what was
  written when it is read from text and PostgreSQL's own form when it is read from the catalog. Of a composite key only the first column is edited. The statements of the
  run `tools` avoid these.
- Tags: `cmd/gen-repo` removes a developer's `query` tag and replaces his `validate` on a column `id`, which the classic
  generator does not. Both read only the tags of the Dto's fields, so those on the fields of generated columns, which are in the
  read model, are generated anew.
- Classic generator: a path value given with `--url-path` is looked for one place
  off and replaced by the sample, of two requests with one name the last counts, and
  a run that ends between `handler.go` and `services.go` can leave the two orders different until a
  later run of that module (`prefixed`, `doubled` and `split` name these cases). Two tables whose
  names give one module share its files. A shared file that a failed write cut at the end of a declaration still parses, and
  the next run goes on patching it; what the cut takes of the developer's own code is not modelled, only the interfaces of other modules that it
  takes from a registry. A folder that the developer has renamed next to another one is not found, and the next run with `--postman`
  writes the collection without what was in it; in the model he renames only the first folder.
- Column generator: of two structs with one name, the file walked last wins; source files of one base name (in two directories, or
  `x.go`, `x.dao.go` and `x.model.go`) overwrite each other's `.col.go`, in the order of a Go map; a `.col.go` left truncated in the source
  tree stops every run until one with `--full`; `col.go` stays old when no column is left.
- Gateway: a handshake has no deadline, so a peer that accepts the connection and never answers keeps its goroutine, and one
  config of the service unmounted, for as long as it is up.
- Logger: a log directory that could not be made is not tried again before the next day; accepted messages stay
  queued until then.
- Migrations: from number 1000 on numbers repeat (`NumberGrows` stops there), and two
  concurrent runs with different names take the same number.
- Object storage: two first uploads to MinIO may both make the bucket, and one fails; a second uploader's
  name is dropped, as the content is there; a removal is for all who uploaded that content; a
  stream that breaks off is answered with status ok; files of one name in an archive overwrite each other.
- Lists: page 0 is an error of the database; without a unique sort key pages may
  overlap; the total and the rows may disagree; a text column cannot be compared with the word
  null; a JSON column is sorted as text. `Get` reports errors of the database as
  "row not found". `Update` and `Remove` with conditions that are all nil affect every row.

## 7. Plan

Done: every module of section 2, and the proofs of section 5: all safety properties of `LazyTrx`, `RequestTrx`,
`AsyncLogger`, `GatewayRegistry`, `WorkerTask`, `CronSchedule`, `GenRepo`, `GenRepoClassic`, `PostmanCollection`,
`RouteGuard`, `ObjectStore` and `Migrations`, and that both drivers implement `MultiTrx`.

Next, in this order:

1. The gateway's router as a pure algorithm, `RupiahCent` and the slice helpers against reference
   definitions.
2. Connections that `NewComposite` leaves open; the result writer of a task; the counters of
   `general.pg.go`; several tables of one run in `GenRepo`.
