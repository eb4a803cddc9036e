# TLA+ models of Practor

Practor is an ORM for Node.js whose query engine is a Go program. The client
(`packages/client`) spawns the engine (`engine/cmd/practor`) and talks to it in
JSON-RPC, one message per line, over stdin and stdout. The engine runs SQL on
PostgreSQL through `database/sql` and lib/pq. This directory holds TLA+ modules
for the concurrent and failure-prone parts of that system, TLC configurations
that check them on small instances, and TLAPS proofs for all instances.

## The system

| Component | Source | State | Operations | Interacts with |
|---|---|---|---|---|
| Transaction store | `engine/internal/query/engine.go` 468-603 | `txStore` under `txMu`, entries `{tx, timer}` | begin, commit, rollback, execute in transaction, expiry | handlers call it from many goroutines; timers call back into it; `database/sql` owns the connections |
| JSON-RPC server | `engine/internal/protocol/server.go`, `cmd/practor/main.go` | `handlerSlots`, `wg`, `writeMu`, the context | read a line, dispatch, answer, end on EOF, error, signal or `shutdown` | starts a goroutine per request, which runs a handler of `protocol/handler.go` |
| Engine manager | `client/src/runtime/engine.ts` | `state`, `process`, `requestId`, `pending` | `start`, `stop`, `request`, callbacks for lines, exit, error, timers | owns the engine process; every client call goes through `request` |
| Client transactions | `client/src/runtime/client.ts` 390-603 | `connected`, delegates, `txId` of a running transaction | batch and interactive `$transaction` | sends begin, statements, commit or rollback as separate requests |
| Query executors | `query/engine.go` 51-440, 605-1429 | none of their own | find, create, update, delete, upsert, count, aggregate, paginate, load relations | several SQL statements per call |
| SQL builder | `query/builder.go`, `client/src/runtime/sql.ts` | the argument list being built | one builder per statement | pure |
| Migration engine | `engine/internal/migration/engine.go` | directory of migrations, table `_practor_migrations`, the schema of the database | status, deploy, dev migration, diff | called once per command by the CLI, which starts an engine for it |
| Connector | `engine/internal/connector` | the `sql.DB` pool | query, execute, begin, scan rows | `database/sql` |
| Middleware | `client/src/runtime/middleware.ts` | list of functions | `use`, `execute` | wraps every delegate call |
| Schema | `engine/internal/schema` | none | lex, parse, resolve, validate | pure |
| Generator, CLI, benchmarks | `packages/generator`, `packages/cli`, `benchmarks` | files | write text, call the engine once | |

What is hard in it:

* **Races for a transaction.** A commit, a rollback, the expiry timer, a
  signal and statements of several requests meet on one `sql.Tx`. The store
  drops its lock between looking an entry up and using it, and reads
  `entry.timer` without the lock.
* **Counting.** The semaphore `handlerSlots`, the `WaitGroup` and the
  connection pool must come out even on every path.
* **Late and lost answers.** A request may time out at the client and be
  executed all the same; a process may outlive its `stop` and write to the same
  object as its successor.
* **Crashes between steps.** A dev migration writes a directory, two files and
  a database transaction one after the other.
* **Two statements that should be one.** Pagination counts and then selects;
  relations are loaded after the rows they belong to, level by level.
* **A schema known three times.** The schema file, the snapshot of the newest
  migration and the database drift apart through edits, pushes, refused
  migrations, and SQL whose statements come in the random order of Go maps.

`PROJECT.json` lists every hazard at its line, with the properties that cover
it.

## Modules

| Module | What it is |
|---|---|
| `TxAbstract` | what the transaction API promises: begin once, end once, all writes or none, truthful success |
| `TxStore` | the transaction store with handlers, timers, pool limit and cancellation; implements `TxAbstract` |
| `TxStoreProofs` | its inductive invariant, its safety properties and the refinement, proved |
| `RpcServer` | the server's reader, its goroutines, slots, WaitGroup, signals and exits |
| `RpcServerProofs` | its inductive invariant and safety properties, proved |
| `EngineManager` | the client's engine object with an old and a new process |
| `EngineManagerProofs` | its inductive invariant and safety properties, proved |
| `Migration` | the commands `migrate deploy` and `migrate dev` of several engines over one directory and one database |
| `MigrationProofs` | its inductive invariants: what the database sees, and what the directory holds, proved |
| `ClientTx` | `$transaction` of the client, over `TxAbstract` with requests that wait in between |
| `ClientTxProofs` | its inductive invariant and safety properties, proved |
| `Pagination` | `paginate` and `cursorPaginate` statement by statement, with an included list of children, beside writers |
| `PaginationProofs` | how far pages can drift apart, by cursor and by number, and their children, proved |
| `SchemaChange` | what `db push` and `migrate dev` make of a schema file that changes: diff, SQL, and its effect on the tables |
| `SchemaChangeProofs` | what every text of a migration is and does, in any order, and the safety properties, proved |
| `Relations` | the executors that return rows, with `include` and nested `select` of any depth, beside writers |
| `RelationsProofs` | its inductive invariant, and that included relations are exact, proved |
| `MC*` | constants and bounds for TLC |

In every module a definition marked `MUTANT` is a plausible bug. It is not
used by the model; `PROJECT.json` names, for each property, the definition it
replaces to show that the property notices.

### TxStore

An *actor* is a handler goroutine or the goroutine of a transaction's expiry
timer. `pc` says where it is in `BeginTransaction`, `takeTransaction` and what
follows, or `ExecuteInTransaction`. Each critical section of `txMu` is one
step, and so is each action outside it (`BeginTx`, `time.AfterFunc`, the unlocked
read of `entry.timer`, `Commit`, `Rollback`, a statement, the scan of its rows).

| Code | Model |
|---|---|
| `e.txStore` | `txStore`, the set of ids in the map |
| `entry.timer != nil`, the runtime timer | `timerField`, `timer` |
| `entry.tx` | `sqlTx`, `aborted`, `written` |
| the database | `db`, the set of committed writes |
| `ctx` of the server | `ctxDone` |
| what the client has learnt | `known`, `acked`, `told` |

`database/sql` and PostgreSQL are modelled as the code uses them: an open
transaction owns a pooled connection (`MaxOpenConns`); it ends once and answers
`ErrTxDone` afterwards; `Commit` refuses when its context is done; ending waits
for rows that are being read, which ending also closes; a watcher rolls back
when the context is done; a failed statement dooms the transaction; a
connection lost while committing leaves either outcome. A statement is an abstract write
whatever its action is; a statement that reads is one whose write nobody looks
at. A handler that runs several statements for one request is one that sends
several requests. An id is a new UUID: which one does not matter, only whether its
transaction has a timeout (`NewIds`), and `MaxRequests` bounds the begins and
statements together.

### RpcServer

`reader` is where `Start` is: at the first select, in `ReadBytes`, at the
select for a slot, or in `wg.Wait()`. `gor[r]` is where the goroutine of request
`r` is, with its two deferred calls as steps of their own. Requests differ only in `Kind`:

* `prompt` is answered without the database: not JSON, refused for its version or
  method, or handled without it, as `schema.parse` is;
* `query` waits for the database: for an answer, or for a pooled connection
  (query/engine.go:473), which it gets when others give theirs back. Its handler need not return:
  transactions without a timeout that nobody ends pin their connections for ever, and the context
  is cancelled by a signal only, not by EOF;
* `shutdown` exits the process in the middle of everything else, and a `blank` line is skipped.

`Respond` stands for the returns of `handleMessage` and for `writeResponse`: each writes one line.
`answers[r]` says whether that line has the id of the request or 0, as for a request that is not
JSON and for a result that `json.Marshal` refuses (server.go:130-134): the client cannot tell whose that
answer is. The properties below count a line with id 0 as written, not as received. A last line that
EOF leaves unterminated is never sent in the model: `ReadBytes` drops it.

* `DrainedOnEOF`: at EOF `Start` returns only after a line was written for everything it read.
* `EventuallyAnswered`: nothing but queries that wait for the database uses up the slots.
* `EOFStops`: closing stdin stops the process, **unless** a query waits for the database for ever.

### EngineManager

Each callback of the event loop (a line, exit, error, a timer) is a step. What
follows `await this.request("shutdown")` in `stop` is a step of its own
(`Kill`, `KillNothing`) that runs before the next callback; user code runs
before it only in a turn that began with `exit` or `error`, whose listeners and
rejected promises are user code. The processes are seen from outside: they
boot, answer in any order, and exit at any time, and what they wrote can be read
after they exited. `Procs` bounds how often an engine is spawned and
`MaxRequests` how many requests are sent. An application that does not listen
to `error` is ended by Node when a spawn fails; the model has the one that does. Writing
to the stdin of a process that is gone (EPIPE) is a write that is never answered.

### Migration

A command runs in an engine of its own, which the CLI starts for it. `pc[p]` is
where the command of engine `p` is, `job[p]` are its local variables, `out[p]`
what it reports in the end. Each system call on a file and each round trip to
the database is a step: `os.WriteFile` is two, because it makes an empty file first and a
reader may come in between.

| Code | Model |
|---|---|
| the directories under `migrations` | `dir`, `sql` and `snap` |
| `_practor_migrations` | `rows`, a set of ids with the SQL recorded |
| what the SQL of a migration did to the database | `ran`, how often it took effect |
| `appliedSet`, `migrationDirs`, `appliedMigrations` | `job.seen`, `job.found` and `job.todo`, `job.done` |
| a migration's name (`20060102150405_title`) | a number: only its order and its being the same matter |
| the SQL between two schemas | the pair of them |

`Error` is any error return, with what it does on the way: `Rollback`, and
for a dev migration `os.RemoveAll`. `FillFails` is the one error that removes
nothing. `CommitError` is a connection that breaks in `Commit`, with either outcome.
`Crash` kills a command at any step, as the timeout of `spawnSync` does; `CrashLeaves` says
what a file that was being written then holds.

Assumed: the SQL of a migration does not end the transaction it runs in (no
`COMMIT` of its own); a command that waits for a lock of another one's DDL is one that
is slow; the primary key of `_practor_migrations` makes an insert wait for an uncommitted
row of the same id. `MakeDir` may pick any id, the one in use and those before it too: the
clock has seconds, and is local time. Some properties need better luck than
that, and `upset` remembers what went wrong: `overlap` (a dev migration ran beside
another command), `lost` (a commit took effect and was answered with an
error), `order` (an id that is not the newest).

* `AppliedOnce`, `ReportTrue` and `DeployInOrder` hold whatever goes wrong.
* `StaysOnDisk` holds while nothing in `upset` happened. After a commit whose
  answer is lost, `os.RemoveAll` deletes a migration that is recorded
  (engine.go:333).
* `Chained` holds while there was neither `overlap` nor `order`, and up to the first directory
  whose files are not whole (`Whole`). A command that is killed, or whose write of `migration.sql` fails,
  leaves such a directory; the next migration starts from an older snapshot, and from
  there on the directory cannot be replayed. A lost answer to a commit breaks nothing here.

### ClientTx

A call of `$transaction` is given a list (it is in `batches`) or a callback. Its
requests are numbered as a batch sends them: `Begin`, the operations, `Commit`,
and then `Rollback`; `Raw` is a raw SQL method. `cli[c][r]` is what the client
knows of a request, `srv[c][r]` what an engine did with it, and the two drift
apart when an answer is late or lost. `Connect` starts a new process whether or not the one
before is gone, so several may run (`live`), each with the requests it was sent (`queue[e]`) and the
transactions it holds (`store[e]`). There is no program counter: where a call
is follows from what was sent and answered, as in the code, where it is the
`await` it stands at.

| Code | Model |
|---|---|
| a request in `PractorEngine.pending` | `cli[c][r] = "waiting"` |
| a request in stdin of process `e`, or with a goroutine | `<<c, r>> \in queue[e]` |
| the promise that `$transaction` returned | `outcome[c]` |
| `engine.state = "ready"`, `client.connected` | `ready`, `connected` |
| `engine.process`, and those that still run | `engines`, the last one started, and `live` |
| the transactions of the engines | `TxAbstract`, instantiated with `status`, `written`, `db`; `store[e]` has the ids that process `e` knows |

`TxStore` is shown to implement `TxAbstract`; `ClientTx` uses the steps of `TxAbstract` as its
engine. What goes on inside the store is thus seen once, and what goes wrong between the client and
the store is seen here: answers after their timer, requests executed in another order than sent, an
engine that exits, a client that connects again. `ExecuteInTransaction` may fail
with or without its effect, and `CommitTransaction` may fail after it took effect. `Expire` may end any
open transaction; one without a timeout is one for which it does not happen.

A callback calls methods in any order, need not await them, may catch their
errors and may keep its client for later. Middleware belongs to an operation,
which it may delay; middleware that calls `next` twice is not modelled.

* `ResolvedIsCommitted` and `AllOrNothing` hold whatever is late, lost, or sent to which process.
* `OpenAfterSettled` names what may still be open in a process when the promise has settled: a
  transaction whose begin was answered too late, one whose rollback is on its way, and one
  of a process that the client has given up on (`GivenUp`), to which nobody sends a rollback.

### Pagination

State: the table (`stored`, `rank`) and the foreign keys of the children
(`parent`), the arguments of one walk (`walk`), the locals of the request
(`pc`, `total`, `data`, `page`, `cursor`), and what the client was given.
One walk is enough: two share nothing but the database, which `Write` changes
at every point anyway.

* `CursorPage` is the one statement of `executeFindManyCursorPaginated`: rows
  `After` the cursor, `Size + 1` of them, trimmed, and the next cursor from the
  last row kept.
* `Count`, `Find` and `Load` are the three statements of `paginate` with
  `include`: `BuildCount`, `BuildFindMany`, `BuildRelationQuery`. No transaction
  holds them together, so `Write` may come between any two. `Fail` is the error
  of any of them, after which the client asks for the page again.
* A select returns a set. `FirstOf(S, n)` are the sets that `ORDER BY` and
  `LIMIT n` may return: among ties the database may take any. Null sorts last,
  or first when descending, and no comparison with it is true (`Less`, `Passes`).
* `shown` is whether the column that the engine looks up in the rows was
  selected: the cursor's for `nextCursor`, the referenced one for children.

What is promised and what is not:

* `CursorDrift`. "stays consistent under concurrent writes" (README.md:247) is
  true in this sense: no row is repeated that kept its value, and none is missed
  that nobody wrote, **but** ties with the last row of a page and nulls are missed.
  By a unique column that is never null nothing is missed.
* `OffsetDrift`. Page numbers repeat a row only after an insert, and miss one only
  after a delete or when rows were inserted between the last page's count and
  its select: `has_next` is then older than the page.
* `KidsWithParent`. Children that stay come with their parent, **unless** the
  limit was reached, which all parents of the page share (builder.go:1190), or
  the referenced column was not selected, when the list is empty
  (engine.go:1262).

TLC showed each exception of these three properties to be needed: without any one of
them the property fails. Left out: rows whose order and cursor are different columns
or more than one, the page inside a transaction.

### SchemaChange

`Migration` has the steps of a dev migration and leaves out what its SQL says;
`SchemaChange` has what it says and takes the migration as one step with each of the
outcomes that `Migration` shows it to have:

* `Applied`: it takes effect and is recorded, with its SQL and its snapshot on disk;
* `NotApplied`: nothing is left, because there is no snapshot to compare with, `DiffSchemas` cannot do it,
  nothing changed, a statement is refused, or rows or the connection make it fail;
* `CommitLost`: it takes effect, the answer to COMMIT is lost, and its directory is removed (333);
* `Interrupted`: the process is killed, or a write fails, before it takes effect. `SqlCut` leaves a
  part of `migration.sql` and no snapshot; `SnapshotCut` leaves a part of `schema.practor`, or all
  of it, so that the newest snapshot was never applied, or cannot be read.

`Deploy` executes what was left (`unapplied`, of which there are at most `MaxLeft`). A schema is a sequence of
models with fields (those that are columns) and of enums. A foreign key is one column that
refers to the primary key (`Key`, an integer column) or to a unique column.

| Code | Model |
|---|---|
| `schema.practor` of the project | `file` |
| `schema.practor` of the newest migration | `snapshot` |
| tables and types of the database | `db`: per table its columns with type, NOT NULL, UNIQUE, default, and the column referred to |
| migrations on disk that the database has not seen | `unapplied` |
| there are migrations, and no `schema.practor` (line 270) or one that cannot be parsed | `unreadable` |
| `PushSchema` on its way | `push.sql`, the statements still to execute |
| `DiffSchemas`, `GenerateMigrationSQL` | `GenerateMigrationSQL(from, to)`: the set of all texts, one for each order in which Go may iterate over its maps |
| `buildFullSchemaSQL` | `FullSchema`, and `FirstMigrationSQL`: without semicolons it is `Garbled` unless it is one statement |

`Refused` are the statements that PostgreSQL refuses whatever the rows are: a missing
table or column, a type that text is not cast to, `SERIAL` in an ALTER, a new foreign key to a column that is not
there, is not unique or has another type (`BadReference`), dropping a column that a foreign key of
another column refers to (`Referring`; line 584 has no CASCADE), a type that a foreign key does not allow
(`BadType`). Any statement may also fail (rows, locks, a broken connection, a killed engine). One push runs at a time; migrations and edits happen
in between its statements.

* `MigratedMatches`. A table of the newest snapshot has the columns of its
  model, **unless** (`astray`) a migration found the table there (`CREATE TABLE IF NOT
  EXISTS` leaves it as it is), a model was renamed to another of the same
  table (the table is found there, and then dropped: `DiffSchemas` goes by
  model names, `modelDBName` by table names), an `@map` name or a default changed, which `DiffSchemas`
  does not compare, a migration changed it whose directory is gone or which was deployed
  late (`Strays`), or a snapshot declares it anew that was never applied (`NewlyDeclared`).
* `OrderIrrelevant`. The random order decides nothing, **unless** a new model refers
  to another new one (`NewReference`), when about half of the orders are refused, or both columns of a foreign
  key are dropped or get another type in one migration (`BothEnds`): dropping `post.user_email` and the
  unique `user.email` it refers to succeeds or is refused by the order of the models (414).
* `PushCompletes`. A push that succeeds, after any number that failed in between,
  has completed the schema; tables that were there are as they were
  (README.md:447 and `cli/src/index.ts` 188 say "push schema changes" and "sync").

Assumed (`SchemaAssumption`): a schema gives no two models the same table and no two fields
the same column, and refers only to columns it has. `migrate dev` and `db push` do not call the validator.
Changes of the primary key, foreign keys of several columns and the values of defaults are left out;
`UNIQUE` is made with its column, and `DiffSchemas` does not compare it.

What the model had to follow where names or comments suggest otherwise: the
parser never sets `DBName`, so `@@map` has no effect; an enum is a `TEXT` column without the
CHECK that builder.go:1349 mentions; a column that ALTER adds for `@updatedAt` is NOT NULL without the default that
CREATE TABLE gives it; a reference that is added to a model that exists already makes no foreign key.

### Relations

A *path* is a sequence of relation names: the include inside the include. One
statement reads or writes the rows of the call (`Find`, `Create`, `Update`, `Delete`,
`Upsert`); then `Load(path)` is one execution of `loadRelation`: one statement with `WHERE ... IN`, the grouping
of its rows, their attachment. `Ready` is the order of the code: depth first, and siblings in any order,
because `extractRelationsToLoad` ranges over a map. `Write` is what other clients do between any two
statements, within the constraints of PostgreSQL (`Integrity`).

| Code | Model |
|---|---|
| `model.GetRelationInfo` | `GetRelationInfo`: own key, or the first key of the target that refers to the model |
| rows of a relation query | `loaded[path].rows`: `at` is which row it is, `row` the columns that were selected |
| `parentRow[relInfo.FieldName]` | `Attached(loaded[path], e)` |
| the error of any statement | `Fail` |

`IncludeExact` is the promise of `include`: whatever is written meanwhile, each row is given
exactly the rows its relation means, those written meanwhile aside. It has three
exceptions, all of them in the code:

* two keys between a pair of models: `GetRelationInfo` takes the first and does not
  compare relation names, so `written` and `reviewed` both list the posts written;
* a `select` without the column that the relation starts from: nothing is
  attached (README.md:376-382 shows such a `select` with its relation filled);
* a limit that was reached: it is one `LIMIT` for the children of all rows
  (README.md:354-361 shows `take: 5` below `posts`).

Also as in the code, and not what its names say: a relation without a key on either
side (many-to-many) is skipped; `update` and `delete` change all rows that match
and return the first; `upsert` looks for a row with the new row's value, not with that of `where`; a
`findFirst` with `take` has two LIMITs and is refused, so no request of the model has both; statements of a transaction never load relations. A
create whose include fails is answered with an error and stays (`Fail`).
Keys of several columns (the code uses the first), `skip` and `orderBy` are left out: of a
limited select, any rows may come.

## Runs

| Run | Instance | States | Shows |
|---|---|---|---|
| `txstore_safety` | 3 handlers, a transaction with a timeout and one without, 2 writes, 2 connections, 4 requests, symmetry | 866 292 | `SingleFinisher`, `NoOrphan`, `NoStaleTimer`, `AnswersAreTrue`, `TimerFieldStable`, `Implements` |
| `txstore_liveness` | 2 handlers, 3 transactions with timeouts, 1 write, 1 connection, 3 requests | 422 185 | `TimedTxCloses`, `BeginAnswered` |
| `rpc_server` | 5 requests (one prompt, two queries, blank, shutdown), 2 slots | 426 604 | `SlotsConserved`, `DrainedOnEOF`, `EventuallyAnswered`, `EOFStops` |
| `rpc_graceful` | the same | | a violation: `GracefulShutdown` |
| `engine_manager` | 2 processes, 2 callers, 2 requests | 154 779 | `OwnAnswer`, `PendingGuarded`, `RequestsSettle`, `CallsReturn` |
| `migration` | 2 engines, 3 commands, 3 ids, the empty schema and another, symmetry | 741 445 | `AppliedOnce`, `ReportTrue`, `DeployInOrder`, `StaysOnDisk`, `Chained` |
| `migration_created` | the same | | a violation: `CreatedAndApplied` |
| `client_tx` | 1 call of either kind, 2 operations and raw SQL, 2 engines | 1 151 574 | `ResolvedIsCommitted`, `AllOrNothing`, `OpenAfterSettled`, `Settles` |
| `pagination` | 3 rows, 2 values and null, 2 children, pages of 1, 2 and the default, 3 writes | 2 304 624 | `CursorDrift`, `OffsetDrift`, `KidsWithParent` |
| `schema_change` | 14 schemas over 3 models of 2 tables, 3 commands, 1 migration left unapplied, edits at any point | 2 512 160 | `MigratedMatches`, `OrderIrrelevant`, `PushCompletes` |
| `first_migration` | the same, 1 command | | a violation: `FirstMigrationApplies` |
| `relations` | 3 models, 2 rows each, 8 calls (every executor that returns rows, `findFirst` being `findUnique`; include two deep), 3 writes | 317 022 | `IncludeExact` |

Why the bounds are enough. A race for a transaction needs a commit, a rollback
and the timer at once, and a statement beside them: three handlers and a timer.
Two transactions are needed for writes of one to be mistaken for the other's and
for the pool limit to matter. In `txstore_liveness` a third transaction holds the only connection
while both handlers wait for it in a begin: all slots are taken, nobody can commit, and the timer
must end it. Its ids are finite, so each waiting begin is served in the end whichever of them
`database/sql` picks. Two queries fill two slots, so that everything else has
to wait, and a prompt request leaks a slot that is missed. An engine and its successor, with a request for each, are
what late answers and late exits need. Three migration commands are two that
leave something on disk or in the database, at once or one after the other, and
a third that finds it. Calls of `$transaction` share nothing but the connection,
so one call is enough for TLC, with two operations for a commit to overtake and
a second engine to connect to while the first may still run. A walk needs three rows for a page, a tie with
its end and a page after it, and three writes for a delete, an insert and a
change. `MCInit` lets `paginate` order by id only, which is what `OffsetDrift`
is about. For schemas, two migrations and a push, or two pushes and a migration,
in any order, are enough for the snapshot, the file and the database to be three
different schemas; from a model with one required text field the other schemas
differ by what the code treats in a case of its own: no field, another name,
column, type or default, optional, a list, an enum, a second model that refers
to it, before or after it, or another model of the same table. A relation needs
a row that keeps its key and one that loses it, a level below it, and a write
before, between and after its statements. The proofs cover every other size.

`CHECK_DEADLOCK FALSE` is set for `EngineManager`, where there is nothing left
to do with all processes spawned and all requests sent, for `Migration`, whose
bound `MaxCommands` ends, for `ClientTx`, whose calls are over, for
`Pagination`, whose walk ends, and for `SchemaChange` and `Relations`, whose
bounds and calls end. The other models never stop: transactions can be named
again for ever, and an ended server stutters by `Terminated`.

### Fairness

* `TxStore`: goroutines that can move do (`Begin`, `Exec`, `End`), timers fire,
  `database/sql`'s watcher runs. The Go scheduler and runtime do that. No
  fairness is assumed of clients, of signals, or of a begin failing.
* `RpcServer`: the reader and the goroutines run, except those of queries that wait for the
  database (`Waiting`): with the default timeout of 0 the code does not end the transactions that
  pin the pool. Nothing is assumed of the client, of signals, or of errors of stdin.
* `EngineManager`: continuations run and timers fire. Nothing is assumed of the
  engine process: it may hang.
* `ClientTx`: continuations run, request timers fire, a callback returns or
  throws. Nothing is assumed of the engine.

### What the violations show

* `GracefulShutdown` (server.go:81): when a signal arrives while `Start` has a line and is at the select
  for a slot, it may return without `wg.Wait()`, so running handlers are cut
  off. With all slots taken it must; with a free one, as in the trace, both cases of
  the select are ready and Go takes either. main.go:63 announces a graceful shutdown.
* `CreatedAndApplied` (engine.go:298, 341): two dev migrations of one second have
  the same name if their titles are the same, and the CLI's default title is. One that fails
  removes the directory they share; the other commits and reports success, and there is no file.
* `FirstMigrationApplies` (migration/engine.go:768): the statements of a first migration are
  joined without semicolons, so that it is refused as soon as the schema
  has two enums or models; README.md:448 offers `migrate dev` to create and apply a migration.

Disagreements seen in the models that have no run of their own: a signal does not end
an engine whose client is silent, because the reader stays in `ReadBytes` (server.go:63, against
main.go:164); the ready line of an engine that `stop` has given up sets the state to `ready` with no
process, and the next request dereferences null (engine.ts:182, 249); raw SQL through the client that a callback is given runs
outside its transaction, because the proxy overrides model delegates only (client.ts:483, against 450).

## Proofs

All proofs hold for any constants that satisfy the assumption of the module
(`TxStoreAssumption`, `RpcServerAssumption`, `EngineManagerAssumption`,
`MigrationAssumption`, `ClientTxAssumption`, `PaginationAssumption`, `SchemaAssumption`,
`RelationsAssumption`); TLC evaluates those assumptions in the runs. One theorem has a hypothesis besides:
`OrderDoesNotMatter` takes `NoneApart`, that the value `None`, which stands for a refused text and for no
reference, is neither a catalog nor a column. The runs make `None` a model value; TLC cannot enumerate all catalogs to evaluate it.
Every safety property of the passing runs is proved.

* `TxStoreProofs`. `IInv` adds to the types: `RequestOK` (a handler's request
  fits where it is), `BeginOK` (until it is told to the client an id belongs to the one
  `BeginTransaction` that made it), `TimerOK` (a timer's goroutine exists only
  after it fired; a running timer of a known id is recorded in its entry),
  `DataOK` and `WriterOK` (a write is made in one transaction, and published by its
  commit). `SingleFinisher` is inductive only with `BeginOK`, because a timer
  may take an entry before the client knows the id. `NoStaleTimer` follows
  from `TimerOK`, `AnswersAreTrue` from `DataOK`; `TimerFieldStable` follows
  because the only step that writes `entry.timer` finds the entry in the map,
  and then nobody holds it. `Refinement` maps `BeginTx`, `Run`, the commits and
  the rollbacks to the abstract steps and everything else to stuttering.
* `RpcServerProofs`. `SlotsConserved` counts goroutines, so its step for
  `Dispatch` needs that the line has no goroutine yet: `QueueOK` and `LineOK` say that a
  line is in stdin, with the reader, or has a goroutine, and never two of these.
  `DrainedOnEOF` needs `NothingLost`, that it is nowhere else, `WrittenOK`, that a goroutine past its
  handler has written its line, and `ResultOK`, that `Start` returned with the WaitGroup at zero.
* `EngineManagerProofs`. `OwnAnswer` holds because `requestId` is never reset
  (`IdsOK`), so the entry found for an id is the request that was sent with it.
* `MigrationProofs`. `IInv` adds to the types: `CmdOK` (a command is at a
  step of its own), `InsertOK` (of two commands that hold an uncommitted row none
  has the other's id, nor one that is recorded), `KnownOK` (what a command took
  as recorded is recorded, what it did is) and `LoopOK` (what `Deploy` has
  found is recorded, blank, still to do, or the one at hand, which precedes what is to do).
  `AppliedOnce` follows from `InsertOK` and `DeployInOrder` from `LoopOK`; both need `KnownOK`,
  because `Deploy` decides from what it read at its start.
  About the directory, `DiskInv` adds `Alone` (without `overlap` a dev migration is the only
  command that runs), `AbsentOK` (no file without a directory), `DevOK` (what it has written
  so far), `FreshOK` (what it may have to remove is not recorded) and `DeployOK` (what `Deploy`
  applies is on disk). `Linked` says more than `Chained`, so as to be inductive: every migration, whatever
  lies before it, starts from the newest snapshot that is there. A step of a dev migration
  changes the newest directory only (`NewestChanges`), so every other link of the chain stays, and it
  starts from the newest snapshot, which is the end of the directory before it when that is whole.
* `ClientTxProofs`. `RequestOK` (the client believes in success only what the engine
  did), `QueueOK` (a request waits in one process and a transaction is held by one, and neither in a
  process that is gone), `EngineOK` (what an answer of an engine means), `OrderOK` (a batch has
  all answers before its commit is sent), `OutcomeOK`, `DataOK` and `RollbackOK` (a transaction that is
  still held has its rollback in the queue of its own process, unless that was given up on). `OpenAfterSettled`
  needs `QueueOK` and `RollbackOK`. `AllOrNothing` needs
  all of `RequestOK`, `OrderOK`, `EngineOK` and `DataOK`: published means committed, committed that the commit
  was sent, sent that every operation was answered with success, answered that it was written.
* `PaginationProofs`. `WalkInv` adds to the types: `NoneBehind` (what was returned and kept its
  value does not pass the cursor), `NoneSkipped` (what was neither returned nor
  tied nor null passes it) and `EdgesSeen`. The step is that of `CursorPage`: the last
  row of a page splits the values (`LastSplits`), and when there are no more than `Size` rows the
  select has returned everything after the cursor. `KidsInv` adds `OnlySeen`, that only
  rows that were returned have children attached. `OffsetInv` is about positions: `Position(r)` is the
  number of stored rows that precede `r`. Without inserts, what was returned and is still there lies before
  what the next page skips (`NoneAhead`), because a delete only brings rows forward; without deletes,
  what was not returned lies at or behind it (`NoneMissed`), because an insert only pushes rows back.
  The step is `PageById`: a page by id is exactly the rows whose position is between
  `Skip` and `Skip + Size`, so that a row moves over the edge of a page only if
  something was written before it. The last page has everything when `total` is still
  the number of rows, which is why `raced` is needed.
* `SchemaChangeProofs`. `MigrationText` is about the operators: whatever orders the loops take,
  a text has exactly the statements of the difference, in the order of its loops
  (`IsText`, `Places`). The folds over orders of sets are dealt with by induction on their
  length: `UpTo` is that induction for one set of numbers, which needs no operator as a parameter.
  `Types` is inductive: what is still to push and what a migration executes
  are statements of some schemas (`StatementsOK`, `AnyStatement`), whole texts or parts, and each that is not refused keeps the
  catalog typed and its references closed (`EffectOK`): for `dropTable` that is CASCADE, for
  `dropColumn` that it is refused while a foreign key refers to the column. `PushInv` says that each statement of the pushed
  schema is still to execute or in place. The rest rests on `After(d, E)`, the catalog that the *set* of statements `E`
  leaves, defined without an order: `AfterStep` and `TextLeaves` show that every text leaves it
  if nothing in it is refused, and `RefusalSettled` that a refusal does not depend
  on the order either, if no new table refers to another and no foreign key has both ends dropped or
  retyped (`Free`): then a column that a foreign key needs stays as it is up to the statement that asks for it
  (`KeysSettled`, `ReferringSettled`). So all texts have one result
  (`TextSettled`, `OrderDoesNotMatter`), and the columns of a table after a migration can be read off the difference
  (`LaterMigrated`), which makes `MigratedMatches` inductive together with `Types`: tables
  that fitted the old snapshot fit the new one, pushes only add what is not there, and what a
  lost or late migration changes lies in the tables its text names (`OtherKeeps`, `TextKeeps`), which go astray.
* `RelationsProofs`. `Inductive` adds to `IncludeExact` that tables are typed and obey
  their constraints, that a path is loaded after the one before it, and that loaded rows have the columns
  they are grouped by. `StatementExact` is the heart: one statement
  reads exactly the rows whose key is among the values of the rows at hand, so that grouping by the key
  gives each its own, for which has-one needs that the key is unique. `LoadStep`, `ExecuteStep` and
  `WriteStep` carry it on: a row that is written enters `touched` and is no longer spoken of.

Checked by TLC only: the liveness properties (TLAPS has no rules for `ENABLED`
here), and what the violations show.

## Not modelled

* The text of SQL, of JSON and of the schema language; placeholder numbering; the generator; logging.
* `createMany`, `updateMany`, `deleteMany`, `count`, `aggregate` and `groupBy`: one
  statement that returns a number, or rows that nothing is attached to.
* `migrate.status`, `init`, `generate` and `validate`.
* AND, OR and NOT of `where`: a condition is on one field.
* Middleware as a chain: it keeps no state, and in `ClientTx` it is part of the operation it delays.
* Idle connections and the other settings of the pool.

## Plan

The modules were written in this order: `TxStore`, `RpcServer`,
`EngineManager`, `Migration`, `ClientTx`, `Pagination`, `SchemaChange`, `Relations`. What is left, in the
order in which it would add most:

1. The logical operators of `buildWhere` and the placeholder numbering of builder and
   `sql.ts`, as pure functions against reference definitions.
2. A run of `Relations` with two keys between a pair of models, to show what `GetRelationInfo` takes.
