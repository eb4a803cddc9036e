----------------------------- MODULE Migration -----------------------------
(***************************************************************************)
(* The migration commands of migration/engine.go: Deploy, which applies    *)
(* the migrations on disk that the database has not recorded, and          *)
(* CreateDevMigration, which writes a new one and applies it.              *)
(*                                                                         *)
(* Each command of the CLI runs in an engine of its own, so several may    *)
(* run at once, each may be killed at any point, and all they share is a   *)
(* directory and a database. An id stands for the name of a migration's    *)
(* directory (local time in seconds and a title); ids are ordered as       *)
(* sort.Strings orders the names. The SQL of a migration is the pair of    *)
(* schemas it was generated from.                                          *)
(***************************************************************************)
EXTENDS Naturals

CONSTANTS
    Procs,    \* engines that run a command, one after the other
    Ids,      \* names of migrations, in the order of sort.Strings
    Schemas,  \* what the schema file may say
    Empty,    \* the schema without a model
    Absent,   \* there is no such file
    Blank,    \* a file without content: created, and not yet written
    Torn,     \* a file that is written in part
    MaxCommands  \* bound: how many commands are run

Migrations == {m \in [from : Schemas, to : Schemas] : m.from # m.to}
Files == Migrations \cup {Absent, Blank, Torn}
Snapshots == Schemas \cup {Absent, Torn}

ASSUME MigrationAssumption ==
    /\ Ids \subseteq Nat /\ Ids # {} /\ MaxCommands \in Nat
    /\ Empty \in Schemas
    /\ Absent \notin Schemas /\ Torn \notin Schemas
    /\ Absent \notin Migrations /\ Blank \notin Migrations /\ Torn \notin Migrations
    /\ Absent # Blank /\ Absent # Torn /\ Blank # Torn

VARIABLES
    dir,    \* directories of migrations
    sql,    \* migration.sql of each
    snap,   \* schema.practor of each
    rows,   \* _practor_migrations
    ran,    \* how often the SQL of a migration took effect
    pc,     \* where a command is; "idle": none runs
    job,    \* its local variables
    out,    \* migrations that the last command reported as applied
    started, \* how many commands were started
    upset   \* history: what may have confused the directory

disk == <<dir, sql, snap>>
base == <<rows, ran>>
history == <<started, upset>>
vars == <<disk, base, pc, job, out, history>>

Row == [id : Ids, sql : Files]
Recorded == {row.id : row \in rows}

\* seen: recorded when the command looked. found: on disk when it looked.
\* todo: found and still to be applied. blank: skipped as empty.
Job == [cmd : {"none", "deploy", "dev"}, target : Schemas, seen : SUBSET Ids,
        found : SUBSET Ids, todo : SUBSET Ids, blank : SUBSET Ids, done : SUBSET Row,
        id : Ids, sql : Files]

NoJob == [cmd |-> "none", target |-> Empty, seen |-> {}, found |-> {}, todo |-> {},
          blank |-> {}, done |-> {}, id |-> CHOOSE i \in Ids : TRUE, sql |-> Absent]

Init ==
    /\ dir = {}
    /\ sql = [i \in Ids |-> Absent]
    /\ snap = [i \in Ids |-> Absent]
    /\ rows = {}
    /\ ran = [i \in Ids |-> 0]
    /\ pc = [p \in Procs |-> "idle"]
    /\ job = [p \in Procs |-> NoJob]
    /\ out = [p \in Procs |-> {}]
    /\ started = 0
    /\ upset = {}

Goto(p, l) == pc' = [pc EXCEPT ![p] = l]
Set(p, j) == job' = [job EXCEPT ![p] = j]

\* MUTANT: the schema is recorded in place of the SQL.
SchemaRow(p) == [id |-> job[p].id, sql |-> job[p].target]
ThisRow(p) == [id |-> job[p].id, sql |-> job[p].sql]

InDev(p) == job[p].cmd = "dev"

\* The command returns, with these migrations or with an error.
Succeed(p, ms) ==
    /\ Goto(p, "idle")
    /\ Set(p, NoJob)
    /\ out' = [out EXCEPT ![p] = ms]

Fail(p) == Succeed(p, {})

\* A dev migration that runs beside another command may be confused by it.
Overlap(c) ==
    \E q \in Procs : pc[q] # "idle" /\ (c = "dev" \/ InDev(q))

Start(p, c) ==
    /\ pc[p] = "idle" /\ started < MaxCommands
    /\ started' = started + 1
    /\ Goto(p, IF c = "dev" THEN "schema" ELSE "applied")
    /\ Set(p, [NoJob EXCEPT !.cmd = c])
    /\ out' = [out EXCEPT ![p] = {}]
    /\ upset' = IF Overlap(c) THEN upset \cup {"overlap"} ELSE upset
    /\ UNCHANGED <<disk, base>>

-----------------------------------------------------------------------------
(* What both commands do                                                    *)

\* discoverMigrations: the directories that hold a migration.sql.
OnDisk == {i \in dir : sql[i] # Absent}

Discover(p) ==
    /\ pc[p] = "discover"
    /\ Goto(p, IF InDev(p) THEN "load" ELSE "next")
    /\ Set(p, [job[p] EXCEPT !.found = OnDisk, !.todo = OnDisk \ job[p].seen])
    /\ UNCHANGED <<disk, base, out, history>>

\* BeginTx and the migration itself, in the transaction.
Apply(p) ==
    /\ pc[p] = "apply"
    /\ Goto(p, "record")
    /\ UNCHANGED <<disk, base, job, out, history>>

\* recordMigrationTx. The primary key makes it wait for a row that is not committed.
Record(p) ==
    /\ pc[p] = "record"
    /\ \A q \in Procs : ~(pc[q] = "commit" /\ job[q].id = job[p].id)
    /\ job[p].id \notin Recorded
    /\ Goto(p, "commit")
    /\ UNCHANGED <<disk, base, job, out, history>>

Committed(p) ==
    /\ rows' = rows \cup {ThisRow(p)}
    /\ ran' = [ran EXCEPT ![job[p].id] = @ + 1]

\* MUTANT: the directory is removed by a defer, which also runs on success.
DevCleaned(p) ==
    /\ Goto(p, "cleanup")
    /\ out' = [out EXCEPT ![p] = {ThisRow(p)}]
    /\ UNCHANGED job
DevDone(p) == Succeed(p, {ThisRow(p)})

\* Deploy goes on with its list, a dev migration returns.
Commit(p) ==
    /\ pc[p] = "commit"
    /\ Committed(p)
    /\ \/ InDev(p) /\ DevDone(p)
       \/ /\ ~InDev(p)
          /\ Goto(p, "next")
          /\ Set(p, [job[p] EXCEPT !.done = @ \cup {ThisRow(p)}])
          /\ UNCHANGED out
    /\ UNCHANGED <<disk, history>>

\* What an error does: Deploy returns; a dev migration removes its directory
\* once migration.sql is written.
Cleans(p) == InDev(p) /\ pc[p] \in {"snapshot", "fillSnapshot", "apply", "record", "commit"}

\* MUTANT: an error of Commit is dropped.
Unchecked(p) ==
    \/ pc[p] = "commit" /\ Succeed(p, {ThisRow(p)})
    \/ pc[p] # "commit" /\ Cleans(p) /\ Goto(p, "cleanup") /\ UNCHANGED <<job, out>>
    \/ pc[p] # "commit" /\ ~Cleans(p) /\ Fail(p)
GiveUp(p) ==
    \/ Cleans(p) /\ Goto(p, "cleanup") /\ UNCHANGED <<job, out>>
    \/ ~Cleans(p) /\ Fail(p)

\* MUTANT: the SQL runs on a connection of its own and is not rolled back.
NotRolledBack(p) ==
    IF pc[p] = "record" THEN [ran EXCEPT ![job[p].id] = @ + 1] ELSE ran
RolledBack(p) == ran

\* A file or the database reports an error; so does Record for a row that is there.
Error(p) ==
    /\ pc[p] \notin {"idle", "fill", "commit", "cleanup"}
    /\ GiveUp(p)
    /\ ran' = RolledBack(p)
    /\ UNCHANGED <<disk, rows, history>>

\* The connection breaks in Commit: it may have committed or not.
CommitError(p) ==
    /\ pc[p] = "commit"
    /\ GiveUp(p)
    /\ \/ Committed(p) /\ upset' = upset \cup {"lost"}
       \/ UNCHANGED <<base, upset>>
    /\ UNCHANGED <<disk, started>>

-----------------------------------------------------------------------------
(* Deploy                                                                   *)

ReadApplied(p) ==
    /\ pc[p] = "applied"
    /\ Goto(p, "discover")
    /\ Set(p, [job[p] EXCEPT !.seen = Recorded])
    /\ UNCHANGED <<disk, base, out, history>>

\* MUTANT: the directories are taken in any order.
AnyOf(s) == s
First(s) == {i \in s : \A j \in s : i <= j}

\* The loop's next directory, read and found empty, or to be applied.
SkipBlank(p) ==
    /\ pc[p] = "next"
    /\ \E i \in First(job[p].todo) :
          /\ sql[i] = Blank
          /\ Set(p, [job[p] EXCEPT !.todo = @ \ {i}, !.blank = @ \cup {i}])
    /\ UNCHANGED <<disk, base, pc, out, history>>

ReadSql(p) ==
    /\ pc[p] = "next"
    /\ \E i \in First(job[p].todo) :
          /\ sql[i] \notin {Absent, Blank}
          /\ Set(p, [job[p] EXCEPT !.todo = @ \ {i}, !.id = i, !.sql = sql[i]])
    /\ Goto(p, "apply")
    /\ UNCHANGED <<disk, base, out, history>>

Finish(p) ==
    /\ pc[p] = "next" /\ job[p].todo = {}
    /\ Succeed(p, job[p].done)
    /\ UNCHANGED <<disk, base, history>>

-----------------------------------------------------------------------------
(* CreateDevMigration                                                       *)

ReadSchema(p) ==
    /\ pc[p] = "schema"
    /\ \E s \in Schemas : Set(p, [job[p] EXCEPT !.target = s])
    /\ Goto(p, "discover")
    /\ UNCHANGED <<disk, base, out, history>>

\* loadPreviousSchemaSnapshot: the newest directory with a snapshot.
\* MUTANT: the loop runs forward.
Oldest(s) == {i \in s : \A j \in s : i <= j}
Latest(s) == {i \in s : \A j \in s : j <= i}

\* What it may return: a schema; of a torn snapshot any one that parses; and of
\* an empty directory nothing, which is generated from as from the empty schema.
Previous(found) ==
    LET with == {i \in found : snap[i] # Absent} IN
    IF found = {} THEN {Empty}
    ELSE UNION {IF snap[i] = Torn THEN Schemas ELSE {snap[i]} : i \in Latest(with)}

NoChanges(p) ==
    /\ pc[p] = "load" /\ job[p].target \in Previous(job[p].found)
    /\ Succeed(p, {})
    /\ UNCHANGED <<disk, base, history>>

LoadSnapshot(p) ==
    /\ pc[p] = "load"
    /\ \E s \in Previous(job[p].found) \ {job[p].target} :
          Set(p, [job[p] EXCEPT !.sql = [from |-> s, to |-> job[p].target]])
    /\ Goto(p, "mkdir")
    /\ UNCHANGED <<disk, base, out, history>>

\* The id is the local time in seconds and a title: it may be that of another
\* migration, or sort before one (a clock that is set back, another title).
MakeDir(p) ==
    /\ pc[p] = "mkdir"
    /\ \E i \in Ids :
          /\ Set(p, [job[p] EXCEPT !.id = i])
          /\ dir' = dir \cup {i}
          /\ upset' = IF \E j \in dir : i <= j THEN upset \cup {"order"} ELSE upset
    /\ Goto(p, "create")
    /\ UNCHANGED <<sql, snap, base, out, started>>

CreateSql(p) ==
    /\ pc[p] = "create" /\ job[p].id \in dir
    /\ sql' = [sql EXCEPT ![job[p].id] = Blank]
    /\ Goto(p, "fill")
    /\ UNCHANGED <<dir, snap, base, job, out, history>>

\* A file that was removed after it was opened is written to no effect.
FillSql(p) ==
    /\ pc[p] = "fill"
    /\ sql' = [sql EXCEPT ![job[p].id] = IF @ = Absent THEN Absent ELSE job[p].sql]
    /\ Goto(p, "snapshot")
    /\ UNCHANGED <<dir, snap, base, job, out, history>>

\* What a write that stopped half-way leaves. Nothing is removed after it.
TornSql(p) ==
    \E f \in {Blank, Torn} :
        sql' = [sql EXCEPT ![job[p].id] = IF @ = Absent THEN Absent ELSE f]

FillFails(p) ==
    /\ pc[p] = "fill"
    /\ TornSql(p)
    /\ Fail(p)
    /\ UNCHANGED <<dir, snap, base, history>>

\* An empty file parses as the empty schema.
CreateSnapshot(p) ==
    /\ pc[p] = "snapshot" /\ job[p].id \in dir
    /\ snap' = [snap EXCEPT ![job[p].id] = Empty]
    /\ Goto(p, "fillSnapshot")
    /\ UNCHANGED <<dir, sql, base, job, out, history>>

FillSnapshot(p) ==
    /\ pc[p] = "fillSnapshot"
    /\ snap' = [snap EXCEPT ![job[p].id] = IF @ = Absent THEN Absent ELSE job[p].target]
    /\ Goto(p, "apply")
    /\ UNCHANGED <<dir, sql, base, job, out, history>>

RemoveAll(p) ==
    /\ pc[p] = "cleanup"
    /\ dir' = dir \ {job[p].id}
    /\ sql' = [sql EXCEPT ![job[p].id] = Absent]
    /\ snap' = [snap EXCEPT ![job[p].id] = Absent]
    /\ Fail(p)
    /\ UNCHANGED <<base, history>>

-----------------------------------------------------------------------------
(* Crashes                                                                  *)

\* What a process that is killed leaves of the step it is in.
CrashLeaves(p) ==
    CASE pc[p] = "fill" ->
             TornSql(p) /\ UNCHANGED <<dir, snap, base>>
      [] pc[p] = "fillSnapshot" ->
             /\ \E s \in {Empty, Torn} :
                   snap' = [snap EXCEPT ![job[p].id] = IF @ = Absent THEN Absent ELSE s]
             /\ UNCHANGED <<dir, sql, base>>
      [] pc[p] = "commit" ->
             (Committed(p) \/ UNCHANGED base) /\ UNCHANGED disk
      [] pc[p] = "cleanup" ->
             /\ sql' \in {sql, [sql EXCEPT ![job[p].id] = Absent]}
             /\ snap' \in {snap, [snap EXCEPT ![job[p].id] = Absent]}
             /\ UNCHANGED <<dir, base>>
      [] OTHER -> UNCHANGED <<disk, base>>

\* PostgreSQL rolls back what it was not told to commit.
Crash(p) ==
    /\ pc[p] # "idle"
    /\ CrashLeaves(p)
    /\ Fail(p)
    /\ UNCHANGED history

Deploy(p) == ReadApplied(p) \/ SkipBlank(p) \/ ReadSql(p) \/ Finish(p)

CreateDevMigration(p) ==
    \/ ReadSchema(p) \/ NoChanges(p) \/ LoadSnapshot(p) \/ MakeDir(p)
    \/ CreateSql(p) \/ FillSql(p) \/ FillFails(p) \/ CreateSnapshot(p) \/ FillSnapshot(p)
    \/ RemoveAll(p)

Transaction(p) == Apply(p) \/ Record(p) \/ Commit(p) \/ CommitError(p)

Next ==
    \E p \in Procs :
        \/ \E c \in {"deploy", "dev"} : Start(p, c)
        \/ Discover(p)
        \/ Deploy(p)
        \/ CreateDevMigration(p)
        \/ Transaction(p)
        \/ Error(p)
        \/ Crash(p)

Spec == Init /\ [][Next]_vars

-----------------------------------------------------------------------------
(* Properties                                                               *)

Locations == {"idle", "applied", "discover", "next", "schema", "load", "mkdir", "create",
              "fill", "snapshot", "fillSnapshot", "apply", "record", "commit", "cleanup"}

\* Every variable has its type, and no command runs where none was started.
TypeOK ==
    /\ dir \subseteq Ids
    /\ sql \in [Ids -> Files]
    /\ snap \in [Ids -> Snapshots]
    /\ rows \subseteq Row
    /\ ran \in [Ids -> Nat]
    /\ pc \in [Procs -> Locations]
    /\ job \in [Procs -> Job]
    /\ out \in [Procs -> SUBSET Row]
    /\ started \in 0..MaxCommands
    /\ upset \subseteq {"overlap", "lost", "order"}

\* The SQL of a migration takes effect exactly if the migration is recorded, and
\* then once, whatever commands run at once, fail or are killed.
AppliedOnce ==
    \A i \in Ids : ran[i] = IF i \in Recorded THEN 1 ELSE 0

\* What a command reports as applied is recorded, with the SQL it applied.
ReportTrue == \A p \in Procs : out[p] \subseteq rows

\* Deploy applies a migration only when all that it found before it are
\* recorded or empty, also when another engine deploys the same directory.
DeployInOrder ==
    \A p \in Procs : job[p].cmd = "deploy" /\ pc[p] \in {"apply", "record", "commit"} =>
        \A i \in job[p].found : i < job[p].id => i \in Recorded \cup job[p].blank

\* A recorded migration stays on disk, with the SQL that was recorded, whatever
\* fails and wherever a command is killed. This needs that no dev migration runs beside
\* another command, that no commit's answer is lost, and that ids grow.
StaysOnDisk ==
    upset = {} => \A row \in rows : row.id \in OnDisk /\ sql[row.id] = row.sql

\* The migrations on disk can be replayed on an empty database, each from the
\* schema at which the one before it ends, up to and with the first whose files are
\* not whole. A crash, or a failed write, between migration.sql and schema.practor
\* leaves such a directory, and there the chain does break: the next migration
\* starts from an older snapshot. A lost answer to a commit breaks nothing.
\* This needs that no dev migration runs beside another command, and that ids grow.
Whole(i) == sql[i] \in Migrations /\ snap[i] = sql[i].to
Previously(j) == {i \in OnDisk : i < j}
Chained ==
    upset \subseteq {"lost"} =>
        \A j \in OnDisk : sql[j] \in Migrations /\ (\A i \in Previously(j) : Whole(i)) =>
            /\ Previously(j) = {} => sql[j].from = Empty
            /\ \A i \in Previously(j) :
                  (\A k \in Previously(j) : k <= i) => sql[j].from = sql[i].to

\* The message of a dev migration that succeeds: "created and applied
\* successfully" (engine.go:341).
CreatedAndApplied ==
    [][\A p \in Procs : InDev(p) /\ out'[p] # {} =>
          \A row \in out'[p] : row \in rows' /\ row.id \in OnDisk']_vars
=============================================================================
