---------------------------- MODULE SchemaChange ----------------------------
(***************************************************************************)
(* How a change of the schema file reaches the database: db push, which    *)
(* executes CREATE statements one by one; migrate dev, which compares the  *)
(* file with the snapshot of the newest migration, generates SQL for the   *)
(* differences and executes it in one transaction; and migrate deploy,     *)
(* which executes what dev migrations left on disk.  Each outcome of a     *)
(* migration is one step; how it comes about is in Migration.              *)
(*                                                                         *)
(* A schema lists enums and models; a model has a name and fields, those   *)
(* that are columns.  ref is the model, and its column, that a relation    *)
(* field refers to with this field as its foreign key, of one column.  A   *)
(* table is seen by its columns: type, NOT NULL, UNIQUE, default and the   *)
(* column it refers to.  Its primary key, one integer column that no       *)
(* change of the schema touches, is left out.  Other clients write rows,   *)
(* which can make any statement fail.                                      *)
(***************************************************************************)
EXTENDS Naturals, SequencesExt

CONSTANTS
    Schemas,     \* contents of the schema file, as parsed
    TableOf,     \* toSnakeCase of model names: two may be the same table
    None,        \* no schema, default or reference
    Key,         \* the column of every primary key
    MaxCommands, \* bound: pushes and migrations
    MaxLeft      \* bound: migrations that a dev migration leaves without applying them

\* A schema as parsed is a list of enums and a list of models.  Neither migrate dev nor
\* db push validates it; one that gives a table two models, a column two fields, or
\* refers to what it does not declare, is not modelled.
ASSUME SchemaAssumption ==
    /\ MaxCommands \in Nat /\ MaxLeft \in Nat
    /\ \A s \in Schemas :
        /\ s.models \in Seq(ToSet(s.models)) /\ s.enums \in Seq(ToSet(s.enums))
        /\ \A i, j \in DOMAIN s.models :
                TableOf[s.models[i].name] = TableOf[s.models[j].name] => i = j
        /\ \A m \in ToSet(s.models) :
            /\ m.name \in DOMAIN TableOf /\ IsFiniteSet(DOMAIN m.fields)
            /\ \A x, y \in DOMAIN m.fields : m.fields[x].col = m.fields[y].col => x = y
            /\ \A f \in Range(m.fields) :
                    /\ f.optional \in BOOLEAN /\ f.col # Key
                    /\ f.ref # None => \E n \in ToSet(s.models) :
                          /\ f.ref.model = n.name
                          /\ f.ref.column \in {Key} \cup {g.col : g \in Range(n.fields)}

VARIABLES
    file,      \* the schema file
    snapshot,  \* schema.practor of the newest migration that has one
    unreadable,\* there are migrations, but no schema.practor that migrate dev can read
    unapplied, \* SQL of the migrations on disk that the database has not seen
    db,        \* what the catalog of the database says
    push,      \* the last db push: its schema, what it has still to execute, how it ended
    outcome,   \* how the dev migration ended, when it was the last command
    astray,    \* tables whose way is not the one of the snapshots
    made,      \* tables that the pushes of one schema have created
    commands   \* how many there were

vars == <<file, snapshot, unreadable, unapplied, db, push, outcome, astray, made, commands>>

Empty == [tables |-> <<>>, types |-> {}]

Names(s) == {m.name : m \in ToSet(s.models)}
ModelOf(s, n) == CHOOSE m \in ToSet(s.models) : m.name = n
FieldsOf(s, n) == ModelOf(s, n).fields

-----------------------------------------------------------------------------
(* The SQL that is generated                                                *)

\* A list has the type of its elements, an enum is text; SERIAL is an integer
\* that is not null, with a default.
SqlType(f) == IF f.isEnum THEN "String" ELSE f.type
NotNull(f) == \/ f.default = "autoincrement"
              \/ ~f.optional /\ f.default \in {None, "updatedAt"}

\* BuildCreateTable
At(t, c) == [table |-> t, column |-> c]
Column(f) == [type |-> SqlType(f), notNull |-> NotNull(f), default |-> f.default,
              unique |-> f.unique,
              ref |-> IF f.ref = None THEN None ELSE At(TableOf[f.ref.model], f.ref.column)]
Columns(m) == [c \in {f.col : f \in Range(m.fields)} |->
                  Column(CHOOSE f \in Range(m.fields) : f.col = c)]
CreateTable(m) == [kind |-> "createTable", table |-> TableOf[m.name], columns |-> Columns(m)]
DropTable(t) == [kind |-> "dropTable", table |-> t]
CreateType(e) == [kind |-> "createType", type |-> e]
DropType(e) == [kind |-> "dropType", type |-> e]

\* buildColumnDefinition: no reference, and no default for @updatedAt.
Added(f) == [type |-> SqlType(f), notNull |-> NotNull(f), unique |-> f.unique, ref |-> None,
             default |-> IF f.default = "updatedAt" THEN None ELSE f.default]

AddColumn(t, f) == [kind |-> "addColumn", table |-> t, column |-> f.col, as |-> Added(f)]
DropColumn(t, f) == [kind |-> "dropColumn", table |-> t, column |-> f.col]
SetType(t, f) == [kind |-> "setType", table |-> t, column |-> f.col, type |-> SqlType(f),
                  serial |-> f.default = "autoincrement"]
SetNull(t, f) == [kind |-> "setNull", table |-> t, column |-> f.col, notNull |-> ~f.optional]

\* What DiffSchemas compares of a field that both schemas have.
\* MUTANT: a field that becomes optional, or required, is not compared.
OtherType(f, g) == f.type # g.type \/ f.isEnum # g.isEnum
DiffersInType(f, g) == OtherType(f, g) \/ f.list # g.list
Differs(f, g) == OtherType(f, g) \/ f.list # g.list \/ f.optional # g.optional

AlterColumn(t, f, g) ==
    (IF OtherType(f, g) THEN <<SetType(t, g)>> ELSE <<>>)
        \o (IF f.optional # g.optional THEN <<SetNull(t, g)>> ELSE <<>>)

Both(from, to) == Names(from) \cap Names(to)
Alterations(F, G) == {x \in DOMAIN F \cap DOMAIN G : Differs(F[x], G[x])}

\* List columns can be created with their table only.
Unsupported(from, to) ==
    \E n \in Both(from, to) :
        LET F == FieldsOf(from, n)
            G == FieldsOf(to, n)
        IN \/ \E x \in DOMAIN G \ DOMAIN F : G[x].list
           \/ \E x \in Alterations(F, G) : F[x].list \/ G[x].list

\* DiffSchemas iterates over Go maps: each loop takes its elements in any order.
InAnyOrder(S) == {FlattenSeq(o) : o \in SetToSeqs(S)}
Followed(A, B) == {a \o b : a \in A, b \in B}

\* MUTANT: one loop for new and dropped fields.
FieldSqlInOneLoop(from, to, n) ==
    LET F == FieldsOf(from, n)
        G == FieldsOf(to, n)
        t == TableOf[n]
    IN InAnyOrder({<<AddColumn(t, G[x])>> : x \in DOMAIN G \ DOMAIN F}
                  \cup {<<DropColumn(t, F[x])>> : x \in DOMAIN F \ DOMAIN G}
                  \cup {AlterColumn(t, F[x], G[x]) : x \in Alterations(F, G)})
FieldSql(from, to, n) ==
    LET F == FieldsOf(from, n)
        G == FieldsOf(to, n)
        t == TableOf[n]
    IN Followed(InAnyOrder({<<AddColumn(t, G[x])>> : x \in DOMAIN G \ DOMAIN F}),
       Followed(InAnyOrder({<<DropColumn(t, F[x])>> : x \in DOMAIN F \ DOMAIN G}),
                InAnyOrder({AlterColumn(t, F[x], G[x]) : x \in Alterations(F, G)})))

\* The models that both schemas have, one after the other.
FieldChanges(from, to) ==
    LET both == Both(from, to)
        texts == UNION {FieldSql(from, to, n) : n \in both}
    IN UNION {InAnyOrder({c[n] : n \in both}) :
                 c \in {c \in [both -> texts] : \A n \in both : c[n] \in FieldSql(from, to, n)}}

\* GenerateMigrationSQL(DiffSchemas(from, to)): every text it may be.
GenerateMigrationSQL(from, to) ==
    LET creates == {<<CreateTable(ModelOf(to, n))>> : n \in Names(to) \ Names(from)}
        drops == {<<DropTable(TableOf[n])>> : n \in Names(from) \ Names(to)}
        newTypes == {<<CreateType(e)>> : e \in ToSet(to.enums) \ ToSet(from.enums)}
        oldTypes == {<<DropType(e)>> : e \in ToSet(from.enums) \ ToSet(to.enums)}
    IN Followed(Followed(InAnyOrder(creates), InAnyOrder(drops)),
       Followed(FieldChanges(from, to), Followed(InAnyOrder(newTypes), InAnyOrder(oldTypes))))

\* PushSchema and buildFullSchemaSQL: enums first, then models as they are declared.
FullSchema(s) == [i \in DOMAIN s.enums |-> CreateType(s.enums[i])]
                 \o [i \in DOMAIN s.models |-> CreateTable(s.models[i])]

-----------------------------------------------------------------------------
(* PostgreSQL                                                               *)

\* Any type can be made text, but text is not cast to another type by itself.
NoCast(d, s) == d.tables[s.table][s.column].type = "String" /\ s.type # "String"

\* A column of type a can refer to one of type b: integers have common operators, and
\* numbers are cast to a wider type.
Widening == <<"Int", "BigInt", "Decimal", "Float">>
Comparable(a, b) ==
    \/ a = b \/ {a, b} \subseteq {"Int", "BigInt"}
    \/ \E i, j \in DOMAIN Widening : i < j /\ a = Widening[i] /\ b = Widening[j]

\* In a table with these columns, a column of this type can refer to that one.
CanRefer(columns, type, c) ==
    IF c = Key THEN Comparable(type, "Int")
    ELSE c \in DOMAIN columns /\ columns[c].unique /\ Comparable(type, columns[c].type)

\* The foreign key of a new table's column cannot be made.
BadReference(d, s, c) ==
    /\ c.ref # None
    /\ \/ c.ref.table \notin DOMAIN d.tables \cup {s.table}
       \/ ~CanRefer(IF c.ref.table = s.table THEN s.columns ELSE d.tables[c.ref.table],
                    c.type, c.ref.column)

\* The other columns whose foreign keys refer to a column.
Referring(d, t, c) ==
    (UNION {{At(u, x) : x \in {y \in DOMAIN d.tables[u] : d.tables[u][y].ref = At(t, c)}} :
               u \in DOMAIN d.tables}) \ {At(t, c)}

\* With another type, a column could not refer to another one, or be referred to.
BadType(d, s) ==
    LET r == d.tables[s.table][s.column].ref
    IN \/ /\ r \notin {None, At(s.table, s.column)}
          /\ ~Comparable(s.type, IF r.column = Key THEN "Int"
                                 ELSE d.tables[r.table][r.column].type)
       \/ \E a \in Referring(d, s.table, s.column) :
              ~Comparable(d.tables[a.table][a.column].type, s.type)

\* A statement that no rows could make succeed.
Refused(d, s) ==
    LET there == DOMAIN d.tables
        has == s.table \in there /\ s.column \in DOMAIN d.tables[s.table]
    IN CASE s.kind = "garbled"     -> TRUE
         [] s.kind = "createTable" ->
              s.table \notin there /\ \E c \in Range(s.columns) : BadReference(d, s, c)
         [] s.kind = "addColumn"  -> s.table \notin there \/ has
         [] s.kind = "dropColumn" -> s.table \notin there \/ Referring(d, s.table, s.column) # {}
         [] s.kind = "setType"    -> ~has \/ s.serial \/ NoCast(d, s) \/ BadType(d, s)
         [] s.kind = "setNull"    -> ~has
         [] OTHER -> FALSE

\* MUTANT: no CASCADE, and the references stay.
DroppedAlone(tables, t) == Restrict(tables, DOMAIN tables \ {t})
\* DROP TABLE ... CASCADE drops the foreign keys that refer to the table.
Dropped(tables, t) ==
    [u \in DOMAIN tables \ {t} |->
        [c \in DOMAIN tables[u] |->
            IF tables[u][c].ref # None /\ tables[u][c].ref.table = t
            THEN [tables[u][c] EXCEPT !.ref = None] ELSE tables[u][c]]]

\* IF NOT EXISTS: an entry that is there stays as it is.
With(f, x, v) == [y \in DOMAIN f \cup {x} |-> IF y \in DOMAIN f THEN f[y] ELSE v]

Effect(d, s) ==
    CASE s.kind = "createType" -> [d EXCEPT !.types = @ \cup {s.type}]
      [] s.kind = "dropType"   -> [d EXCEPT !.types = @ \ {s.type}]
      [] s.kind = "createTable" -> [d EXCEPT !.tables = With(@, s.table, s.columns)]
      [] s.kind = "dropTable"  -> [d EXCEPT !.tables = Dropped(@, s.table)]
      [] s.kind = "addColumn"  -> [d EXCEPT !.tables[s.table] = With(@, s.column, s.as)]
      [] s.kind = "dropColumn" -> [d EXCEPT !.tables[s.table] =
                                     Restrict(@, DOMAIN @ \ {s.column})]
      [] s.kind = "setType"    -> [d EXCEPT !.tables[s.table][s.column].type = s.type]
      [] s.kind = "setNull"    -> [d EXCEPT !.tables[s.table][s.column].notNull = s.notNull]

\* The text of a migration, in a transaction: None when a statement is refused.
Execute(d, s) == IF d = None \/ Refused(d, s) THEN None ELSE Effect(d, s)
Executed(d, sql) == FoldLeft(Execute, d, sql)

-----------------------------------------------------------------------------
(* The commands                                                             *)

Idle == [schema |-> None, sql |-> <<>>, alone |-> FALSE, status |-> "none"]

Init ==
    /\ file \in Schemas
    /\ snapshot = None
    /\ unreadable = FALSE
    /\ unapplied = <<>>
    /\ db = Empty
    /\ push = Idle
    /\ outcome = "none"
    /\ astray = {}
    /\ made = {}
    /\ commands = 0

Counted == commands < MaxCommands /\ commands' = commands + 1

Edit ==
    /\ file' \in Schemas \ {file}
    /\ outcome' = "none"
    /\ UNCHANGED <<snapshot, unreadable, unapplied, db, push, astray, made, commands>>

\* generateDevMigrationSQL.  buildFullSchemaSQL puts no semicolon between its
\* statements, so only a single one is a text that PostgreSQL can parse.
Garbled == <<[kind |-> "garbled"]>>
FirstMigrationSQL(s) == IF Len(FullSchema(s)) <= 1 THEN FullSchema(s) ELSE Garbled
DevMigrationSQL(from, to) ==
    IF from = None THEN {FirstMigrationSQL(to)} ELSE GenerateMigrationSQL(from, to)

\* The tables that the migration creates, finds, and drops.
Known(from) == IF from = None THEN {} ELSE Names(from)
Creates(from, to) == {TableOf[n] : n \in Names(to) \ Known(from)}
Drops(from, to) == {TableOf[n] : n \in Known(from) \ Names(to)}

\* Tables of fields whose column name (@map) or default changed, which
\* DiffSchemas does not compare.
Overlooked(from, to) ==
    {TableOf[n] : n \in {k \in Known(from) \cap Names(to) :
        LET F == FieldsOf(from, k)
            G == FieldsOf(to, k)
        IN \E x \in DOMAIN F \cap DOMAIN G :
              F[x].col # G[x].col \/ F[x].default # G[x].default}}

\* Tables that CREATE TABLE IF NOT EXISTS finds there already, or that the same
\* migration drops next: a renamed model with the same table.
Found(from, to) == Creates(from, to) \cap (DOMAIN db.tables \cup Drops(from, to))

Applied(d) ==
    /\ db' = d
    /\ snapshot' = file
    /\ outcome' = "applied"
    /\ astray' = (astray \ Drops(snapshot, file))
                    \cup Found(snapshot, file) \cup Overlooked(snapshot, file)
    /\ made' = {}
    /\ push' = [push EXCEPT !.alone = FALSE]
    /\ UNCHANGED <<unreadable, unapplied>>

\* Another way than the snapshots': SQL that belongs to no snapshot, ...
TablesOf(sql) == {s.table : s \in {r \in ToSet(sql) :
                    r.kind \notin {"createType", "dropType", "garbled"}}}
Strays(d, sql) ==
    /\ db' = d
    /\ astray' = astray \cup TablesOf(sql)
    /\ made' = {}
    /\ push' = [push EXCEPT !.alone = FALSE]

\* ... or a snapshot whose SQL is not applied: tables of other models or fields.
NewlyDeclared(from, to) ==
    {TableOf[n] : n \in {k \in Names(to) :
        k \notin Known(from) \/ FieldsOf(from, k) # FieldsOf(to, k)}}

\* The answer to COMMIT is lost: the directory is removed.
CommitLost(d, sql) ==
    /\ Strays(d, sql)
    /\ outcome' = "failed"
    /\ UNCHANGED <<snapshot, unreadable, unapplied>>

\* The process is killed, or an error leaves its files there.
\* While it writes migration.sql: a part of the text, and no snapshot.
SqlCut(sql) ==
    /\ \E text \in {SubSeq(sql, 1, k) : k \in 0 .. Len(sql)} \cup {Garbled} :
            unapplied' = Append(unapplied, text)
    /\ unreadable' = (snapshot = None)
    /\ UNCHANGED <<snapshot, astray>>
\* While it writes schema.practor: a part of it, with whole declarations or not.
SnapshotCut(sql) ==
    /\ unapplied' = Append(unapplied, sql)
    /\ \/ unreadable' = TRUE /\ UNCHANGED <<snapshot, astray>>
       \/ \E s \in {r \in Schemas : IsPrefix(r.models, file.models) /\ IsPrefix(r.enums, file.enums)} :
            /\ snapshot' = s
            /\ astray' = astray \cup NewlyDeclared(snapshot, s)
            /\ UNCHANGED unreadable
Interrupted(sql) ==
    /\ Len(unapplied) < MaxLeft
    /\ outcome' = "interrupted"
    /\ SqlCut(sql) \/ SnapshotCut(sql)
    /\ UNCHANGED <<db, push, made>>

NotApplied(how) ==
    /\ outcome' = how
    /\ UNCHANGED <<db, snapshot, unreadable, unapplied, push, astray, made>>

\* migrate dev: the newest snapshot, the difference, its files, its SQL in a
\* transaction.  Rows, or the connection, can make it fail; then the files are removed.
MigrateDev ==
    /\ Counted
    /\ UNCHANGED file
    /\ IF unreadable THEN NotApplied("noSnapshot")
       ELSE IF snapshot # None /\ Unsupported(snapshot, file) THEN NotApplied("unsupported")
       ELSE \E sql \in DevMigrationSQL(snapshot, file) :
               IF sql = <<>> THEN NotApplied("unchanged")
               ELSE \/ Interrupted(sql)
                    \/ LET d == Executed(db, sql)
                       IN IF d = None THEN NotApplied("refused")
                          ELSE Applied(d) \/ NotApplied("failed") \/ CommitLost(d, sql)

\* migrate deploy: the next migration that the database has not seen, in a
\* transaction.  One that fails changes nothing.
Deploy ==
    /\ Counted
    /\ unapplied # <<>>
    /\ LET d == Executed(db, Head(unapplied)) IN d # None /\ Strays(d, Head(unapplied))
    /\ unapplied' = Tail(unapplied)
    /\ outcome' = "none"
    /\ UNCHANGED <<file, snapshot, unreadable>>

\* handleDbPush: an engine of its own reads the file; its schema may be that of
\* the last push.
StartPush ==
    /\ push.status # "running"
    /\ Counted
    /\ push' = [schema |-> file, sql |-> FullSchema(file), alone |-> TRUE, status |-> "running"]
    /\ made' = IF file = push.schema THEN made ELSE {}
    /\ outcome' = "none"
    /\ UNCHANGED <<file, snapshot, unreadable, unapplied, db, astray>>

\* MUTANT: an error does not end the push.
PushedOn(p) == [p EXCEPT !.sql = Tail(@)]
PushStopped(p) == [p EXCEPT !.status = "failed"]

\* PushSchema: one statement, by itself.
PushStep ==
    /\ push.status = "running"
    /\ push.sql # <<>>
    /\ LET s == Head(push.sql)
       IN \/ /\ ~Refused(db, s)
             /\ db' = Effect(db, s)
             /\ made' = made \cup (DOMAIN db'.tables \ DOMAIN db.tables)
             /\ push' = [push EXCEPT !.sql = Tail(@)]
          \/ /\ push' = PushStopped(push)
             /\ UNCHANGED <<db, made>>
    /\ UNCHANGED <<file, snapshot, unreadable, unapplied, outcome, astray, commands>>

PushDone ==
    /\ push.status = "running"
    /\ push.sql = <<>>
    /\ push' = [push EXCEPT !.status = "pushed"]
    /\ UNCHANGED <<file, snapshot, unreadable, unapplied, db, outcome, astray, made, commands>>

Next == Edit \/ MigrateDev \/ Deploy \/ StartPush \/ PushStep \/ PushDone

Spec == Init /\ [][Next]_vars

-----------------------------------------------------------------------------
(* Properties                                                               *)

ColumnTypes == {SqlType(f) : f \in UNION {Range(m.fields) :
                                m \in UNION {ToSet(s.models) : s \in Schemas}}}

\* Type invariant: the catalog holds tables of typed columns; a foreign key
\* refers to a column that is there (CASCADE).
TypeOK ==
    /\ file \in Schemas /\ snapshot \in Schemas \cup {None} /\ unreadable \in BOOLEAN
    /\ push.status \in {"none", "running", "failed", "pushed"}
    /\ outcome \in {"none", "noSnapshot", "unsupported", "unchanged", "refused", "failed",
                    "interrupted", "applied"}
    /\ \A t \in DOMAIN db.tables : t \in Range(TableOf) /\ \A c \in Range(db.tables[t]) :
            /\ c.type \in ColumnTypes /\ c.notNull \in BOOLEAN
            /\ c.ref # None => /\ c.ref.table \in DOMAIN db.tables
                              /\ c.ref.column \in DOMAIN db.tables[c.ref.table] \cup {Key}
    /\ commands \in 0 .. MaxCommands

\* A column as the field wants it.  A default may leave a required field nullable;
\* of an optional SERIAL it depends on whether it was created or altered.
Fits(c, f) ==
    /\ c.type = SqlType(f)
    /\ c.notNull => ~f.optional \/ f.default = "autoincrement"
    /\ NotNull(f) /\ ~f.optional => c.notNull

\* What migrations produce, in every order of the generated statements and after
\* every sequence of edits, pushes and migrations that are applied, refused, killed
\* or left half written: a table of the snapshot has exactly the columns of its
\* model.  Excepted are the tables that a migration found instead of creating them,
\* or whose model was renamed, or of which an @map name or a default changed
\* (migration/engine.go, DiffSchemas and GenerateMigrationSQL), and those that a
\* migration changed although its directory is gone or it was deployed late (lines
\* 333-335), or that a snapshot declares whose SQL was not executed (308-332).
MigratedMatches ==
    snapshot # None =>
        \A m \in {n \in ToSet(snapshot.models) : TableOf[n.name] \notin astray} :
            LET t == TableOf[m.name]
            IN /\ t \in DOMAIN db.tables
               /\ DOMAIN db.tables[t] = {f.col : f \in Range(m.fields)}
               /\ \A f \in Range(m.fields) : Fits(db.tables[t][f.col], f)

\* A new model that refers to a new model, both without a table.
NewReference(from, to) ==
    LET new == {m \in ToSet(to.models) :
                  m.name \notin Names(from) /\ TableOf[m.name] \notin DOMAIN db.tables}
    IN \E m, n \in new : m # n /\ \E f \in Range(m.fields) : f.ref # None /\ f.ref.model = n.name

\* The columns that the migration drops or gives another type, and a foreign key
\* between two of them.
Reshaped(from, to) ==
    UNION {LET F == FieldsOf(from, n)
               G == FieldsOf(to, n)
           IN {At(TableOf[n], F[x].col) : x \in DOMAIN F \ DOMAIN G}
                \cup {At(TableOf[n], G[x].col) :
                          x \in {y \in DOMAIN F \cap DOMAIN G : OtherType(F[y], G[y])}} :
              n \in Both(from, to)}
BothEnds(from, to) ==
    \E a \in Reshaped(from, to) :
        /\ a.table \in DOMAIN db.tables
        /\ Referring(db, a.table, a.column) \cap Reshaped(from, to) # {}

\* DiffSchemas ranges over maps, so the order of the statements is random: it
\* decides what becomes of the database only when a new model refers to another, or
\* when both columns of a foreign key are dropped or get another type.
OrderIrrelevant ==
    snapshot # None /\ ~Unsupported(snapshot, file)
        /\ ~NewReference(snapshot, file) /\ ~BothEnds(snapshot, file)
        => Cardinality({Executed(db, sql) : sql \in GenerateMigrationSQL(snapshot, file)}) = 1

\* db push is not a transaction (PushSchema): one that failed leaves part of the
\* schema.  Repeated until it answers success it has completed the schema, with
\* what the failed ones created, unless a migration changed the database meanwhile.
PushCompletes ==
    push.status = "pushed" /\ push.alone =>
        /\ ToSet(push.schema.enums) \subseteq db.types
        /\ \A m \in ToSet(push.schema.models) :
              /\ TableOf[m.name] \in DOMAIN db.tables
              /\ TableOf[m.name] \in made => db.tables[TableOf[m.name]] = Columns(m)

\* README.md:448, "Create and apply a new migration (development)": the first one,
\* on an empty database, of a schema that refers only to what it declares before.
\* buildFullSchemaSQL's text is refused unless it is a single statement.
FirstMigrationApplies ==
    outcome = "refused" /\ snapshot = None /\ db = Empty
        => Executed(db, FullSchema(file)) = None

=============================================================================
