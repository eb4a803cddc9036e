----------------------------- MODULE Relations -----------------------------
(***************************************************************************)
(* The executors of queries and of writes of one record, with include and  *)
(* nested select: a statement reads or writes its rows, by itself; then,   *)
(* for each relation asked for, in the random order of a Go map and depth  *)
(* first, one WHERE ... IN reads the related rows of all of them, which    *)
(* are grouped by the key and attached.  Each statement sees what other    *)
(* clients have written by then.                                           *)
(*                                                                         *)
(* A path, a sequence of relation names, stands for a relation that is     *)
(* asked for; the empty path is the call itself.  Of a  model the scalar   *)
(* fields are kept, and its relation fields in their order, with the key   *)
(* (fields and references of @relation) if they hold one.                  *)
(***************************************************************************)
EXTENDS Integers, Sequences, FiniteSets

CONSTANTS
    Scalars,    \* of each model, the scalar fields; "id" is one of them
    Fields,     \* of each model, the relation fields
    Unique,     \* of each model, the fields with @id or @unique
    Data,       \* the tables to begin with
    Requests,   \* [action, model, args, data, update]; args: of each path
                \* [select, where, take]; data, update: values of some fields
    Values,     \* of columns
    None,       \* null, and an argument or a key that is not there
    MaxWrites   \* bound: writes of other clients

Models == DOMAIN Scalars
FieldsOf(m) == {Fields[m][i] : i \in DOMAIN Fields[m]}
Rows(m) == [Scalars[m] -> Values \cup {None}]
Typed(t) == t = [m \in Models |-> t[m]] /\ \A m \in Models : t[m] \subseteq Rows(m)

\* What PostgreSQL keeps true of tables: unique columns and foreign keys.
Integrity(t) ==
    \A m \in Models :
        /\ \A r, s \in t[m] : \A x \in Unique[m] : r[x] = s[x] /\ r[x] # None => r = s
        /\ \A r \in t[m] : r["id"] # None
        /\ \A f \in FieldsOf(m) : f.fk # None =>
              \A r \in t[m] : r[f.fk] # None => \E s \in t[f.target] : s[f.ref] = r[f.fk]

ASSUME RelationsAssumption ==
    /\ \A m \in Models :
          /\ "id" \in Scalars[m] \cap Unique[m]
          /\ Fields[m] \in Seq([name : STRING, target : Models, list : BOOLEAN,
                                fk : Scalars[m] \cup {None}, ref : STRING \cup {None},
                                pair : STRING])
          /\ \A f, g \in FieldsOf(m) : f.name = g.name => f = g
          /\ \A f \in FieldsOf(m) : f.fk # None => f.ref \in Unique[f.target]
          /\ Unique[m] \subseteq Scalars[m]
    /\ \A t \in Data : Typed(t) /\ Integrity(t)
    /\ \A q \in Requests :
          /\ q.model \in Models
          /\ \A path \in DOMAIN q.args : q.args[path].take \in Nat \cup {None}
          /\ \A x \in DOMAIN q.data : q.data[x] \in Values \cup {None}
          /\ \A x \in DOMAIN q.update : q.update[x] \in Values \cup {None}
    /\ None \notin Values /\ MaxWrites \in Nat

VARIABLES
    tables,   \* of each model, the rows in the database
    request,  \* the call that is executed
    loaded,   \* of the paths loaded so far: model, relation field, its columns, rows
    status,   \* "loading", "returned" or "failed"
    touched,  \* <<model, id>> of the rows written since the query began
    writes    \* how many

vars == <<tables, request, loaded, status, touched, writes>>

Front(path) == SubSeq(path, 1, Len(path) - 1)
Last(path) == path[Len(path)]
Before(p, path) == Len(p) <= Len(path) /\ \A i \in 1 .. Len(p) : p[i] = path[i]

-----------------------------------------------------------------------------
(* The relation that a field stands for                                     *)

\* The fields of the target whose key refers to m.
KeysTo(m, t) == {i \in DOMAIN Fields[t] : Fields[t][i].target = m /\ Fields[t][i].fk # None}

NotFound == [found |-> FALSE]

\* GetRelationInfo: the column of the rows at hand and that of the related rows.
\* Without a key of its own, the field is taken for the other side of the first
\* key of the target; relation names are not compared.
GetRelationInfo(m, f) ==
    IF f.fk # None
    THEN [found |-> TRUE, own |-> f.fk, other |-> f.ref, belongsTo |-> TRUE, list |-> FALSE]
    ELSE IF KeysTo(m, f.target) = {} THEN NotFound
    ELSE LET first == CHOOSE i \in KeysTo(m, f.target) :
                         \A j \in KeysTo(m, f.target) : i <= j
             g == Fields[f.target][first]
         IN [found |-> TRUE, own |-> g.ref, other |-> g.fk, belongsTo |-> FALSE,
             list |-> f.list]

-----------------------------------------------------------------------------
(* Statements                                                               *)

\* buildSelectColumns
Columns(m, select) ==
    IF select = None \/ select \cap Scalars[m] = {} THEN Scalars[m] ELSE select \cap Scalars[m]

\* MUTANT: the key column is not added to a nested select.
AsSelected(m, select, key) == Columns(m, select)
WithKey(m, select, key) == Columns(m, select) \cup {key}

\* A row as scanned; at tells which one it is, whatever was selected.
Scanned(r, columns) == [at |-> r["id"], row |-> [x \in columns |-> r[x]]]

Matches(r, where) == where = None \/ r[where.field] = where.value

\* LIMIT, for all rows together.
Limited(rows, take) ==
    IF take = None \/ Cardinality(rows) <= take THEN {rows}
    ELSE {some \in SUBSET rows : Cardinality(some) = take}

\* A column that was not selected reads as nil.
Read(row, x) == IF x \in DOMAIN row THEN row[x] ELSE None

\* collectParentValues
ParentValues(rows, x) == {Read(e.row, x) : e \in rows} \ {None}

\* What is attached to e: the rows with its value, or the first of them.
Group(l, e) ==
    {k \in l.rows : /\ Read(k.row, l.info.other) = Read(e.row, l.info.own)
                    /\ l.info.belongsTo => Read(e.row, l.info.own) # None}
Attached(l, e) ==
    LET group == Group(l, e)
    IN IF l.info.list \/ group = {} THEN group ELSE {CHOOSE k \in group : TRUE}

-----------------------------------------------------------------------------
(* The call                                                                 *)

Init ==
    /\ tables \in Data
    /\ request \in Requests
    /\ loaded = <<>>
    /\ status = "loading"
    /\ touched = {}
    /\ writes = 0

Paths == DOMAIN request.args
Loaded(path, l) == loaded' = [p \in DOMAIN loaded \cup {path} |-> IF p = path THEN l ELSE loaded[p]]

Selected(m) == {r \in tables[m] : Matches(r, request.args[<<>>].where)}

\* The statement of the call: rows is what it returns, now the table after it.
Execute(rows, now) ==
    /\ status = "loading" /\ <<>> \notin DOMAIN loaded
    /\ tables' = [tables EXCEPT ![request.model] = now] /\ Integrity(tables')
    /\ Loaded(<<>>, [model |-> request.model, field |-> None, info |-> NotFound,
                     rows |-> {Scanned(r, Columns(request.model, request.args[<<>>].select)) :
                                  r \in rows}])
    /\ UNCHANGED <<request, status, touched, writes>>

\* executeFindMany, executeFindUnique and executeFindFirst.
Find ==
    /\ request.action \in {"findMany", "findUnique", "findFirst"}
    /\ LET m == request.model
           take == IF request.action = "findMany" THEN request.args[<<>>].take ELSE 1
       IN \E rows \in Limited(Selected(m), take) : Execute(rows, tables[m])

\* The rows that an INSERT of data may make.
Inserted(m, data) ==
    {r \in Rows(m) : \A x \in Scalars[m] \ ({"id"} \ DOMAIN data) :
                        r[x] = IF x \in DOMAIN data THEN data[x] ELSE None}
Updated(r, data) == [x \in DOMAIN r |-> IF x \in DOMAIN data THEN data[x] ELSE r[x]]

Create ==
    /\ request.action = "create"
    /\ LET m == request.model
       IN \E r \in Inserted(m, request.data) \ tables[m] : Execute({r}, tables[m] \cup {r})

\* UPDATE and DELETE are for all rows that match; the first is returned.
Update ==
    /\ request.action = "update"
    /\ LET m == request.model
           now == {Updated(s, request.data) : s \in Selected(m)}
       IN \E r \in now : Execute({r}, (tables[m] \ Selected(m)) \cup now)

Delete ==
    /\ request.action = "delete"
    /\ LET m == request.model
       IN \E r \in Selected(m) : Execute({r}, tables[m] \ Selected(m))

\* INSERT ... ON CONFLICT: a row with the new row's value in the field of where,
\* whatever where's own value is, is updated instead.
Upsert ==
    /\ request.action = "upsert"
    /\ LET m == request.model
           field == request.args[<<>>].where.field
           Same(r) == {s \in tables[m] : s[field] = r[field] /\ r[field] # None}
       IN \E r \in Inserted(m, request.data) :
             IF Same(r) = {} THEN r \notin tables[m] /\ Execute({r}, tables[m] \cup {r})
             ELSE \E s \in Same(r) : LET u == Updated(s, request.update) IN
                     Execute({u}, (tables[m] \ {s}) \cup {u})

\* resolveRelationsForRows has begun the relations of p and not ended them.
Open(p) == \E path \in Paths \ DOMAIN loaded : Before(p, path)

Ready(path) ==
    /\ status = "loading"
    /\ path \in Paths \ DOMAIN loaded
    /\ path # <<>> /\ Front(path) \in DOMAIN loaded
    /\ \A p \in DOMAIN loaded : Open(p) => Before(p, Front(path))

\* BuildRelationQuery and BuildBelongsToQuery; the latter has no LIMIT.
Related(m, info, values, a) ==
    Limited({Scanned(r, WithKey(m, a.select, info.other)) :
                r \in {s \in tables[m] : s[info.other] \in values /\ Matches(s, a.where)}},
            IF info.belongsTo THEN None ELSE a.take)

\* loadHasManyOrHasOne and loadBelongsTo.  A relation that GetRelationInfo does
\* not find is skipped, and without a value there is no statement.
Load(path) ==
    /\ Ready(path)
    /\ LET from == loaded[Front(path)]
           a == request.args[path]
       IN \E f \in FieldsOf(from.model) :
            LET info == GetRelationInfo(from.model, f)
                Rel(rows) == [model |-> f.target, field |-> f, info |-> info, rows |-> rows]
            IN /\ f.name = Last(path)
               /\ IF ~info.found THEN Loaded(path, Rel({}))
                  ELSE \E rows \in Related(f.target, info, ParentValues(from.rows, info.own), a) :
                          Loaded(path, Rel(rows))
    /\ UNCHANGED <<tables, request, status, touched, writes>>

Return ==
    /\ status = "loading"
    /\ Paths \subseteq DOMAIN loaded
    /\ status' = "returned"
    /\ UNCHANGED <<tables, request, loaded, touched, writes>>

\* A statement fails, or no row is there to update: the call is answered with the
\* error, also when what it has written stays.
Fail ==
    /\ status = "loading"
    /\ status' = "failed"
    /\ UNCHANGED <<tables, request, loaded, touched, writes>>

\* Another client inserts, updates or deletes a row.
Write ==
    /\ status = "loading"
    /\ writes < MaxWrites
    /\ writes' = writes + 1
    /\ \E m \in Models : \E r \in Rows(m) :
          LET others == {s \in tables[m] : s["id"] # r["id"]}
          IN /\ \E now \in {others, others \cup {r}} : tables' = [tables EXCEPT ![m] = now]
             /\ Integrity(tables') /\ tables' # tables
             /\ touched' = touched \cup {<<m, r["id"]>>}
    /\ UNCHANGED <<request, loaded, status>>

Next ==
    \/ Find \/ Create \/ Update \/ Delete \/ Upsert
    \/ \E path \in Paths : Load(path)
    \/ Return \/ Fail \/ Write

Spec == Init /\ [][Next]_vars

-----------------------------------------------------------------------------
(* Properties                                                               *)

\* The key that the schema means by f: its own, or that of the field of the target
\* with the same relation name.
Meant(m, f) ==
    IF f.fk # None THEN [own |-> f.fk, other |-> f.ref]
    ELSE LET g == CHOOSE g \in FieldsOf(f.target) :
                     g.target = m /\ g.fk # None /\ g.pair = f.pair
         IN [own |-> g.ref, other |-> g.fk]

\* The schema leaves no choice: f holds the key, or the only key to m is its own,
\* and that of a single row is unique.
Determinate(m, f) ==
    \/ f.fk # None
    \/ /\ \E g \in FieldsOf(f.target) :
             /\ g.target = m /\ g.fk # None /\ g.pair = f.pair
             /\ ~f.list => g.fk \in Unique[f.target]
       /\ \A i, j \in KeysTo(m, f.target) : i = j

\* take did not cut the related rows off.
NotCut(l, a) == a.take = None \/ l.info.belongsTo \/ Cardinality(l.rows) < a.take

\* What is attached to e, and the rows that the relation relates it to.
Exact(l, e, key, where) ==
    \A id \in Values : <<l.model, id>> \notin touched =>
        ((\E k \in Attached(l, e) : k.at = id)
            <=> \E r \in tables[l.model] : /\ r["id"] = id /\ Matches(r, where)
                                           /\ r[key.other] = e.row[key.own]
                                           /\ e.row[key.own] # None)

\* Whatever is written between the statements: every row gets exactly the rows
\* that its relation relates it to, those written meanwhile aside, provided that
\* the pair of models has one key, the select of the row keeps the column that the
\* relation starts from, and the limit, which all rows share, was not reached
\* (query/engine.go, resolveRelationsForRows).
IncludeExact ==
    \A path \in DOMAIN loaded \ {<<>>} :
        LET from == loaded[Front(path)]
            l == loaded[path]
            a == request.args[path]
            key == Meant(from.model, l.field)
        IN Determinate(from.model, l.field) /\ NotCut(l, a) =>
              \A e \in {k \in from.rows : key.own \in DOMAIN k.row} : Exact(l, e, key, a.where)

=============================================================================
