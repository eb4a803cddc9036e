-------------------------- MODULE RelationsProofs --------------------------
(***************************************************************************)
(* IncludeExact for every schema, database, call and number of writers.    *)
(* It is inductive once it is known that the tables obey their constraints *)
(* and that a path is loaded after the one it hangs from: a statement      *)
(* establishes it for its path from the tables as they are then, and what  *)
(* another client writes later is set aside.                               *)
(***************************************************************************)
EXTENDS Relations, TLAPS

\* The tables are what the schema and the constraints allow.
TablesOK == Typed(tables) /\ Integrity(tables) /\ request \in Requests

\* What is loaded: the call first, then always a path below another.
LoadedOK ==
    /\ <<>> \notin DOMAIN loaded => DOMAIN loaded = {}
    /\ \A path \in DOMAIN loaded \ {<<>>} : Front(path) \in DOMAIN loaded
    /\ \A path \in DOMAIN loaded : loaded[path].model \in Models

\* IncludeExact, of one path whose rows hang from those of from.
ExactOf(from, l, a) ==
    Determinate(from.model, l.field) /\ NotCut(l, a) =>
        \A e \in {k \in from.rows : Meant(from.model, l.field).own \in DOMAIN k.row} :
            Exact(l, e, Meant(from.model, l.field), a.where)

IInv == TablesOK /\ LoadedOK /\ IncludeExact

-----------------------------------------------------------------------------
(* What GetRelationInfo finds                                               *)

\* The fields of a model are indexed by numbers.
LEMMA FieldIndices ==
    ASSUME NEW m \in Models
    PROVE  DOMAIN Fields[m] \subseteq Nat
<1> DEFINE F == [name : STRING, target : Models, list : BOOLEAN,
                 fk : Scalars[m] \cup {None}, ref : STRING \cup {None}, pair : STRING]
<1>1. Fields[m] \in Seq(F)
  BY RelationsAssumption
<1> HIDE DEF F
<1>2. DOMAIN Fields[m] = 1 .. Len(Fields[m]) /\ Len(Fields[m]) \in Nat
  BY <1>1
<1> QED
  BY <1>2

\* The target of a relation field is a model.
LEMMA FieldTypes ==
    ASSUME NEW m \in Models, NEW f \in FieldsOf(m)
    PROVE  f.target \in Models /\ f.list \in BOOLEAN
<1> DEFINE F == [name : STRING, target : Models, list : BOOLEAN,
                 fk : Scalars[m] \cup {None}, ref : STRING \cup {None}, pair : STRING]
<1>1. Fields[m] \in Seq(F)
  BY RelationsAssumption
<1>2. PICK i \in DOMAIN Fields[m] : f = Fields[m][i]
  BY DEF FieldsOf
<1>3. f \in F
  <2> HIDE DEF F
  <2> QED
    BY <1>1, <1>2
<1> QED
  BY <1>3

\* Where the schema leaves no choice, GetRelationInfo finds the key that
\* is meant, and a relation to a single row looks in a unique column.
LEMMA Resolved ==
    ASSUME NEW m \in Models, NEW f \in FieldsOf(m), Determinate(m, f)
    PROVE  /\ GetRelationInfo(m, f).found
           /\ GetRelationInfo(m, f).own = Meant(m, f).own
           /\ GetRelationInfo(m, f).other = Meant(m, f).other
           /\ GetRelationInfo(m, f).belongsTo \in BOOLEAN
           /\ ~GetRelationInfo(m, f).list
                 => GetRelationInfo(m, f).other \in Unique[f.target]
<1>1. f.target \in Models
  BY FieldTypes
<1>2. CASE f.fk # None
  <2>1. f.ref \in Unique[f.target]
    BY <1>2, RelationsAssumption
  <2> QED
    BY <1>2, <2>1 DEF Meant, GetRelationInfo
<1>3. CASE f.fk = None
  <2> DEFINE T == f.target
             K == KeysTo(m, T)
             Ok(g) == g.target = m /\ g.fk # None /\ g.pair = f.pair
             g0 == CHOOSE g \in FieldsOf(T) : Ok(g)
             first == CHOOSE i \in K : \A j \in K : i <= j
  <2>1. PICK h \in FieldsOf(T) : Ok(h) /\ (~f.list => h.fk \in Unique[T])
    BY <1>3 DEF Determinate
  <2>2. \A i, j \in K : i = j
    BY <1>3 DEF Determinate
  <2>3. \A g \in FieldsOf(T) : Ok(g) => \E i \in K : g = Fields[T][i]
    BY DEF FieldsOf, KeysTo
  <2>4. PICK i \in K : h = Fields[T][i]
    BY <2>1, <2>3
  <2>5. g0 \in FieldsOf(T) /\ Ok(g0)
    <3> HIDE DEF Ok
    <3> QED
      BY <2>1
  <2>6. g0 = h
    <3>1. PICK j \in K : g0 = Fields[T][j]
      BY <2>3, <2>5
    <3> QED
      BY <2>2, <2>4, <3>1
  <2>7. first = i
    <3>1. i \in Nat
      <4>1. i \in DOMAIN Fields[T]
        BY DEF KeysTo
      <4> QED
        BY <1>1, <4>1, FieldIndices
    <3>2. \A j \in K : i <= j
      BY <2>2, <3>1
    <3> HIDE DEF K
    <3> QED
      BY <2>2, <3>2
  <2>8. GetRelationInfo(m, f) = [found |-> TRUE, own |-> h.ref, other |-> h.fk,
                                 belongsTo |-> FALSE, list |-> f.list]
    <3>1. K # {}
      OBVIOUS
    <3> QED
      BY <1>3, <2>4, <2>7, <3>1 DEF GetRelationInfo
  <2>9. Meant(m, f) = [own |-> h.ref, other |-> h.fk]
    BY <1>3, <2>6 DEF Meant
  <2> QED
    BY <2>1, <2>8, <2>9
<1> QED
  BY <1>2, <1>3

-----------------------------------------------------------------------------
(* One statement                                                            *)

\* Where the limit was not reached, the statement returns every row that matches.
LEMMA NothingCut ==
    ASSUME NEW S, NEW take \in Nat \cup {None}, NEW rows \in Limited(S, take),
           take = None \/ Cardinality(rows) < take
    PROVE  rows = S
<1>1. CASE take = None
  BY <1>1 DEF Limited
<1>2. CASE take # None
  <2>1. take \in Nat /\ Cardinality(rows) < take
    BY <1>2
  <2>2. Cardinality(rows) # take
    BY <2>1
  <2> QED
    BY <2>2 DEF Limited
<1> QED
  BY <1>1, <1>2

\* What BuildRelationQuery or BuildBelongsToQuery returns, grouped by the key, is
\* exactly what the relation relates to each row.
LEMMA StatementExact ==
    ASSUME TablesOK,
           NEW from, from.model \in Models, NEW f \in FieldsOf(from.model),
           NEW a, a.take \in Nat \cup {None},
           NEW info, info = GetRelationInfo(from.model, f),
           NEW rows \in Related(f.target, info, ParentValues(from.rows, info.own), a)
    PROVE  ExactOf(from, [model |-> f.target, field |-> f, info |-> info, rows |-> rows], a)
<1> DEFINE m == from.model
           t == f.target
           key == Meant(m, f)
           l == [model |-> t, field |-> f, info |-> info, rows |-> rows]
           columns == WithKey(t, a.select, info.other)
           Match == {s \in tables[t] : /\ s[info.other] \in ParentValues(from.rows, info.own)
                                       /\ Matches(s, a.where)}
<1>1. SUFFICES ASSUME Determinate(m, f), NotCut(l, a),
                      NEW e \in from.rows, key.own \in DOMAIN e.row,
                      NEW id \in Values
               PROVE  (\E k \in Attached(l, e) : k.at = id)
                        <=> \E r \in tables[t] : /\ r["id"] = id /\ Matches(r, a.where)
                                                 /\ r[key.other] = e.row[key.own]
                                                 /\ e.row[key.own] # None
  BY DEF ExactOf, Exact
<1>2. /\ info.found /\ info.own = key.own /\ info.other = key.other
      /\ info.belongsTo \in BOOLEAN
      /\ ~info.list => info.other \in Unique[t]
  BY <1>1, Resolved
<1>3. t \in Models /\ tables[t] \subseteq Rows(t)
  BY FieldTypes DEF TablesOK, Typed
<1>4. rows = {Scanned(r, columns) : r \in Match}
  <2>1. rows \in Limited({Scanned(r, columns) : r \in Match},
                         IF info.belongsTo THEN None ELSE a.take)
    BY DEF Related
  <2>2. a.take = None \/ info.belongsTo \/ Cardinality(rows) < a.take
    BY <1>1 DEF NotCut
  <2> HIDE DEF Match, columns
  <2> QED
    BY <2>1, <2>2, NothingCut
<1>5. info.other \in columns
  BY DEF WithKey
<1> DEFINE v == e.row[key.own]
<1>6. Read(e.row, info.own) = v
  BY <1>1, <1>2 DEF Read
<1>7. \A r \in Match : /\ Scanned(r, columns).at = r["id"]
                       /\ Read(Scanned(r, columns).row, info.other) = r[info.other]
                       /\ r[info.other] # None
  BY <1>5 DEF Scanned, Read, ParentValues
<1>8. Group(l, e) = {Scanned(r, columns) : r \in {s \in Match : s[info.other] = v}}
  <2>1. Group(l, e) = {k \in rows : /\ Read(k.row, info.other) = v
                                    /\ info.belongsTo => v # None}
    BY <1>6 DEF Group
  <2> HIDE DEF Match, columns, v
  <2> QED
    BY <2>1, <1>4, <1>7
<1>9. \A r \in tables[t] : /\ r["id"] = id /\ Matches(r, a.where)
                           /\ r[key.other] = v /\ v # None
         <=> r \in Match /\ r["id"] = id /\ r[info.other] = v
  BY <1>1, <1>2, <1>6, <1>7 DEF ParentValues
<1>10. (\E k \in Group(l, e) : k.at = id)
          <=> \E r \in tables[t] : /\ r["id"] = id /\ Matches(r, a.where)
                                   /\ r[key.other] = v /\ v # None
  <2>1. (\E k \in Group(l, e) : k.at = id)
          <=> \E r \in Match : r[info.other] = v /\ r["id"] = id
    <3> HIDE DEF Match, columns, v, l
    <3> QED
      BY <1>7, <1>8
  <2>2. Match \subseteq tables[t]
    OBVIOUS
  <2> HIDE DEF Match, v
  <2> QED
    BY <1>9, <2>1, <2>2
<1>11. Attached(l, e) = Group(l, e)
  <2>1. CASE info.list \/ Group(l, e) = {}
    BY <2>1 DEF Attached
  <2>2. CASE ~info.list /\ Group(l, e) # {}
    <3>1. \A r, s \in tables[t] : r[info.other] = s[info.other] /\ r[info.other] # None => r = s
      <4>1. Integrity(tables)
        BY DEF TablesOK
      <4>2. \A r, s \in tables[t] : \A x \in Unique[t] : r[x] = s[x] /\ r[x] # None => r = s
        BY <1>3, <4>1 DEF Integrity
      <4> QED
        BY <1>2, <2>2, <4>2
    <3>2. \A k, j \in Group(l, e) : k = j
      <4>1. Match \subseteq tables[t]
        OBVIOUS
      <4> HIDE DEF Match, columns, v, l
      <4> QED
        BY <1>7, <1>8, <3>1, <4>1
    <3>3. Attached(l, e) = {CHOOSE k \in Group(l, e) : TRUE}
      BY <2>2 DEF Attached
    <3> HIDE DEF l
    <3> QED
      BY <2>2, <3>2, <3>3
  <2> QED
    BY <2>1, <2>2
<1> QED
  BY <1>10, <1>11

-----------------------------------------------------------------------------
(* The steps                                                                *)

\* The statement of the call loads its root and keeps the constraints.
LEMMA ExecuteStep ==
    ASSUME IInv, NEW rows, NEW now, Execute(rows, now), now \subseteq Rows(request.model)
    PROVE  IInv'
<1> DEFINE m == request.model
<1>1. m \in Models /\ Typed(tables) /\ request \in Requests
  BY RelationsAssumption DEF IInv, TablesOK
<1>2. TablesOK'
  <2>1. tables' = [tables EXCEPT ![m] = now]
    BY DEF Execute
  <2>2. Typed(tables')
    BY <1>1, <2>1 DEF Typed
  <2> QED
    BY <1>1, <2>2 DEF TablesOK, Execute
<1>3. DOMAIN loaded = {}
  BY DEF IInv, LoadedOK, Execute
<1>4. DOMAIN loaded' = {<<>>} /\ loaded'[<<>>].model = m
  BY <1>3 DEF Execute, Loaded
<1>5. LoadedOK'
  BY <1>1, <1>4 DEF LoadedOK
<1>6. IncludeExact'
  BY <1>4 DEF IncludeExact
<1> QED
  BY <1>2, <1>5, <1>6 DEF IInv

\* Loading a path reads the related rows and leaves the other paths alone.
LEMMA LoadStep ==
    ASSUME IInv, NEW path \in Paths, Load(path)
    PROVE  IInv'
<1> DEFINE from == loaded[Front(path)]
           a == request.args[path]
<1>1. /\ path \notin DOMAIN loaded /\ path # <<>> /\ Front(path) \in DOMAIN loaded
      /\ UNCHANGED <<tables, request, status, touched, writes>>
  BY DEF Load, Ready
<1>2. PICK f \in FieldsOf(from.model) : \E rows :
         /\ Loaded(path, [model |-> f.target, field |-> f,
                          info |-> GetRelationInfo(from.model, f), rows |-> rows])
         /\ GetRelationInfo(from.model, f).found =>
               rows \in Related(f.target, GetRelationInfo(from.model, f),
                     ParentValues(from.rows, GetRelationInfo(from.model, f).own), a)
  <2>1. PICK f \in FieldsOf(from.model) :
           LET info == GetRelationInfo(from.model, f)
               Rel(rows) == [model |-> f.target, field |-> f, info |-> info, rows |-> rows]
           IN IF ~info.found THEN Loaded(path, Rel({}))
              ELSE \E rows \in Related(f.target, info, ParentValues(from.rows, info.own), a) :
                      Loaded(path, Rel(rows))
    BY DEF Load
  <2>2. CASE ~GetRelationInfo(from.model, f).found
    BY <2>1, <2>2
  <2>3. CASE GetRelationInfo(from.model, f).found
    BY <2>1, <2>3
  <2> QED
    BY <2>2, <2>3
<1>3. PICK rows :
         /\ Loaded(path, [model |-> f.target, field |-> f,
                          info |-> GetRelationInfo(from.model, f), rows |-> rows])
         /\ GetRelationInfo(from.model, f).found =>
               rows \in Related(f.target, GetRelationInfo(from.model, f),
                     ParentValues(from.rows, GetRelationInfo(from.model, f).own), a)
  BY <1>2
<1> DEFINE info == GetRelationInfo(from.model, f)
           l == [model |-> f.target, field |-> f, info |-> info, rows |-> rows]
<1>4. /\ DOMAIN loaded' = DOMAIN loaded \cup {path}
      /\ loaded'[path] = l
      /\ \A p \in DOMAIN loaded : loaded'[p] = loaded[p]
  <2> HIDE DEF l
  <2> QED
    BY <1>1, <1>3 DEF Loaded, l
<1>5. from.model \in Models /\ f.target \in Models
  BY <1>1, FieldTypes DEF IInv, LoadedOK
<1>6. TablesOK'
  BY <1>1 DEF IInv, TablesOK
<1>7. LoadedOK'
  <2> HIDE DEF from
  <2> QED
    BY <1>1, <1>4, <1>5 DEF IInv, LoadedOK
<1>8. a.take \in Nat \cup {None}
  BY RelationsAssumption DEF IInv, TablesOK, Paths
<1>9. ExactOf(from, l, a)
  <2>1. CASE Determinate(from.model, f)
    <3>1. info.found
      BY <1>5, <2>1, Resolved
    <3>2. rows \in Related(f.target, info, ParentValues(from.rows, info.own), a)
      BY <1>3, <3>1
    <3>3. TablesOK
      BY DEF IInv
    <3> HIDE DEF from, a, info
    <3> QED
      BY <1>5, <1>8, <3>2, <3>3, StatementExact DEF info
  <2>2. CASE ~Determinate(from.model, f)
    BY <2>2 DEF ExactOf
  <2> QED
    BY <2>1, <2>2
<1>10. IncludeExact'
  <2>1. SUFFICES ASSUME NEW p \in DOMAIN loaded' \ {<<>>}
                 PROVE  ExactOf(loaded'[Front(p)], loaded'[p], request'.args[p])
    BY <1>1 DEF IncludeExact, ExactOf, Exact
  <2>2. CASE p = path
    <3>1. loaded'[Front(p)] = from /\ loaded'[p] = l /\ request'.args[p] = a
      BY <1>1, <1>4, <2>2
    <3> HIDE DEF from, l, a
    <3> QED
      BY <1>9, <3>1
  <2>3. CASE p # path
    <3>1. p \in DOMAIN loaded /\ Front(p) \in DOMAIN loaded
      BY <1>4, <2>1, <2>3 DEF IInv, LoadedOK
    <3>2. loaded'[Front(p)] = loaded[Front(p)] /\ loaded'[p] = loaded[p] /\ request' = request
      BY <1>1, <1>4, <3>1
    <3>3. ExactOf(loaded[Front(p)], loaded[p], request.args[p])
      BY <2>1, <3>1 DEF IInv, IncludeExact, ExactOf
    <3> QED
      BY <3>2, <3>3
  <2> QED
    BY <2>2, <2>3
<1> QED
  BY <1>6, <1>7, <1>10 DEF IInv

\* What another client writes is set aside, and leaves every other row as it was.
LEMMA WriteStep ==
    ASSUME IInv, Write
    PROVE  IInv'
<1>1. UNCHANGED <<request, loaded, status>>
  BY DEF Write
<1>2. PICK m \in Models : \E r, now :
         /\ r \in Rows(m)
         /\ LET others == {s \in tables[m] : s["id"] # r["id"]}
            IN now \in {others, others \cup {r}}
         /\ tables' = [tables EXCEPT ![m] = now]
         /\ Integrity(tables')
         /\ touched' = touched \cup {<<m, r["id"]>>}
  BY DEF Write
<1>3. PICK r, now :
         /\ r \in Rows(m)
         /\ LET others == {s \in tables[m] : s["id"] # r["id"]}
            IN now \in {others, others \cup {r}}
         /\ tables' = [tables EXCEPT ![m] = now]
         /\ Integrity(tables')
         /\ touched' = touched \cup {<<m, r["id"]>>}
  BY <1>2
<1>4. Typed(tables)
  BY DEF IInv, TablesOK
<1>5. TablesOK'
  BY <1>1, <1>3, <1>4 DEF IInv, TablesOK, Typed
<1>6. LoadedOK'
  BY <1>1 DEF IInv, LoadedOK
<1>7. \A n, id : <<n, id>> \notin touched' =>
         /\ <<n, id>> \notin touched
         /\ \A s : s["id"] = id => (s \in tables'[n] <=> s \in tables[n])
  <2> SUFFICES ASSUME NEW n, NEW id, <<n, id>> \notin touched'
               PROVE  /\ <<n, id>> \notin touched
                      /\ \A s : s["id"] = id => (s \in tables'[n] <=> s \in tables[n])
    OBVIOUS
  <2>1. <<n, id>> \notin touched /\ (n = m => id # r["id"])
    BY <1>3
  <2>2. CASE n = m
    BY <1>3, <1>4, <2>1, <2>2 DEF Typed
  <2>3. CASE n # m
    BY <1>3, <1>4, <2>3 DEF Typed
  <2> QED
    BY <2>1, <2>2, <2>3
<1>8. IncludeExact'
  <2> SUFFICES ASSUME NEW path \in DOMAIN loaded \ {<<>>},
                      Determinate(loaded[Front(path)].model, loaded[path].field),
                      NotCut(loaded[path], request.args[path]),
                      NEW e \in {k \in loaded[Front(path)].rows :
                          Meant(loaded[Front(path)].model, loaded[path].field).own
                              \in DOMAIN k.row},
                      NEW id \in Values, <<loaded[path].model, id>> \notin touched'
               PROVE  (\E k \in Attached(loaded[path], e) : k.at = id)
                        <=> \E s \in tables'[loaded[path].model] :
                              /\ s["id"] = id /\ Matches(s, request.args[path].where)
                              /\ s[Meant(loaded[Front(path)].model, loaded[path].field).other]
                                   = e.row[Meant(loaded[Front(path)].model,
                                                 loaded[path].field).own]
                              /\ e.row[Meant(loaded[Front(path)].model,
                                             loaded[path].field).own] # None
    BY <1>1 DEF IncludeExact, Exact
  <2>1. Exact(loaded[path], e, Meant(loaded[Front(path)].model, loaded[path].field),
              request.args[path].where)
    BY DEF IInv, IncludeExact
  <2> QED
    BY <1>7, <2>1 DEF Exact
<1> QED
  BY <1>5, <1>6, <1>8 DEF IInv

\* The rows that a call writes have the columns of its model.
LEMMA CallTypes ==
    ASSUME IInv
    PROVE  /\ tables[request.model] \subseteq Rows(request.model)
           /\ \A r \in Inserted(request.model, request.data) : r \in Rows(request.model)
           /\ \A r \in tables[request.model] :
                 /\ Updated(r, request.data) \in Rows(request.model)
                 /\ Updated(r, request.update) \in Rows(request.model)
<1>1. request \in Requests /\ request.model \in Models /\ Typed(tables)
  BY RelationsAssumption DEF IInv, TablesOK
<1>2. tables[request.model] \subseteq Rows(request.model)
  BY <1>1 DEF Typed
<1>3. ASSUME NEW r \in tables[request.model], NEW data,
             \A x \in DOMAIN data : data[x] \in Values \cup {None}
      PROVE  Updated(r, data) \in Rows(request.model)
  BY <1>2, <1>3 DEF Updated, Rows
<1> QED
  BY <1>1, <1>2, <1>3, RelationsAssumption DEF Inserted

\* The invariant is kept by every step.
THEOREM Inductive ==
    ASSUME IInv, [Next]_vars
    PROVE  IInv'
<1> DEFINE m == request.model
<1>1. CASE Find
  <2>1. PICK rows : Execute(rows, tables[m])
    BY <1>1 DEF Find
  <2> QED
    BY <2>1, CallTypes, ExecuteStep
<1>2. CASE Create
  <2>1. PICK r \in Inserted(m, request.data) : Execute({r}, tables[m] \cup {r})
    BY <1>2 DEF Create
  <2>2. tables[m] \cup {r} \subseteq Rows(m)
    BY CallTypes
  <2> QED
    BY <2>1, <2>2, ExecuteStep
<1>3. CASE Update
  <2> DEFINE now == {Updated(s, request.data) : s \in Selected(m)}
  <2>1. PICK r \in now : Execute({r}, (tables[m] \ Selected(m)) \cup now)
    BY <1>3 DEF Update
  <2>2. (tables[m] \ Selected(m)) \cup now \subseteq Rows(m)
    BY CallTypes DEF Selected
  <2> HIDE DEF now
  <2> QED
    BY <2>1, <2>2, ExecuteStep
<1>4. CASE Delete
  <2>1. PICK r \in Selected(m) : Execute({r}, tables[m] \ Selected(m))
    BY <1>4 DEF Delete
  <2>2. tables[m] \ Selected(m) \subseteq Rows(m)
    BY CallTypes
  <2> QED
    BY <2>1, <2>2, ExecuteStep
<1>5. CASE Upsert
  <2>1. PICK r \in Inserted(m, request.data) :
           \/ Execute({r}, tables[m] \cup {r})
           \/ \E s \in tables[m] : Execute({Updated(s, request.update)},
                                        (tables[m] \ {s}) \cup {Updated(s, request.update)})
    BY <1>5 DEF Upsert
  <2>2. CASE Execute({r}, tables[m] \cup {r})
    <3>1. tables[m] \cup {r} \subseteq Rows(m)
      BY CallTypes
    <3> QED
      BY <2>2, <3>1, ExecuteStep
  <2>3. CASE \E s \in tables[m] : Execute({Updated(s, request.update)},
                                        (tables[m] \ {s}) \cup {Updated(s, request.update)})
    <3>1. PICK s \in tables[m] : Execute({Updated(s, request.update)},
                                      (tables[m] \ {s}) \cup {Updated(s, request.update)})
      BY <2>3
    <3>2. (tables[m] \ {s}) \cup {Updated(s, request.update)} \subseteq Rows(m)
      BY CallTypes
    <3> QED
      BY <3>1, <3>2, ExecuteStep
  <2> QED
    BY <2>1, <2>2, <2>3
<1>6. CASE \E path \in Paths : Load(path)
  BY <1>6, LoadStep
<1>7. CASE Write
  BY <1>7, WriteStep
<1>8. CASE Return \/ Fail \/ UNCHANGED vars
  <2>1. UNCHANGED <<tables, request, loaded, touched>>
    BY <1>8 DEF Return, Fail, vars
  <2> QED
    BY <2>1 DEF IInv, TablesOK, LoadedOK, IncludeExact, Exact
<1> QED
  BY <1>1, <1>2, <1>3, <1>4, <1>5, <1>6, <1>7, <1>8 DEF Next

\* Every row of an answer has exactly its related rows, for any schema, database,
\* call and number of writes between the statements: IncludeExact of every state.
THEOREM ExactIncludes == Spec => []IncludeExact
<1>1. Init => IInv
  BY RelationsAssumption DEF Init, IInv, TablesOK, LoadedOK, IncludeExact
<1>2. IInv /\ [Next]_vars => IInv'
  BY Inductive
<1>3. IInv => IncludeExact
  BY DEF IInv
<1> QED
  BY <1>1, <1>2, <1>3, PTL DEF Spec

=============================================================================
