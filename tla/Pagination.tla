----------------------------- MODULE Pagination -----------------------------
(***************************************************************************)
(* A client walks over the rows of a model page by page, with paginate     *)
(* (count, select, load a relation) or with cursorPaginate (one select     *)
(* that takes a row more than asked for), while others write.              *)
(*                                                                         *)
(* Every statement is a step of its own: the engine opens no transaction   *)
(* around them.  A statement reads one state of the database.  stored are  *)
(* the rows that match the where of the walk, the same for all its pages.  *)
(* A row is its id, which never changes; rank is a column without a unique *)
(* constraint, which may be null.  The walk orders by one of the two, and  *)
(* its cursor is that column.  What a select returns is a set: where ORDER *)
(* BY leaves rows tied, LIMIT may cut them anywhere.                       *)
(***************************************************************************)
EXTENDS Integers, FiniteSets

CONSTANTS
    Rows,         \* ids
    Ranks, Null,  \* values of the other column
    Kids,         \* rows of a model that refers to this one
    Sizes,        \* inputs: take, limit and the first page as the client gives them
    KidTakes,     \* inputs: take of the included relation
    DefaultSize,  \* 10 in the code
    MaxWrites     \* bound: writes of other clients during the walk

ASSUME PaginationAssumption ==
    /\ IsFiniteSet(Rows) /\ Rows \subseteq Int /\ Ranks \subseteq Int /\ Sizes \subseteq Int
    /\ KidTakes \subseteq Nat
    /\ DefaultSize \in Nat \ {0} /\ MaxWrites \in Nat
    /\ Null \notin Int

VARIABLES
    stored, rank, \* the table
    parent,       \* the foreign key of each kid; Null when it has none or is deleted
    walk,         \* the arguments of the walk, set once
    pc,           \* ask, counted, found (paginate only), done
    cursor,       \* the value of the cursor argument, no element on the first page
    page, total, data, \* executeFindManyPaginated
    more,         \* hasNextPage or has_next of the last answer
    seen, twice,  \* rows that pages returned, and those returned again
    edges,        \* values of the rows that pages ended with
    got, capped,  \* kids attached to each row; rows of an answer that reached KidTake
    inserted, deleted, moved, \* written since the walk began
    raced,        \* rows were inserted between the count and the select of a page
    writes        \* how many writes there were

db == <<stored, rank, parent>>
request == <<pc, cursor, page, total, data, more>>
answers == <<seen, twice, edges, got, capped>>
history == <<inserted, deleted, moved, raced, writes>>
vars == <<db, walk, request, answers, history>>

\* cursorPaginate loads no relation.  shown: the column that is looked up in the rows is
\* among those selected, the cursor column or the one that the relation refers to.
CursorWalks == [kind : {"cursor"}, field : {"id", "rank"}, desc : BOOLEAN, size : Sizes,
                shown : BOOLEAN]
OffsetWalks == [kind : {"offset"}, field : {"id", "rank"}, desc : BOOLEAN, size : Sizes,
                shown : BOOLEAN, kidTake : KidTakes]

\* What the engine makes of a take or limit, and of a page, below one.
\* MUTANT: a page below one is kept.
PageAsGiven(p) == p
PageNumber(p) == IF p < 1 THEN 1 ELSE p
Size == IF walk.size < 1 THEN DefaultSize ELSE walk.size

Init ==
    /\ walk \in CursorWalks \cup OffsetWalks
    /\ stored \in SUBSET Rows
    /\ rank \in [Rows -> IF walk.field = "id" THEN {Null} ELSE Ranks \cup {Null}]
    /\ parent \in [Kids -> IF walk.kind = "cursor" THEN {Null} ELSE stored \cup {Null}]
    /\ pc = "ask" /\ cursor = {} /\ total = 0 /\ data = {} /\ more = TRUE
    /\ page \in {PageNumber(p) : p \in Sizes \cap {0, 1}}
    /\ seen = {} /\ twice = {} /\ edges = {}
    /\ got = [r \in Rows |-> {}] /\ capped = {}
    /\ inserted = {} /\ deleted = {} /\ moved = {} /\ raced = FALSE /\ writes = 0

-----------------------------------------------------------------------------
(* SQL                                                                      *)

Value(r) == IF walk.field = "id" THEN r ELSE rank[r]

\* ORDER BY puts null after every value, and before them when descending.
Less(u, v) == u # Null /\ (v = Null \/ u < v)
Precedes(q, r) == IF walk.desc THEN Less(Value(r), Value(q)) ELSE Less(Value(q), Value(r))

\* LIMIT n, with no order and with the order of the walk.
Limit(S, n) == {P \in SUBSET S : Cardinality(P) <= n /\ (P = S \/ Cardinality(P) = n)}
FirstOf(S, n) == {P \in Limit(S, n) : \A r \in P : \A q \in S \ P : ~Precedes(q, r)}

\* The comparison with the cursor, which is never true of null.
\* MUTANT: the row of the cursor is included.
PassesInclusive(u, c) == u # Null /\ c # Null /\ (IF walk.desc THEN u <= c ELSE u >= c)
Passes(u, c) == u # Null /\ c # Null /\ (IF walk.desc THEN u < c ELSE u > c)

After == {r \in stored : \A c \in cursor : Passes(Value(r), c)}

-----------------------------------------------------------------------------
(* cursorPaginate                                                           *)

\* The values that the last of some rows may have.
LastValues(S) == {Value(r) : r \in {r \in S : \A q \in S : ~Precedes(r, q)}}

\* MUTANT: the cursor is taken before the extra row is trimmed.
NextOfFetched(fetched, kept) ==
    IF Cardinality(fetched) > Size /\ walk.shown THEN LastValues(fetched) ELSE {Null}

\* Null without a next page, and when the column is not among those selected.
NextCursors(fetched, kept) ==
    IF Cardinality(fetched) > Size /\ walk.shown THEN LastValues(kept) ELSE {Null}

Return(rows) ==
    /\ seen' = seen \cup rows
    /\ twice' = twice \cup (seen \cap rows)

Trimmed(fetched) == IF Cardinality(fetched) > Size THEN FirstOf(fetched, Size) ELSE {fetched}

\* The client goes on while nextCursor is not null, and passes it as the cursor.
Answer(fetched, kept, next) ==
    /\ more' = (Cardinality(fetched) > Size)
    /\ pc' = IF next = Null THEN "done" ELSE "ask"
    /\ cursor' = IF next = Null THEN cursor ELSE {next}
    /\ edges' = IF more' THEN edges \cup LastValues(kept) ELSE edges
    /\ Return(kept)

CursorPage ==
    /\ walk.kind = "cursor" /\ pc = "ask"
    /\ \E fetched \in FirstOf(After, Size + 1) : \E kept \in Trimmed(fetched) :
       \E next \in NextCursors(fetched, kept) : Answer(fetched, kept, next)
    /\ UNCHANGED <<db, walk, page, total, data, got, capped, history>>

-----------------------------------------------------------------------------
(* paginate                                                                 *)

Count ==
    /\ walk.kind = "offset" /\ pc = "ask"
    /\ total' = Cardinality(stored)
    /\ pc' = "counted"
    /\ raced' = FALSE
    /\ UNCHANGED <<db, walk, cursor, page, data, more, answers, inserted, deleted, moved,
                   writes>>

\* MUTANT: pages are counted from zero.
SkipOfPage == page * Size
Skip == (page - 1) * Size

Find ==
    /\ pc = "counted"
    /\ \E first \in FirstOf(stored, Skip + Size) : \E skipped \in FirstOf(first, Skip) :
          data' = first \ skipped
    /\ pc' = "found"
    /\ UNCHANGED <<db, walk, cursor, page, total, more, answers, history>>

\* collectParentValues finds nothing in rows without the column.
ParentIds == IF walk.shown THEN data ELSE {}

\* MUTANT: what was loaded is not grouped by its foreign key.
AllLoaded(loaded, r) == loaded
ChildrenOf(loaded, r) == {k \in loaded : parent[k] = r}

TotalPages == (total + Size - 1) \div Size

\* The relation query has one LIMIT for the children of all rows; then the answer.
Load ==
    /\ pc = "found"
    /\ \E loaded \in Limit({k \in Kids : parent[k] \in ParentIds}, walk.kidTake) :
          /\ got' = [r \in Rows |-> got[r] \cup
                                    (IF r \in data THEN ChildrenOf(loaded, r) ELSE {})]
          /\ capped' = IF Cardinality(loaded) = walk.kidTake THEN capped \cup data ELSE capped
    /\ Return(data)
    /\ more' = (page < TotalPages)
    /\ data' = {} /\ total' = 0
    /\ IF more' THEN pc' = "ask" /\ page' = page + 1 ELSE pc' = "done" /\ UNCHANGED page
    /\ UNCHANGED <<db, walk, cursor, edges, history>>

\* A statement fails: the request is answered with an error, and the client asks again.
Fail ==
    /\ pc \in {"counted", "found"}
    /\ pc' = "ask"
    /\ data' = {} /\ total' = 0
    /\ UNCHANGED <<db, walk, cursor, page, more, answers, history>>

-----------------------------------------------------------------------------
(* Other clients.  Writes that no statement of the walk reads are left out: *)
(* ranks in a walk by id, kids in cursorPaginate.                           *)

Insert(r) ==
    /\ r \in Rows \ stored
    /\ \E v \in IF walk.field = "id" THEN {rank[r]} ELSE Ranks \cup {Null} :
          /\ rank' = [rank EXCEPT ![r] = v]
          /\ moved' = IF v = rank[r] THEN moved ELSE moved \cup {r}
    /\ stored' = stored \cup {r}
    /\ inserted' = inserted \cup {r}
    /\ raced' = (raced \/ pc = "counted")
    /\ UNCHANGED <<parent, walk, request, answers, deleted>>

\* The foreign keys that refer to the row are set to null, or their rows deleted.
Delete(r) ==
    /\ r \in stored
    /\ stored' = stored \ {r}
    /\ parent' = [k \in Kids |-> IF parent[k] = r THEN Null ELSE parent[k]]
    /\ moved' = moved \cup {k \in Kids : parent[k] = r}
    /\ deleted' = deleted \cup {r}
    /\ UNCHANGED <<rank, walk, request, answers, inserted, raced>>

Update(r, v) ==
    /\ walk.field = "rank"
    /\ r \in stored /\ v # rank[r]
    /\ rank' = [rank EXCEPT ![r] = v]
    /\ moved' = moved \cup {r}
    /\ UNCHANGED <<stored, parent, walk, request, answers, inserted, deleted, raced>>

MoveKid(k, p) ==
    /\ walk.kind = "offset"
    /\ p \in stored \cup {Null} /\ p # parent[k]
    /\ parent' = [parent EXCEPT ![k] = p]
    /\ moved' = moved \cup {k}
    /\ UNCHANGED <<stored, rank, walk, request, answers, inserted, deleted, raced>>

Write ==
    /\ pc # "done" /\ writes < MaxWrites
    /\ writes' = writes + 1
    /\ \/ \E r \in Rows : Insert(r) \/ Delete(r)
       \/ \E r \in Rows, v \in Ranks \cup {Null} : Update(r, v)
       \/ \E k \in Kids, p \in Rows \cup {Null} : MoveKid(k, p)

Next == CursorPage \/ Count \/ Find \/ Load \/ Fail \/ Write

Spec == Init /\ [][Next]_vars

-----------------------------------------------------------------------------
(* Properties                                                               *)

\* Pages are counted from one, sizes are positive, a cursor is one value that is not
\* null, and only paginate stops between statements.
TypeOK ==
    /\ walk \in CursorWalks \cup OffsetWalks
    /\ stored \subseteq Rows /\ rank \in [Rows -> Ranks \cup {Null}]
    /\ parent \in [Kids -> Rows \cup {Null}]
    /\ pc \in {"ask", "counted", "found", "done"}
    /\ pc \in {"counted", "found"} => walk.kind = "offset"
    /\ cursor \subseteq Rows \cup Ranks
    /\ page \in Nat \ {0} /\ total \in Nat /\ data \subseteq Rows /\ more \in BOOLEAN
    /\ seen \subseteq Rows /\ twice \subseteq seen /\ edges \subseteq Rows \cup Ranks \cup {Null}
    /\ got \in [Rows -> SUBSET Kids] /\ capped \subseteq seen
    /\ inserted \subseteq Rows /\ deleted \subseteq Rows /\ moved \subseteq Rows \cup Kids
    /\ raced \in BOOLEAN /\ writes \in Nat

Steady == stored \ (inserted \cup deleted \cup moved)

\* A row is returned twice only if its own value in the cursor column was changed, whatever
\* is inserted, deleted or tied meanwhile.
CursorNoRepeat == walk.kind = "cursor" => twice \subseteq moved

\* A walk that ran to its end has missed no row that nobody wrote, except one that shares its
\* value with the last row of a page, or whose value is null: the cursor compares strictly
\* and with one column.  By id, no row can be missed.
CursorMisses ==
    walk.kind = "cursor" /\ pc = "done" /\ walk.shown /\ Null \notin edges =>
        \A r \in Steady : \/ r \in seen
                          \/ walk.field = "rank" /\ rank[r] \in edges \cup {Null}

\* How far the pages of cursorPaginate stay consistent under concurrent writes.
CursorDrift == CursorNoRepeat /\ CursorMisses

\* The pages of paginate by id repeat a row only if rows were inserted since the first one.
\* They miss a row that nobody wrote only if rows were deleted, or inserted between the
\* count that said there is no next page and the select of that page.
OffsetDrift ==
    walk.kind = "offset" /\ walk.field = "id" =>
        /\ twice # {} => inserted # {}
        /\ pc = "done" /\ deleted = {} /\ ~raced => Steady \subseteq seen

\* A child that stayed with its parent during the walk comes with it in every answer that
\* the parent is in and the limit of the relation query did not cut, and never with another.
KidsWithParent ==
    walk.kind = "offset" =>
        \A r \in seen, k \in Kids \ moved :
            /\ parent[k] = r /\ walk.shown /\ r \notin capped => k \in got[r]
            /\ k \in got[r] => parent[k] = r

=============================================================================
