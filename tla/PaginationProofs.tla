-------------------------- MODULE PaginationProofs --------------------------
(***************************************************************************)
(* Proofs about Pagination: cursor walks repeat no row that kept its value *)
(* and miss none but ties and nulls; paginate attaches children to their   *)
(* parents, and by id shows and misses only the rows that writes moved     *)
(* over the edge of a page.                                                *)
(***************************************************************************)
EXTENDS Pagination, FiniteSetTheorems, TLAPS

\* A value of the column is an integer or null, and sizes are positive.
LEMMA Values ==
    ASSUME TypeOK
    PROVE  /\ \A r \in Rows : Value(r) \in Rows \cup Ranks \cup {Null}
           /\ Size \in Nat \ {0}
           /\ walk.kind \in {"cursor", "offset"} /\ walk.field \in {"id", "rank"}
           /\ walk.desc \in BOOLEAN /\ walk.shown \in BOOLEAN
<1>1. walk.size \in Int /\ walk.kind \in {"cursor", "offset"} /\ walk.field \in {"id", "rank"}
      /\ walk.desc \in BOOLEAN /\ walk.shown \in BOOLEAN
  BY PaginationAssumption DEF TypeOK, CursorWalks, OffsetWalks
<1>2. Size \in Nat \ {0}
  BY <1>1, PaginationAssumption DEF Size
<1>3. \A r \in Rows : Value(r) \in Rows \cup Ranks \cup {Null}
  BY <1>1 DEF TypeOK, Value
<1> QED BY <1>1, <1>2, <1>3

\* What a select with a limit returns, and what is kept of it.
LEMMA Selected ==
    ASSUME NEW S, NEW n, NEW P \in FirstOf(S, n)
    PROVE  /\ P \subseteq S
           /\ P = S \/ Cardinality(P) = n
           /\ \A r \in P, q \in S \ P : ~Precedes(q, r)
BY DEF FirstOf, Limit

-----------------------------------------------------------------------------
(* Types                                                                    *)

LEMMA TypeInit == Init => TypeOK
<1> SUFFICES ASSUME Init PROVE TypeOK
  OBVIOUS
<1>1. rank \in [Rows -> Ranks \cup {Null}]
  BY DEF Init
<1>2. parent \in [Kids -> Rows \cup {Null}]
  BY DEF Init
<1>3. page \in Nat \ {0}
  BY PaginationAssumption DEF Init, PageNumber
<1>4. got \in [Rows -> SUBSET Kids]
  BY DEF Init
<1> QED BY <1>1, <1>2, <1>3, <1>4 DEF Init, TypeOK

LEMMA TypeCursorPage == TypeOK /\ CursorPage => TypeOK'
<1> SUFFICES ASSUME TypeOK, CursorPage PROVE TypeOK'
  OBVIOUS
<1>1. PICK fetched \in FirstOf(After, Size + 1) : \E kept \in Trimmed(fetched) :
         \E next \in NextCursors(fetched, kept) : Answer(fetched, kept, next)
  BY DEF CursorPage
<1>2. PICK kept \in Trimmed(fetched) :
         \E next \in NextCursors(fetched, kept) : Answer(fetched, kept, next)
  BY <1>1
<1>0. PICK next \in NextCursors(fetched, kept) : Answer(fetched, kept, next)
  BY <1>2
<1>3. fetched \subseteq Rows
  BY Selected DEF After, TypeOK
<1>4. kept \subseteq Rows
  BY <1>3, Selected DEF Trimmed
<1>5. LastValues(kept) \subseteq Rows \cup Ranks \cup {Null}
  BY <1>4, Values DEF LastValues
<1>6. next \in Rows \cup Ranks \cup {Null}
  BY <1>5 DEF NextCursors
<1>7. cursor' \subseteq Rows \cup Ranks /\ edges' \subseteq Rows \cup Ranks \cup {Null}
      /\ pc' \in {"ask", "done"} /\ more' \in BOOLEAN
  BY <1>0, <1>5, <1>6 DEF Answer, TypeOK
<1>8. seen' \subseteq Rows /\ twice' \subseteq seen' /\ capped \subseteq seen'
  BY <1>0, <1>4 DEF Answer, Return, TypeOK
<1> QED BY <1>7, <1>8 DEF CursorPage, TypeOK, db, history

LEMMA TypePaginate == TypeOK /\ (Count \/ Find \/ Load \/ Fail) => TypeOK'
<1> SUFFICES ASSUME TypeOK PROVE Count \/ Find \/ Load \/ Fail => TypeOK'
  OBVIOUS
<1>1. ASSUME Count PROVE TypeOK'
  <2>1. Cardinality(stored) \in Nat
    BY PaginationAssumption, FS_Subset, FS_CardinalityType DEF TypeOK
  <2> QED BY <1>1, <2>1 DEF Count, TypeOK, db, answers
<1>2. ASSUME Find PROVE TypeOK'
  <2>1. data' \subseteq Rows
    BY <1>2, Selected DEF Find, TypeOK
  <2> QED BY <1>2, <2>1 DEF Find, TypeOK, db, answers, history
<1>3. ASSUME Load PROVE TypeOK'
  <2>1. PICK loaded \in Limit({k \in Kids : parent[k] \in ParentIds}, walk.kidTake) :
          /\ got' = [r \in Rows |-> got[r] \cup
                                    (IF r \in data THEN ChildrenOf(loaded, r) ELSE {})]
          /\ capped' = IF Cardinality(loaded) = walk.kidTake THEN capped \cup data ELSE capped
    BY <1>3 DEF Load
  <2>2. loaded \subseteq Kids
    BY DEF Limit
  <2>3. got' \in [Rows -> SUBSET Kids]
    BY <2>1, <2>2 DEF ChildrenOf, TypeOK
  <2>4. seen' \subseteq Rows /\ twice' \subseteq seen' /\ capped' \subseteq seen'
    BY <1>3, <2>1 DEF Load, Return, TypeOK
  <2>5. page' \in Nat \ {0} /\ pc' \in {"ask", "done"} /\ more' \in BOOLEAN
    BY <1>3 DEF Load, TypeOK
  <2> QED BY <1>3, <2>3, <2>4, <2>5 DEF Load, TypeOK, db, history
<1>4. ASSUME Fail PROVE TypeOK'
  BY <1>4 DEF Fail, TypeOK, db, answers, history
<1> QED BY <1>1, <1>2, <1>3, <1>4

LEMMA TypeWrite == TypeOK /\ Write => TypeOK'
<1> SUFFICES ASSUME TypeOK, Write PROVE TypeOK'
  OBVIOUS
<1>1. writes' \in Nat
  BY DEF Write, TypeOK
<1>2. ASSUME NEW r \in Rows, Insert(r) PROVE TypeOK'
  <2>1. PICK v \in IF walk.field = "id" THEN {rank[r]} ELSE Ranks \cup {Null} :
          /\ rank' = [rank EXCEPT ![r] = v]
          /\ moved' = IF v = rank[r] THEN moved ELSE moved \cup {r}
    BY <1>2 DEF Insert
  <2>2. v \in Ranks \cup {Null}
    BY <2>1 DEF TypeOK
  <2>3. rank' \in [Rows -> Ranks \cup {Null}] /\ moved' \subseteq Rows \cup Kids
    BY <2>1, <2>2 DEF TypeOK
  <2> QED BY <1>1, <1>2, <2>3 DEF Insert, TypeOK, request, answers
<1>3. ASSUME NEW r \in Rows, Delete(r) PROVE TypeOK'
  <2>1. parent' \in [Kids -> Rows \cup {Null}]
    BY <1>3 DEF Delete, TypeOK
  <2> QED BY <1>1, <1>3, <2>1 DEF Delete, TypeOK, request, answers
<1>4. ASSUME NEW r \in Rows, NEW v \in Ranks \cup {Null}, Update(r, v) PROVE TypeOK'
  BY <1>1, <1>4 DEF Update, TypeOK, request, answers
<1>5. ASSUME NEW k \in Kids, NEW p \in Rows \cup {Null}, MoveKid(k, p) PROVE TypeOK'
  BY <1>1, <1>5 DEF MoveKid, TypeOK, request, answers
<1> QED BY <1>2, <1>3, <1>4, <1>5 DEF Write

LEMMA TypeNext == TypeOK /\ [Next]_vars => TypeOK'
<1> SUFFICES ASSUME TypeOK, [Next]_vars PROVE TypeOK'
  OBVIOUS
<1>1. CASE CursorPage
  BY <1>1, TypeCursorPage
<1>2. CASE Count \/ Find \/ Load \/ Fail
  BY <1>2, TypePaginate
<1>3. CASE Write
  BY <1>3, TypeWrite
<1>4. CASE UNCHANGED vars
  BY <1>4 DEF vars, db, request, answers, history, TypeOK
<1> QED BY <1>1, <1>2, <1>3, <1>4 DEF Next

\* Every variable keeps its type: pages and sizes stay positive and a cursor is never null.
THEOREM TypeCorrect == Spec => []TypeOK
BY TypeInit, TypeNext, PTL DEF Spec

-----------------------------------------------------------------------------
(* Cursor walks                                                             *)

\* Nothing that was returned, and kept its value, comes after the cursor.
NoneBehind ==
    walk.kind = "cursor" /\ pc = "ask" =>
        /\ cursor = {} => seen = {}
        /\ \A r \in seen \ moved : \A c \in cursor : ~Passes(Value(r), c)

\* A row that was skipped comes after the cursor, is tied with a page's end, or is null.
Skipped(r) == r \notin seen /\ Value(r) \notin edges \cup {Null}
NoneSkipped ==
    walk.kind = "cursor" /\ walk.shown /\ Null \notin edges =>
        \A r \in Steady : Skipped(r) => pc = "ask" /\ \A c \in cursor : Passes(Value(r), c)

\* Pages end with rows that were returned.
EdgesSeen == walk.kind = "cursor" /\ walk.field = "id" => edges \subseteq seen

WalkInv == TypeOK /\ CursorNoRepeat /\ NoneBehind /\ NoneSkipped /\ EdgesSeen

\* A row that the last row of a page does not precede does not pass its value, and one that
\* does not precede it passes its value, has the same, or has none.
LEMMA LastSplits ==
    ASSUME TypeOK, NEW l \in Rows, Value(l) # Null, NEW r \in Rows
    PROVE  /\ ~Precedes(l, r) => ~Passes(Value(r), Value(l))
           /\ ~Precedes(r, l) => Passes(Value(r), Value(l)) \/ Value(r) \in {Value(l), Null}
<1>1. \A x \in {l, r} : Value(x) # Null => Value(x) \in Int
  BY Values, PaginationAssumption
<1>2. walk.desc \in BOOLEAN
  BY Values
<1>3. CASE Value(r) = Null
  BY <1>3 DEF Precedes, Less, Passes
<1>4. CASE Value(r) # Null /\ walk.desc
  BY <1>1, <1>4 DEF Precedes, Less, Passes
<1>5. CASE Value(r) # Null /\ ~walk.desc
  BY <1>1, <1>5 DEF Precedes, Less, Passes
<1> QED BY <1>2, <1>3, <1>4, <1>5

\* What fails a cursor fails every value that passes it.
LEMMA PassesFurther ==
    ASSUME TypeOK, NEW c \in Rows \cup Ranks, NEW l \in Rows, NEW r \in Rows,
           Passes(Value(l), c), ~Passes(Value(r), c)
    PROVE  ~Passes(Value(r), Value(l))
<1>1. c \in Int /\ \A x \in {l, r} : Value(x) # Null => Value(x) \in Int
  BY Values, PaginationAssumption
<1>2. CASE Value(r) = Null
  BY <1>2 DEF Passes
<1>3. CASE Value(r) # Null /\ walk.desc
  BY <1>1, <1>3 DEF Passes
<1>4. CASE Value(r) # Null /\ ~walk.desc
  BY <1>1, <1>4 DEF Passes
<1> QED BY <1>2, <1>3, <1>4

LEMMA WalkInit == Init => WalkInv
BY TypeInit DEF Init, WalkInv, CursorNoRepeat, NoneBehind, NoneSkipped, EdgesSeen, Steady,
                Skipped

LEMMA WalkPage == WalkInv /\ CursorPage => WalkInv'
<1> SUFFICES ASSUME WalkInv, CursorPage PROVE WalkInv'
  OBVIOUS
<1> USE DEF WalkInv
<1>1. TypeOK'
  BY TypeCursorPage
<1>2. PICK fetched \in FirstOf(After, Size + 1) : \E kept \in Trimmed(fetched) :
         \E next \in NextCursors(fetched, kept) : Answer(fetched, kept, next)
  BY DEF CursorPage
<1>3. PICK kept \in Trimmed(fetched) :
         \E next \in NextCursors(fetched, kept) : Answer(fetched, kept, next)
  BY <1>2
<1>4. PICK next \in NextCursors(fetched, kept) : Answer(fetched, kept, next)
  BY <1>3
<1>5. /\ walk.kind = "cursor" /\ pc = "ask"
      /\ UNCHANGED <<stored, rank, walk, inserted, deleted, moved>>
  BY DEF CursorPage, db, history
<1>6. fetched \subseteq After /\ kept \subseteq fetched /\ After \subseteq stored
      /\ stored \subseteq Rows
  BY Selected DEF Trimmed, After, TypeOK
<1>7. seen' = seen \cup kept /\ twice' = twice \cup (seen \cap kept)
  BY <1>4 DEF Answer, Return
<1>8. \A r : Value(r)' = Value(r)
  BY <1>5 DEF Value
<1>9. \A u, c : Passes(u, c)' = Passes(u, c)
  BY <1>5 DEF Passes
<1>10. CursorNoRepeat'
  <2> SUFFICES ASSUME NEW r \in seen \cap kept, r \notin moved PROVE FALSE
    BY <1>5, <1>7 DEF CursorNoRepeat
  <2>1. \A c \in cursor : Passes(Value(r), c)
    BY <1>6 DEF After
  <2>2. cursor # {} /\ \A c \in cursor : ~Passes(Value(r), c)
    BY <1>5 DEF NoneBehind
  <2> QED BY <2>1, <2>2
\* The page ends the walk, or its last row l gives the next cursor.
<1>11. ASSUME next # Null
       PROVE  \E l \in kept : /\ next = Value(l) /\ Cardinality(fetched) > Size /\ walk.shown
                              /\ \A q \in kept : ~Precedes(l, q)
  BY <1>11, <1>4 DEF NextCursors, LastValues
<1>12. NoneBehind'
  <2> SUFFICES ASSUME pc' = "ask" PROVE NoneBehind'
    BY DEF NoneBehind
  <2>1. next # Null /\ cursor' = {next}
    BY <1>4 DEF Answer
  <2>2. PICK l \in kept : next = Value(l) /\ \A q \in kept : ~Precedes(l, q)
    BY <1>11, <2>1
  <2>3. l \in Rows /\ Value(l) # Null
    BY <1>6, <2>1, <2>2
  <2>4. ASSUME NEW r \in seen' \ moved PROVE ~Passes(Value(r), Value(l))
    <3>1. r \in Rows
      BY <1>1, <2>4 DEF TypeOK
    <3>2. CASE r \in kept
      BY <2>2, <2>3, <3>1, <3>2, LastSplits
    <3>3. CASE r \in seen
      <4>1. PICK c \in cursor : TRUE
        BY <1>5, <3>3 DEF NoneBehind
      <4>2. ~Passes(Value(r), c) /\ Passes(Value(l), c)
        BY <1>5, <1>6, <2>2, <2>4, <3>3, <4>1 DEF NoneBehind, After
      <4>3. c \in Rows \cup Ranks
        BY <4>1 DEF TypeOK
      <4> QED BY <2>3, <3>1, <4>2, <4>3, PassesFurther
    <3> QED BY <1>7, <2>4, <3>2, <3>3
  <2> QED BY <1>5, <1>8, <1>9, <2>1, <2>2, <2>4 DEF NoneBehind
<1>13. NoneSkipped'
  <2> SUFFICES ASSUME walk.shown, Null \notin edges', NEW r \in Steady, r \notin seen',
                      Value(r) \notin edges' \cup {Null}
               PROVE  pc' = "ask" /\ \A c \in cursor' : Passes(Value(r), c)
    BY <1>5, <1>8, <1>9 DEF NoneSkipped, Steady, Skipped
  <2>1. edges \subseteq edges'
    BY <1>4 DEF Answer
  <2>2. r \in stored /\ r \notin seen /\ r \notin kept /\ r \in Rows
    BY <1>6, <1>7 DEF Steady
  <2>3. \A c \in cursor : Passes(Value(r), c)
    BY <1>5, <2>1, <2>2 DEF NoneSkipped, Skipped
  <2>4. r \in After
    BY <2>2, <2>3 DEF After
  <2>5. Size \in Nat \ {0}
    BY Values
  <2>6. Cardinality(fetched) > Size
    <3> SUFFICES ASSUME ~(Cardinality(fetched) > Size) PROVE FALSE
      OBVIOUS
    <3>1. kept = fetched
      BY DEF Trimmed
    <3>2. Cardinality(fetched) # Size + 1
      BY <2>5
    <3>3. fetched = After
      BY <3>2, Selected
    <3> QED BY <2>2, <2>4, <3>1, <3>3
  <2>7. edges' = edges \cup LastValues(kept)
    BY <1>4, <2>6 DEF Answer
  <2>8. next \in LastValues(kept)
    BY <1>4, <2>6 DEF NextCursors
  <2>9. next # Null /\ pc' = "ask" /\ cursor' = {next}
    BY <1>4, <2>7, <2>8 DEF Answer
  <2>10. PICK l \in kept : next = Value(l) /\ \A q \in kept : ~Precedes(l, q)
    BY <1>11, <2>9
  <2>11. kept \in FirstOf(fetched, Size)
    BY <2>6 DEF Trimmed
  <2>12. ~Precedes(r, l)
    <3>1. CASE r \in fetched
      BY <2>2, <2>10, <2>11, <3>1, Selected
    <3>2. CASE r \notin fetched
      BY <1>6, <2>4, <2>10, <3>2, Selected
    <3> QED BY <3>1, <3>2
  <2>13. Passes(Value(r), Value(l)) \/ Value(r) \in {Value(l), Null}
    BY <1>6, <2>2, <2>9, <2>10, <2>12, LastSplits
  <2> QED BY <2>7, <2>8, <2>9, <2>10, <2>13
<1>14. EdgesSeen'
  <2> SUFFICES ASSUME walk.field = "id" PROVE edges' \subseteq seen'
    BY <1>5 DEF EdgesSeen
  <2>1. LastValues(kept) \subseteq kept
    BY DEF LastValues, Value
  <2> QED BY <1>4, <1>5, <1>7, <2>1 DEF Answer, EdgesSeen
<1> QED BY <1>1, <1>10, <1>12, <1>13, <1>14

LEMMA WalkPaginate == WalkInv /\ (Count \/ Find \/ Load \/ Fail) => WalkInv'
<1> SUFFICES ASSUME WalkInv, Count \/ Find \/ Load \/ Fail PROVE WalkInv'
  OBVIOUS
<1>1. TypeOK'
  BY TypePaginate DEF WalkInv
<1>2. walk.kind = "offset" /\ walk' = walk
  BY DEF Count, Find, Load, Fail, WalkInv, TypeOK
<1> QED BY <1>1, <1>2 DEF WalkInv, CursorNoRepeat, NoneBehind, NoneSkipped, EdgesSeen

\* A write gives no row another value without moving it, and steady rows stay as they are.
LEMMA WalkWrite == WalkInv /\ Write => WalkInv'
<1> SUFFICES ASSUME WalkInv, Write PROVE WalkInv'
  OBVIOUS
<1> USE DEF WalkInv
<1>1. TypeOK'
  BY TypeWrite
<1>2. UNCHANGED <<walk, request, answers>>
  BY DEF Write, Insert, Delete, Update, MoveKid
<1>3. moved \subseteq moved'
  BY DEF Write, Insert, Delete, Update, MoveKid
<1>4. \A r \in Rows \ moved' : Value(r)' = Value(r)
  <2> SUFFICES ASSUME NEW r \in Rows, r \notin moved' PROVE rank'[r] = rank[r]
    BY <1>2 DEF Value
  <2> QED BY DEF Write, Insert, Delete, Update, MoveKid, TypeOK
<1>5. Steady' \subseteq Steady
  BY DEF Write, Insert, Delete, Update, MoveKid, Steady
<1>6. \A u, c : Passes(u, c)' = Passes(u, c)
  BY <1>2 DEF Passes
<1>7. \A r \in Steady' : r \in Rows \ moved'
  BY <1>1 DEF Steady, TypeOK
<1>8. CursorNoRepeat'
  BY <1>2, <1>3 DEF CursorNoRepeat, answers
<1>9. NoneBehind'
  <2>1. \A r \in seen \ moved' : r \in Rows \ moved' /\ r \in seen \ moved
    BY <1>3 DEF TypeOK
  <2> QED BY <1>2, <1>4, <1>6, <2>1 DEF NoneBehind, request, answers
<1>10. NoneSkipped'
  BY <1>2, <1>4, <1>5, <1>6, <1>7 DEF NoneSkipped, Skipped, request, answers
<1>11. EdgesSeen'
  BY <1>2 DEF EdgesSeen, answers
<1> QED BY <1>1, <1>8, <1>9, <1>10, <1>11

LEMMA WalkNext == WalkInv /\ [Next]_vars => WalkInv'
<1> SUFFICES ASSUME WalkInv, [Next]_vars PROVE WalkInv'
  OBVIOUS
<1>1. CASE CursorPage
  BY <1>1, WalkPage
<1>2. CASE Count \/ Find \/ Load \/ Fail
  BY <1>2, WalkPaginate
<1>3. CASE Write
  BY <1>3, WalkWrite
<1>4. CASE UNCHANGED vars
  BY <1>4, TypeNext DEF vars, db, request, answers, history, WalkInv, CursorNoRepeat,
        NoneBehind, NoneSkipped, EdgesSeen, Steady, Skipped, Value, Passes
<1> QED BY <1>1, <1>2, <1>3, <1>4 DEF Next

LEMMA WalkMisses == WalkInv => CursorMisses
<1> SUFFICES ASSUME WalkInv, walk.kind = "cursor", pc = "done", walk.shown, Null \notin edges,
                    NEW r \in Steady, r \notin seen
             PROVE  walk.field = "rank" /\ rank[r] \in edges \cup {Null}
  BY DEF CursorMisses
<1>1. Value(r) \in edges \cup {Null}
  BY DEF WalkInv, NoneSkipped, Skipped
<1>2. walk.field # "id"
  <2> SUFFICES ASSUME walk.field = "id" PROVE FALSE
    OBVIOUS
  <2>1. r # Null
    BY PaginationAssumption DEF WalkInv, TypeOK, Steady
  <2> QED BY <1>1, <2>1 DEF Value, WalkInv, EdgesSeen
<1> QED BY <1>1, <1>2, Values DEF WalkInv, Value

\* With any rows, values, page sizes and writes: the pages of a cursor walk return a row twice
\* only if its value in the cursor column was changed, and miss no row that nobody wrote,
\* except ties with the last row of a page and nulls.
THEOREM CursorConsistent == Spec => []CursorDrift
<1>1. WalkInv => CursorDrift
  BY WalkMisses DEF WalkInv, CursorDrift
<1> QED BY <1>1, WalkInit, WalkNext, PTL DEF Spec

-----------------------------------------------------------------------------
(* paginate                                                                 *)

\* Children are attached to rows that were returned only.
OnlySeen == \A r \in Rows : got[r] # {} => r \in seen

KidsInv == TypeOK /\ KidsWithParent /\ OnlySeen

LEMMA KidsLoad == KidsInv /\ Load => KidsInv'
<1> SUFFICES ASSUME KidsInv, Load PROVE KidsInv'
  OBVIOUS
<1> USE DEF KidsInv
<1>1. TypeOK'
  BY TypePaginate
<1>2. PICK loaded \in Limit({k \in Kids : parent[k] \in ParentIds}, walk.kidTake) :
        /\ got' = [r \in Rows |-> got[r] \cup
                                  (IF r \in data THEN ChildrenOf(loaded, r) ELSE {})]
        /\ capped' = IF Cardinality(loaded) = walk.kidTake THEN capped \cup data ELSE capped
  BY DEF Load
<1>3. seen' = seen \cup data /\ data \subseteq Rows /\ UNCHANGED <<parent, moved, walk>>
  BY DEF Load, Return, TypeOK, db, history
<1>4. OnlySeen'
  BY <1>2, <1>3 DEF OnlySeen, TypeOK
<1>5. KidsWithParent'
  <2> SUFFICES ASSUME walk.kind = "offset", NEW r \in seen', NEW k \in Kids \ moved
               PROVE  /\ parent[k] = r /\ walk.shown /\ r \notin capped' => k \in got'[r]
                      /\ k \in got'[r] => parent[k] = r
    BY <1>3 DEF KidsWithParent
  <2>1. r \in Rows
    BY <1>1 DEF TypeOK
  <2>2. got'[r] = got[r] \cup (IF r \in data THEN ChildrenOf(loaded, r) ELSE {})
    BY <1>2, <2>1
  <2>3. r \in seen => /\ parent[k] = r /\ walk.shown /\ r \notin capped => k \in got[r]
                      /\ k \in got[r] => parent[k] = r
    BY DEF KidsWithParent
  <2>4. capped \subseteq capped'
    BY <1>2
  <2>5. CASE r \notin data
    BY <1>3, <2>2, <2>3, <2>4, <2>5
  <2>6. CASE r \in data
    <3>1. k \in got'[r] => parent[k] = r
      BY <2>1, <2>2, <2>3 DEF OnlySeen, ChildrenOf
    <3>2. ASSUME parent[k] = r, walk.shown, r \notin capped' PROVE k \in got'[r]
      <4>1. Cardinality(loaded) # walk.kidTake
        BY <1>2, <2>6, <3>2
      <4>2. k \in loaded
        BY <2>6, <3>2, <4>1 DEF Limit, ParentIds
      <4> QED BY <2>2, <2>6, <3>2, <4>2 DEF ChildrenOf
    <3> QED BY <3>1, <3>2
  <2> QED BY <2>5, <2>6
<1> QED BY <1>1, <1>4, <1>5

LEMMA KidsWrite == KidsInv /\ Write => KidsInv'
<1> SUFFICES ASSUME KidsInv, Write PROVE KidsInv'
  OBVIOUS
<1> USE DEF KidsInv
<1>1. TypeOK'
  BY TypeWrite
<1>2. UNCHANGED <<walk, answers>> /\ moved \subseteq moved'
  BY DEF Write, Insert, Delete, Update, MoveKid
<1>3. \A k \in Kids \ moved' : parent'[k] = parent[k]
  BY DEF Write, Insert, Delete, Update, MoveKid, TypeOK
<1>4. KidsWithParent'
  BY <1>2, <1>3 DEF KidsWithParent, answers
<1>5. OnlySeen'
  BY <1>2 DEF OnlySeen, answers
<1> QED BY <1>1, <1>4, <1>5

LEMMA KidsNext == KidsInv /\ [Next]_vars => KidsInv'
<1> SUFFICES ASSUME KidsInv, [Next]_vars PROVE KidsInv'
  OBVIOUS
<1>1. CASE Load
  BY <1>1, KidsLoad
<1>2. CASE Write
  BY <1>2, KidsWrite
<1>3. CASE CursorPage
  <2>1. walk.kind = "cursor" /\ walk' = walk /\ got' = got /\ seen \subseteq seen'
    BY <1>3 DEF CursorPage, Answer, Return
  <2>2. KidsWithParent' /\ OnlySeen'
    BY <2>1 DEF KidsWithParent, OnlySeen, KidsInv
  <2> QED BY <1>3, <2>2, TypeCursorPage DEF KidsInv
<1>4. CASE Count \/ Find \/ Fail
  <2>1. UNCHANGED <<db, walk, answers, moved>>
    BY <1>4 DEF Count, Find, Fail, history
  <2>2. KidsWithParent' /\ OnlySeen'
    BY <2>1 DEF KidsWithParent, OnlySeen, KidsInv, db, answers
  <2> QED BY <1>4, <2>2, TypePaginate DEF KidsInv
<1>5. CASE UNCHANGED vars
  <2>1. KidsWithParent' /\ OnlySeen'
    BY <1>5 DEF KidsWithParent, OnlySeen, KidsInv, vars, db, answers, history
  <2> QED BY <2>1, TypeNext DEF KidsInv
<1> QED BY <1>1, <1>2, <1>3, <1>4, <1>5 DEF Next

\* With any rows, children, limits and writes: a child that stayed with its parent is attached
\* to it and to no other, unless the shared limit of the relation query was reached.
THEOREM KidsComeWithParent == Spec => []KidsWithParent
<1>1. Init => KidsInv
  BY TypeInit DEF Init, KidsInv, KidsWithParent, OnlySeen
<1>2. KidsInv => KidsWithParent
  BY DEF KidsInv
<1> QED BY <1>1, <1>2, KidsNext, PTL DEF Spec

-----------------------------------------------------------------------------
(* The pages of paginate by id                                              *)

ById == walk.kind = "offset" /\ walk.field = "id"

\* How many of the stored rows come before a row.
Before(S, r) == {q \in S : Precedes(q, r)}
Position(r) == Cardinality(Before(stored, r))

\* Without inserts no row that was returned comes on a later page.
NoneAhead ==
    ById /\ inserted = {} =>
        /\ twice = {}
        /\ pc # "done" => \A r \in seen \cap stored : Position(r) < Skip
        /\ pc = "found" => /\ data \cap seen = {}
                           /\ \A r \in data \cap stored : Position(r) < Skip + Size

\* Without deletes no row that nobody wrote is on an earlier page, unless it was returned;
\* and without inserts after the count the page after which there is no other has the rest.
NoneMissed ==
    ById /\ deleted = {} =>
        /\ pc # "done" => \A r \in Steady \ seen : Position(r) >= Skip
        /\ pc = "counted" /\ ~raced => total = Cardinality(stored)
        /\ pc = "found" => \A r \in Steady \ (seen \cup data) : Position(r) >= Skip + Size
        /\ pc = "found" /\ ~raced /\ total <= Skip + Size => Steady \subseteq seen \cup data
        /\ pc = "done" /\ ~raced => Steady \subseteq seen

OffsetInv == TypeOK /\ NoneAhead /\ NoneMissed

\* What is skipped, and that the next page begins where this one ends.
LEMMA Skipping ==
    ASSUME TypeOK
    PROVE  /\ Skip \in Nat /\ Size \in Nat \ {0}
           /\ \A p : p = page + 1 => (p - 1) * Size = Skip + Size
           /\ page * Size = Skip + Size
<1>1. page \in Nat \ {0} /\ Size \in Nat \ {0}
  BY Values DEF TypeOK
<1> DEFINE n == page - 1
           s == Size
<1>2. n \in Nat /\ s \in Nat /\ page = n + 1
  BY <1>1
<1>3. Skip = n * s
  BY DEF Skip
<1> HIDE DEF n, s
<1>4. n * s \in Nat /\ (n + 1) * s = n * s + s
  BY <1>2
<1>5. page * s = Skip + s /\ Skip \in Nat
  BY <1>2, <1>3, <1>4
<1>6. \A p : p = page + 1 => (p - 1) * s = Skip + s
  <2> SUFFICES ASSUME NEW p, p = page + 1 PROVE (p - 1) * s = Skip + s
    OBVIOUS
  <2>1. p - 1 = page
    BY <1>1
  <2> QED BY <1>5, <2>1
<1> QED BY <1>1, <1>5, <1>6 DEF s

\* A page that has no next one ends with the rows that were counted.
LEMMA LastPage ==
    ASSUME TypeOK, ~(page < TotalPages)
    PROVE  total <= Skip + Size
<1> DEFINE s == Size
           t == total
           q == (t + s - 1) \div s
<1>1. s \in Nat \ {0} /\ t \in Nat /\ page \in Nat \ {0} /\ q = TotalPages
  BY Values DEF TypeOK, TotalPages
<1> HIDE DEF s, t
<1>2. q \in Nat /\ t + s - 1 < q * s + s
  BY <1>1
<1> HIDE DEF q
<1>3. page >= q
  BY <1>1, <1>2
<1>4. q * s <= page * s
  BY <1>1, <1>2, <1>3
<1>5. q * s \in Nat /\ page * s \in Nat
  BY <1>1, <1>2
<1>6. page * s = Skip + s
  BY Skipping DEF s
<1>7. t <= page * s
  BY <1>1, <1>2, <1>4, <1>5
<1> QED BY <1>6, <1>7 DEF t, s

\* By id the rows are in a total order.
LEMMA Ordered ==
    ASSUME TypeOK, ById, NEW q \in Rows, NEW r \in Rows
    PROVE  /\ q # r => (Precedes(q, r) <=> ~ Precedes(r, q))
           /\ ~ Precedes(r, r)
           /\ \A u \in Rows : Precedes(q, r) /\ Precedes(r, u) => Precedes(q, u)
<1>1. \A x \in Rows : Value(x) = x /\ x \in Int /\ x # Null
  BY PaginationAssumption DEF ById, Value
<1>2. walk.desc \in BOOLEAN
  BY Values
<1>3. CASE walk.desc
  BY <1>1, <1>3 DEF Precedes, Less
<1>4. CASE ~ walk.desc
  BY <1>1, <1>4 DEF Precedes, Less
<1> QED BY <1>2, <1>3, <1>4

LEMMA Counted ==
    ASSUME TypeOK, NEW S, S \subseteq Rows
    PROVE  /\ IsFiniteSet(S) /\ Cardinality(S) \in Nat
           /\ \A T : T \subseteq S => IsFiniteSet(T) /\ Cardinality(T) \in Nat
                                        /\ Cardinality(T) <= Cardinality(S)
           /\ \A T : T \subseteq S /\ T # S => Cardinality(T) < Cardinality(S)
<1>1. IsFiniteSet(S)
  BY PaginationAssumption, FS_Subset
<1>2. Cardinality(S) \in Nat
  BY <1>1, FS_CardinalityType
<1>3. ASSUME NEW T, T \subseteq S
      PROVE  /\ IsFiniteSet(T) /\ Cardinality(T) \in Nat /\ Cardinality(T) <= Cardinality(S)
             /\ T # S => Cardinality(T) < Cardinality(S)
  <2>1. IsFiniteSet(T) /\ Cardinality(T) <= Cardinality(S)
        /\ (Cardinality(T) = Cardinality(S) => T = S)
    BY <1>1, <1>3, FS_Subset
  <2>2. Cardinality(T) \in Nat
    BY <2>1, FS_CardinalityType
  <2> QED BY <1>2, <2>1, <2>2
<1> QED BY <1>1, <1>2, <1>3

\* The first n of some rows are those with less than n of them before.
LEMMA FirstById ==
    ASSUME TypeOK, ById, NEW S, S \subseteq Rows, NEW n \in Nat, NEW P \in FirstOf(S, n),
           NEW r \in S
    PROVE  /\ r \in P <=> Cardinality(Before(S, r)) < n
           /\ r \in P => Before(S, r) \subseteq P
<1> DEFINE B == Before(S, r)
<1>1. /\ P \subseteq S /\ Cardinality(P) <= n /\ (P = S \/ Cardinality(P) = n)
      /\ \A p \in P : \A q \in S \ P : ~ Precedes(q, p)
  BY DEF FirstOf, Limit
<1>2. B \subseteq S /\ B = {q \in S : Precedes(q, r)}
  BY DEF Before
<1> HIDE DEF B
<1>3. ASSUME r \in P
      PROVE  B \subseteq P /\ Cardinality(B) < n
  <2>1. B \subseteq P
    BY <1>1, <1>2, <1>3
  <2>2. r \notin B
    BY <1>2, Ordered
  <2>3. B # P /\ P \subseteq Rows
    BY <1>1, <1>3, <2>2
  <2>4. Cardinality(B) < Cardinality(P) /\ Cardinality(B) \in Nat /\ Cardinality(P) \in Nat
    BY <2>1, <2>3, Counted
  <2> QED BY <1>1, <2>1, <2>4
<1>4. ASSUME r \notin P
      PROVE  ~ (Cardinality(B) < n)
  <2>1. P \subseteq B
    <3> SUFFICES ASSUME NEW p \in P PROVE Precedes(p, r)
      BY <1>1, <1>2
    <3>1. ~ Precedes(r, p) /\ p # r /\ p \in Rows /\ r \in Rows
      BY <1>1, <1>4
    <3> QED BY <3>1, Ordered
  <2>2. Cardinality(P) = n
    BY <1>1, <1>4
  <2>3. B \subseteq Rows
    BY <1>2
  <2>4. Cardinality(P) <= Cardinality(B) /\ Cardinality(B) \in Nat
    BY <2>1, <2>3, Counted
  <2> QED BY <2>2, <2>4
<1> QED BY <1>3, <1>4 DEF B

\* A page has the rows that as many come before as it says.
LEMMA PageById ==
    ASSUME TypeOK, ById, Find
    PROVE  /\ data' \subseteq stored
           /\ \A r \in stored : r \in data' <=> Skip <= Position(r) /\ Position(r) < Skip + Size
<1>1. PICK first \in FirstOf(stored, Skip + Size) : \E skipped \in FirstOf(first, Skip) :
          data' = first \ skipped
  BY DEF Find
<1>2. PICK skipped \in FirstOf(first, Skip) : data' = first \ skipped
  BY <1>1
<1>3. stored \subseteq Rows /\ first \subseteq stored /\ Skip \in Nat /\ Skip + Size \in Nat
  BY Selected, Skipping DEF TypeOK
<1>4. ASSUME NEW r \in stored
      PROVE  r \in data' <=> Skip <= Position(r) /\ Position(r) < Skip + Size
  <2>1. /\ r \in first <=> Position(r) < Skip + Size
        /\ r \in first => Before(stored, r) \subseteq first
    BY <1>3, FirstById DEF Position
  <2>2. Position(r) \in Nat
    BY <1>3, Counted DEF Position, Before
  <2>3. ASSUME r \in first
        PROVE  r \in skipped <=> Position(r) < Skip
    <3>1. Before(first, r) = Before(stored, r)
      BY <1>3, <2>1, <2>3 DEF Before
    <3> QED BY <1>3, <2>3, <3>1, FirstById DEF Position
  <2> QED BY <1>2, <1>3, <2>1, <2>2, <2>3
<1> QED BY <1>2, <1>3, <1>4

\* What a step that writes nothing leaves as it is.
LEMMA SamePositions ==
    ASSUME UNCHANGED <<stored, rank, walk>>
    PROVE  /\ \A r : Position(r)' = Position(r)
           /\ Size' = Size
<1>1. \A q, r : Precedes(q, r)' = Precedes(q, r)
  BY DEF Precedes, Value
<1> QED BY <1>1 DEF Position, Before, Size

LEMMA OffsetInit == Init => OffsetInv
<1> SUFFICES ASSUME Init PROVE OffsetInv
  OBVIOUS
<1>1. TypeOK
  BY TypeInit
<1>2. Skip = 0
  <2>1. page = 1
    BY DEF Init, PageNumber
  <2>2. Size \in Nat
    BY <1>1, Skipping
  <2> QED BY <2>1, <2>2 DEF Skip
<1>3. NoneAhead
  BY DEF Init, NoneAhead
<1>4. NoneMissed
  <2>1. \A r \in stored : Position(r) >= 0
    BY <1>1, Counted DEF Position, Before, TypeOK
  <2> QED BY <1>2, <2>1 DEF Init, NoneMissed, Steady
<1> QED BY <1>1, <1>3, <1>4 DEF OffsetInv

LEMMA OffsetCount == OffsetInv /\ Count => OffsetInv'
<1> SUFFICES ASSUME OffsetInv, Count PROVE OffsetInv'
  OBVIOUS
<1>1. UNCHANGED <<stored, rank, walk, page, data, seen, twice, inserted, deleted, moved>>
  BY DEF Count, db, answers
<1>2. /\ \A r : Position(r)' = Position(r)
      /\ Skip' = Skip /\ Size' = Size /\ Steady' = Steady /\ ById' = ById
  BY <1>1, SamePositions DEF Skip, Steady, ById
<1>3. pc = "ask" /\ pc' = "counted" /\ total' = Cardinality(stored)
  BY DEF Count
<1>4. NoneAhead'
  BY <1>1, <1>2, <1>3 DEF OffsetInv, NoneAhead
<1>5. NoneMissed'
  BY <1>1, <1>2, <1>3 DEF OffsetInv, NoneMissed
<1> QED BY <1>4, <1>5, TypePaginate DEF OffsetInv

LEMMA OffsetFind == OffsetInv /\ Find => OffsetInv'
<1> SUFFICES ASSUME OffsetInv, Find PROVE OffsetInv'
  OBVIOUS
<1> USE DEF OffsetInv
<1>1. UNCHANGED <<stored, rank, walk, page, total, seen, twice, inserted, deleted, moved, raced>>
      /\ pc = "counted" /\ pc' = "found"
  BY DEF Find, db, answers, history
<1>2. /\ \A r : Position(r)' = Position(r)
      /\ Skip' = Skip /\ Size' = Size /\ Steady' = Steady /\ ById' = ById
  BY <1>1, SamePositions DEF Skip, Steady, ById
<1>3. /\ stored \subseteq Rows /\ Skip \in Nat /\ Size \in Nat
      /\ \A r \in stored : /\ Position(r) \in Nat
                           /\ ById => Position(r) < Cardinality(stored)
      /\ Cardinality(stored) \in Nat /\ Steady \subseteq stored
  <2>1. stored \subseteq Rows
    BY DEF TypeOK
  <2>2. ASSUME ById, NEW r \in stored
        PROVE  Position(r) < Cardinality(stored)
    <3>1. Before(stored, r) \subseteq stored /\ r \notin Before(stored, r)
      BY <2>1, <2>2, Ordered DEF Before
    <3> QED BY <2>1, <2>2, <3>1, Counted DEF Position
  <2>3. \A r \in stored : Position(r) \in Nat
    BY <2>1, Counted DEF Position, Before
  <2>4. Cardinality(stored) \in Nat /\ Steady \subseteq stored
    BY <2>1, Counted DEF Steady
  <2> QED BY <2>1, <2>2, <2>3, <2>4, Skipping
<1>4. NoneAhead'
  <2> SUFFICES ASSUME ById, inserted = {} PROVE NoneAhead'
    BY <1>1, <1>2 DEF NoneAhead
  <2>1. /\ data' \subseteq stored
        /\ \A r \in stored : r \in data' <=> Skip <= Position(r) /\ Position(r) < Skip + Size
    BY PageById
  <2>2. twice = {} /\ \A r \in seen \cap stored : Position(r) < Skip
    BY <1>1 DEF NoneAhead
  <2>3. data' \cap seen = {}
    BY <1>3, <2>1, <2>2
  <2> QED BY <1>1, <1>2, <2>1, <2>2, <2>3 DEF NoneAhead
<1>5. NoneMissed'
  <2> SUFFICES ASSUME ById, deleted = {} PROVE NoneMissed'
    BY <1>1, <1>2 DEF NoneMissed
  <2>1. /\ data' \subseteq stored
        /\ \A r \in stored : r \in data' <=> Skip <= Position(r) /\ Position(r) < Skip + Size
    BY PageById
  <2>2. /\ \A r \in Steady \ seen : Position(r) >= Skip
        /\ ~raced => total = Cardinality(stored)
    BY <1>1 DEF NoneMissed
  <2>3. \A r \in Steady \ (seen \cup data') : Position(r) >= Skip + Size
    BY <1>3, <2>1, <2>2
  <2>4. ~raced /\ total <= Skip + Size => Steady \subseteq seen \cup data'
    BY <1>3, <2>2, <2>3
  <2> QED BY <1>1, <1>2, <2>2, <2>3, <2>4 DEF NoneMissed
<1> QED BY <1>4, <1>5, TypePaginate

LEMMA OffsetLoad == OffsetInv /\ Load => OffsetInv'
<1> SUFFICES ASSUME OffsetInv, Load PROVE OffsetInv'
  OBVIOUS
<1> USE DEF OffsetInv
<1>1. /\ UNCHANGED <<stored, rank, walk, inserted, deleted, moved, raced>> /\ pc = "found"
      /\ seen' = seen \cup data /\ twice' = twice \cup (seen \cap data)
      /\ data' = {}
      /\ \/ pc' = "ask" /\ page' = page + 1
         \/ pc' = "done" /\ page' = page /\ ~(page < TotalPages)
  BY DEF Load, Return, db, history
<1>2. /\ \A r : Position(r)' = Position(r)
      /\ Size' = Size /\ Steady' = Steady /\ ById' = ById
  BY <1>1, SamePositions DEF Steady, ById
<1>3. pc' = "ask" => Skip' = Skip + Size
  <2> SUFFICES ASSUME page' = page + 1 PROVE Skip' = Skip + Size
    BY <1>1
  <2>1. Skip' = (page' - 1) * Size
    BY <1>2 DEF Skip
  <2> QED BY <2>1, Skipping
<1>4. /\ Skip \in Nat /\ Size \in Nat \ {0}
      /\ \A r \in stored : Position(r) \in Nat
      /\ Steady \subseteq stored
  BY Skipping, Counted DEF Position, Before, TypeOK, Steady
<1>5. NoneAhead'
  <2> SUFFICES ASSUME ById, inserted = {} PROVE NoneAhead'
    BY <1>1, <1>2 DEF NoneAhead
  <2>1. /\ twice = {} /\ data \cap seen = {}
        /\ \A r \in seen \cap stored : Position(r) < Skip
        /\ \A r \in data \cap stored : Position(r) < Skip + Size
    BY <1>1 DEF NoneAhead
  <2>2. twice' = {}
    BY <1>1, <2>1
  <2>3. ASSUME pc' = "ask", NEW r \in seen' \cap stored
        PROVE  Position(r)' < Skip'
    BY <1>1, <1>2, <1>3, <1>4, <2>1, <2>3
  <2> QED BY <1>1, <2>2, <2>3 DEF NoneAhead
<1>6. NoneMissed'
  <2> SUFFICES ASSUME ById, deleted = {} PROVE NoneMissed'
    BY <1>1, <1>2 DEF NoneMissed
  <2>1. /\ \A r \in Steady \ (seen \cup data) : Position(r) >= Skip + Size
        /\ ~raced /\ total <= Skip + Size => Steady \subseteq seen \cup data
    BY <1>1 DEF NoneMissed
  <2>2. ASSUME pc' = "ask", NEW r \in Steady' \ seen'
        PROVE  Position(r)' >= Skip'
    BY <1>1, <1>2, <1>3, <2>1, <2>2
  <2>3. pc' = "done" /\ ~raced => Steady \subseteq seen'
    BY <1>1, <2>1, LastPage
  <2> QED BY <1>1, <1>2, <2>2, <2>3 DEF NoneMissed
<1> QED BY <1>5, <1>6, TypePaginate

LEMMA OffsetFail == OffsetInv /\ Fail => OffsetInv'
<1> SUFFICES ASSUME OffsetInv, Fail PROVE OffsetInv'
  OBVIOUS
<1>1. UNCHANGED <<stored, rank, walk, page, seen, twice, inserted, deleted, moved>>
      /\ pc # "done" /\ pc' = "ask"
  BY DEF Fail, db, answers, history
<1>2. /\ \A r : Position(r)' = Position(r)
      /\ Skip' = Skip /\ Steady' = Steady /\ ById' = ById
  BY <1>1, SamePositions DEF Skip, Steady, ById
<1>3. NoneAhead'
  BY <1>1, <1>2 DEF OffsetInv, NoneAhead
<1>4. NoneMissed'
  BY <1>1, <1>2 DEF OffsetInv, NoneMissed
<1> QED BY <1>3, <1>4, TypePaginate DEF OffsetInv

\* Deletes bring rows forward, inserts put them back.
LEMMA Moves ==
    ASSUME TypeOK, TypeOK', ById, walk' = walk, NEW r \in Rows
    PROVE  /\ stored' \subseteq stored => Position(r)' <= Position(r)
           /\ stored \subseteq stored' => Position(r)' >= Position(r)
           /\ Position(r) \in Nat /\ Position(r)' \in Nat
<1> DEFINE B == Before(stored, r)
           C == Before(stored, r)'
<1>1. \A q \in Rows : Precedes(q, r)' <=> Precedes(q, r)
  <2>1. walk.field = "id"
    BY DEF ById
  <2> QED BY <2>1 DEF Precedes, Value
<1>2. stored \subseteq Rows /\ stored' \subseteq Rows
  BY DEF TypeOK
<1>3. B = {q \in stored : Precedes(q, r)} /\ C = {q \in stored' : Precedes(q, r)}
  BY <1>1, <1>2 DEF Before
<1>4. Position(r) = Cardinality(B) /\ Position(r)' = Cardinality(C)
  BY DEF Position
<1> HIDE DEF B, C
<1>5. B \subseteq Rows /\ C \subseteq Rows
  BY <1>2, <1>3
<1>6. Cardinality(B) \in Nat /\ Cardinality(C) \in Nat
  BY <1>5, Counted
<1>7. stored' \subseteq stored => Cardinality(C) <= Cardinality(B)
  <2> SUFFICES ASSUME stored' \subseteq stored PROVE Cardinality(C) <= Cardinality(B)
    OBVIOUS
  <2>1. C \subseteq B
    BY <1>3
  <2> QED BY <1>5, <2>1, Counted
<1>8. stored \subseteq stored' => Cardinality(B) <= Cardinality(C)
  <2> SUFFICES ASSUME stored \subseteq stored' PROVE Cardinality(B) <= Cardinality(C)
    OBVIOUS
  <2>1. B \subseteq C
    BY <1>3
  <2> QED BY <1>5, <2>1, Counted
<1> QED BY <1>4, <1>6, <1>7, <1>8

LEMMA OffsetWrite == OffsetInv /\ Write => OffsetInv'
<1> SUFFICES ASSUME OffsetInv, Write PROVE OffsetInv'
  OBVIOUS
<1> USE DEF OffsetInv
<1>1. TypeOK'
  BY TypeWrite
<1>2. UNCHANGED <<walk, request, answers>> /\ pc # "done"
  BY DEF Write, Insert, Delete, Update, MoveKid
<1> DEFINE Told ==
      /\ inserted \subseteq inserted' /\ deleted \subseteq deleted'
      /\ Steady' \subseteq Steady /\ (raced => raced')
      /\ inserted' = {} => stored' \subseteq stored
      /\ deleted' = {} => stored \subseteq stored'
      /\ pc = "counted" /\ ~raced' /\ deleted' = {} => stored' = stored
<1>3. Told
  <2>1. ASSUME NEW r \in Rows, Insert(r) PROVE Told
    <3>1. /\ stored' = stored \cup {r} /\ inserted' = inserted \cup {r} /\ deleted' = deleted
          /\ moved \subseteq moved'
      BY <2>1 DEF Insert
    <3>2. raced' = (raced \/ pc = "counted")
      BY <2>1 DEF Insert
    <3>3. Steady' \subseteq Steady
      BY <3>1 DEF Steady
    <3> QED BY <3>1, <3>2, <3>3
  <2>2. ASSUME NEW r \in Rows, Delete(r) PROVE Told
    <3>1. /\ stored' = stored \ {r} /\ deleted' = deleted \cup {r} /\ inserted' = inserted
          /\ moved \subseteq moved' /\ raced' = raced
      BY <2>2 DEF Delete
    <3>2. Steady' \subseteq Steady
      BY <3>1 DEF Steady
    <3>3. deleted' # {}
      BY <3>1
    <3> QED BY <3>1, <3>2, <3>3
  <2>3. ASSUME /\ UNCHANGED <<stored, inserted, deleted, raced>>
               /\ moved \subseteq moved'
        PROVE  Told
    <3>1. Steady' \subseteq Steady
      BY <2>3 DEF Steady
    <3> QED BY <2>3, <3>1
  <2>4. ASSUME NEW r, NEW v, Update(r, v) PROVE Told
    BY <2>3, <2>4 DEF Update
  <2>5. ASSUME NEW k, NEW q, MoveKid(k, q) PROVE Told
    BY <2>3, <2>5 DEF MoveKid
  <2> HIDE DEF Told
  <2> QED BY <2>1, <2>2, <2>4, <2>5 DEF Write
<1>4. Skip' = Skip /\ Size' = Size /\ ById' = ById
  BY <1>2 DEF Skip, Size, ById, request
<1>5. Skip \in Nat /\ Size \in Nat /\ stored \subseteq Rows /\ stored' \subseteq Rows
      /\ Steady \subseteq stored /\ Steady' \subseteq stored'
  BY <1>1, Skipping DEF TypeOK, Steady
<1>6. NoneAhead'
  <2> SUFFICES ASSUME ById, inserted' = {} PROVE NoneAhead'
    BY <1>2, <1>4 DEF NoneAhead
  <2>1. stored' \subseteq stored /\ inserted = {}
    BY <1>3
  <2>2. \A r \in stored' : /\ Position(r)' <= Position(r)
                           /\ Position(r) \in Nat /\ Position(r)' \in Nat
    BY <1>1, <1>2, <1>5, <2>1, Moves
  <2>3. /\ twice = {} /\ \A r \in seen \cap stored : Position(r) < Skip
        /\ pc = "found" => /\ data \cap seen = {}
                           /\ \A r \in data \cap stored : Position(r) < Skip + Size
    BY <1>2, <2>1 DEF NoneAhead
  <2>4. \A r \in seen \cap stored' : Position(r)' < Skip
    BY <1>5, <2>1, <2>2, <2>3
  <2>5. pc = "found" => \A r \in data \cap stored' : Position(r)' < Skip + Size
    BY <1>5, <2>1, <2>2, <2>3
  <2> QED BY <1>2, <1>4, <2>3, <2>4, <2>5 DEF NoneAhead, request, answers
<1>7. NoneMissed'
  <2> SUFFICES ASSUME ById, deleted' = {} PROVE NoneMissed'
    BY <1>2, <1>4 DEF NoneMissed
  <2>1. stored \subseteq stored' /\ deleted = {}
    BY <1>3
  <2>2. \A r \in stored : /\ Position(r)' >= Position(r)
                          /\ Position(r) \in Nat /\ Position(r)' \in Nat
    BY <1>1, <1>2, <1>5, <2>1, Moves
  <2>3. /\ \A r \in Steady \ seen : Position(r) >= Skip
        /\ pc = "counted" /\ ~raced => total = Cardinality(stored)
        /\ pc = "found" => \A r \in Steady \ (seen \cup data) : Position(r) >= Skip + Size
        /\ pc = "found" /\ ~raced /\ total <= Skip + Size => Steady \subseteq seen \cup data
    BY <1>2, <2>1 DEF NoneMissed
  <2>4. \A r \in Steady' \ seen : Position(r)' >= Skip
    BY <1>3, <1>5, <2>2, <2>3
  <2>5. pc = "found" => \A r \in Steady' \ (seen \cup data) : Position(r)' >= Skip + Size
    BY <1>3, <1>5, <2>2, <2>3
  <2>6. pc = "counted" /\ ~raced' => total = Cardinality(stored')
    BY <1>3, <2>3
  <2>7. pc = "found" /\ ~raced' /\ total <= Skip + Size => Steady' \subseteq seen \cup data
    BY <1>3, <2>3
  <2> QED BY <1>2, <1>4, <2>4, <2>5, <2>6, <2>7 DEF NoneMissed, request, answers
<1> QED BY <1>1, <1>6, <1>7

LEMMA OffsetNext == OffsetInv /\ [Next]_vars => OffsetInv'
<1> SUFFICES ASSUME OffsetInv, [Next]_vars PROVE OffsetInv'
  OBVIOUS
<1>1. CASE CursorPage
  <2>1. walk.kind = "cursor" /\ walk' = walk
    BY <1>1 DEF CursorPage
  <2>2. ~ ById'
    BY <2>1 DEF ById
  <2> QED BY <1>1, <2>2, TypeCursorPage DEF OffsetInv, NoneAhead, NoneMissed
<1>2. CASE UNCHANGED vars
  <2>1. UNCHANGED <<stored, rank, walk, pc, page, total, data, seen, twice,
                    inserted, deleted, moved, raced>>
    BY <1>2 DEF vars, db, request, answers, history
  <2>2. /\ \A r : Position(r)' = Position(r)
        /\ Skip' = Skip /\ Size' = Size /\ Steady' = Steady /\ ById' = ById
    BY <2>1, SamePositions DEF Skip, Steady, ById
  <2>3. TypeOK'
    BY TypeNext DEF OffsetInv
  <2>4. NoneAhead'
    BY <2>1, <2>2 DEF OffsetInv, NoneAhead
  <2>5. NoneMissed'
    BY <2>1, <2>2 DEF OffsetInv, NoneMissed
  <2> QED BY <2>3, <2>4, <2>5 DEF OffsetInv
<1> QED BY <1>1, <1>2, OffsetCount, OffsetFind, OffsetLoad, OffsetFail, OffsetWrite DEF Next

\* With any rows, page sizes and writes: the pages of paginate by id repeat a row only after
\* an insert, and miss one that nobody wrote only after a delete, or an insert between the
\* count and the select of the last page.
THEOREM OffsetConsistent == Spec => []OffsetDrift
<1>1. OffsetInv => OffsetDrift
  BY DEF OffsetInv, NoneAhead, NoneMissed, OffsetDrift, ById
<1> QED BY <1>1, OffsetInit, OffsetNext, PTL DEF Spec

=============================================================================
