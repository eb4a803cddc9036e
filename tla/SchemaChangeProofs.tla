------------------------- MODULE SchemaChangeProofs -------------------------
(***************************************************************************)
(* Proofs about SchemaChange.                                              *)
(*                                                                         *)
(* The text of a migration is put together by folds over the orders of     *)
(* sets, and its execution is a fold over its statements.  What these      *)
(* folds do is proved by induction on numbers: UpTo is the principle for a *)
(* set, which a proof applies to the set of the numbers that have the      *)
(* property.                                                               *)
(***************************************************************************)
EXTENDS SchemaChange, FiniteSetTheorems, WellFoundedInduction, TLAPS

-----------------------------------------------------------------------------
(* Induction and folds                                                      *)

\* A set of naturals that is not empty has a least element.
LEMMA LeastOf ==
    ASSUME NEW T, T \subseteq Nat, T # {}
    PROVE  \E n \in T : \A m \in T : n <= m
<1> DEFINE R == {p \in Nat \X Nat : p[1] < p[2]}
<1>1. IsWellFoundedOn(R, Nat)
  BY NatLessThanWellFounded, Zenon DEF OpToRel
<1>2. PICK x \in T : \A y \in T : <<y, x>> \notin R
  <2> HIDE DEF R
  <2> QED BY <1>1, WFMin
<1>3. \A y \in T : ~ (y < x)
  BY <1>2
<1> QED BY <1>3

\* Induction: a set with 0 and the successor of each of its elements up to n has them all.
LEMMA UpTo ==
    ASSUME NEW n \in Nat, NEW T, 0 \in T,
           \A i \in 0 .. n : i \in T /\ i < n => i + 1 \in T
    PROVE  \A i \in 0 .. n : i \in T
<1> SUFFICES ASSUME NEW k \in 0 .. n, k \notin T PROVE FALSE
  OBVIOUS
<1> DEFINE U == {i \in 0 .. n : i \notin T}
<1>1. PICK least \in U : \A m \in U : least <= m
  <2>1. U \subseteq Nat /\ U # {}
    OBVIOUS
  <2> HIDE DEF U
  <2> QED BY <2>1, LeastOf
<1>2. least \in 0 .. n /\ least \notin T /\ least # 0
  OBVIOUS
<1>3. least - 1 \in 0 .. n /\ least - 1 < n
  BY <1>2
<1>4. least - 1 \in T
  BY <1>1, <1>2, <1>3
<1>5. (least - 1) + 1 \in T
  BY <1>3, <1>4
<1> QED BY <1>2, <1>5

\* The greatest of some numbers up to n.
LEMMA Greatest ==
    ASSUME NEW n \in Nat, NEW S \in SUBSET (1 .. n), S # {}
    PROVE  /\ Max(S) \in S
           /\ \A x \in S : x <= Max(S)
<1> DEFINE D == {n - x : x \in S}
<1>1. PICK d \in D : \A e \in D : d <= e
  <2>1. \A x \in S : n - x \in Nat
    OBVIOUS
  <2>2. D \subseteq Nat /\ D # {}
    BY <2>1
  <2> HIDE DEF D
  <2> QED BY <2>2, LeastOf
<1>2. PICK y \in S : d = n - y
  OBVIOUS
<1>3. \A x \in S : y >= x
  <2> SUFFICES ASSUME NEW x \in S PROVE y >= x
    OBVIOUS
  <2>1. n - y <= n - x
    BY <1>1, <1>2
  <2> QED BY <2>1
<1>4. \E x \in S : \A z \in S : x >= z
  BY <1>3
<1>5. Max(S) \in S /\ \A x \in S : Max(S) >= x
  BY <1>4 DEF Max
<1> QED BY <1>5

LEMMA Initials ==
    ASSUME NEW i \in Nat, i > 0
    PROVE  Max(1 .. i) = i /\ (1 .. i) \ {i} = 1 .. (i - 1)
<1>1. 1 .. i \in SUBSET (1 .. i) /\ 1 .. i # {} /\ i \in 1 .. i
  OBVIOUS
<1>2. Max(1 .. i) \in 1 .. i /\ i <= Max(1 .. i)
  BY <1>1, Greatest
<1> QED BY <1>2

\* The text of a migration is executed statement by statement.
LEMMA Execution ==
    ASSUME NEW d, NEW sql, NEW n \in Nat, DOMAIN sql = 1 .. n
    PROVE  \E acc : /\ acc[0] = d
                    /\ \A i \in 1 .. n : acc[i] = Execute(acc[i - 1], sql[i])
                    /\ Executed(d, sql) = acc[n]
<1> DEFINE Parts(k) == {s \in SUBSET (1 .. n) : s \subseteq 1 .. k}
           Is(g, k) == /\ DOMAIN g = Parts(k)
                       /\ \A s \in Parts(k) : g[s] = IF s = {} THEN d
                               ELSE Execute(g[s \ {Max(s)}], sql[Max(s)])
           T == {k \in 0 .. n : \E g : Is(g, k)}
<1>1. 0 \in T
  <2> DEFINE g == [s \in Parts(0) |-> d]
  <2>1. Parts(0) = {{}}
    OBVIOUS
  <2>2. Is(g, 0)
    BY <2>1
  <2>3. \E f : Is(f, 0)
    <3> HIDE DEF g, Is
    <3> QED BY <2>2
  <2> HIDE DEF Is
  <2> QED BY <2>3
<1>2. ASSUME NEW k \in 0 .. n, k \in T, k < n
      PROVE  k + 1 \in T
  <2>1. PICK g : Is(g, k)
    BY <1>2
  <2> DEFINE Val(s) == IF s = {} THEN d ELSE Execute(g[s \ {Max(s)}], sql[Max(s)])
             h == [s \in Parts(k + 1) |-> Val(s)]
  <2>2. \A s \in Parts(k + 1) : s # {} => s \ {Max(s)} \in Parts(k)
    <3> SUFFICES ASSUME NEW s \in Parts(k + 1), s # {}
                 PROVE  s \ {Max(s)} \subseteq 1 .. k /\ s \ {Max(s)} \subseteq 1 .. n
      OBVIOUS
    <3>1. s \in SUBSET (1 .. (k + 1)) /\ s \in SUBSET (1 .. n)
      OBVIOUS
    <3>2. Max(s) \in s /\ \A x \in s : x <= Max(s)
      BY <3>1, Greatest
    <3> HIDE DEF Parts
    <3>3. ASSUME NEW x \in s, x # Max(s)
          PROVE  x \in 1 .. k
      <4>1. x \in 1 .. (k + 1) /\ Max(s) \in 1 .. (k + 1) /\ x <= Max(s)
        BY <3>1, <3>2
      <4> QED BY <3>3, <4>1
    <3>4. s \ {Max(s)} \subseteq 1 .. k
      BY <3>3
    <3>5. s \ {Max(s)} \subseteq 1 .. n
      BY <3>1
    <3> QED BY <3>4, <3>5
  <2>3. \A s \in Parts(k) : s \in Parts(k + 1) /\ h[s] = g[s]
    <3> SUFFICES ASSUME NEW s \in Parts(k)
                 PROVE  s \in Parts(k + 1) /\ h[s] = g[s]
      OBVIOUS
    <3>1. 1 .. k \subseteq 1 .. (k + 1)
      OBVIOUS
    <3>2. s \in Parts(k + 1)
      BY <3>1
    <3>3. h[s] = Val(s)
      BY <3>2
    <3>4. g[s] = Val(s)
      BY <2>1
    <3> QED BY <3>2, <3>3, <3>4
  <2>4. Is(h, k + 1)
    <3> SUFFICES ASSUME NEW s \in Parts(k + 1)
                 PROVE  h[s] = IF s = {} THEN d ELSE Execute(h[s \ {Max(s)}], sql[Max(s)])
      OBVIOUS
    <3>1. CASE s = {}
      BY <3>1
    <3>2. CASE s # {}
      <4>1. h[s \ {Max(s)}] = g[s \ {Max(s)}]
        BY <2>2, <2>3, <3>2
      <4> QED BY <3>2, <4>1
    <3> QED BY <3>1, <3>2
  <2>5. \E f : Is(f, k + 1)
    <3> HIDE DEF h, Is
    <3> QED BY <2>4
  <2>6. k + 1 \in 0 .. n
    BY <1>2
  <2> HIDE DEF Is
  <2> QED BY <2>5, <2>6
<1>3. n \in T
  <2>1. \A i \in 0 .. n : i \in T /\ i < n => i + 1 \in T
    BY <1>2
  <2> HIDE DEF T
  <2>2. \A i \in 0 .. n : i \in T
    BY <1>1, <2>1, UpTo
  <2> QED BY <2>2
<1> DEFINE Fold(g) == [s \in SUBSET (1 .. n) |->
                          IF s = {} THEN d ELSE Execute(g[s \ {Max(s)}], sql[Max(s)])]
           iter == CHOOSE g : g = Fold(g)
<1>4. \E g : g = Fold(g)
  <2>1. PICK g : Is(g, n)
    BY <1>3
  <2>2. Parts(n) = SUBSET (1 .. n)
    OBVIOUS
  <2> DEFINE h == [s \in SUBSET (1 .. n) |-> g[s]]
  <2>3. \A s \in SUBSET (1 .. n) : h[s] = Fold(h)[s]
    <3> SUFFICES ASSUME NEW s \in SUBSET (1 .. n)
                 PROVE  h[s] = IF s = {} THEN d ELSE Execute(h[s \ {Max(s)}], sql[Max(s)])
      OBVIOUS
    <3>1. s \ {Max(s)} \in SUBSET (1 .. n)
      OBVIOUS
    <3> QED BY <2>1, <2>2, <3>1
  <2>4. h = Fold(h)
    BY <2>3
  <2> QED BY <2>4
<1>5. iter = Fold(iter)
  BY <1>4
<1>6. Executed(d, sql) = iter[1 .. n]
  BY DEF Executed, FoldLeft, MapThenFoldSet
<1>7. /\ iter[1 .. 0] = d
      /\ \A i \in 1 .. n : iter[1 .. i] = Execute(iter[1 .. (i - 1)], sql[i])
  <2> HIDE DEF iter
  <2>1. \A s \in SUBSET (1 .. n) :
            iter[s] = IF s = {} THEN d ELSE Execute(iter[s \ {Max(s)}], sql[Max(s)])
    BY <1>5
  <2>2. ASSUME NEW i \in 1 .. n
        PROVE  iter[1 .. i] = Execute(iter[1 .. (i - 1)], sql[i])
    <3>1. 1 .. i \in SUBSET (1 .. n) /\ 1 .. i # {}
      OBVIOUS
    <3>2. Max(1 .. i) = i /\ (1 .. i) \ {i} = 1 .. (i - 1)
      BY Initials
    <3> QED BY <2>1, <3>1, <3>2
  <2>3. 1 .. 0 = {}
    OBVIOUS
  <2> QED BY <2>1, <2>2, <2>3
<1> DEFINE acc == [i \in 0 .. n |-> iter[1 .. i]]
<1>8. /\ acc[0] = d
      /\ \A i \in 1 .. n : acc[i] = Execute(acc[i - 1], sql[i])
      /\ Executed(d, sql) = acc[n]
  <2> HIDE DEF iter
  <2> QED BY <1>6, <1>7
<1> QED BY <1>8

\* FlattenSeq puts sequences after one another.
LEMMA Flattening ==
    ASSUME NEW V, NEW q \in Seq(Seq(V)), q # <<>>
    PROVE  \E flat : /\ flat[1] = q[1]
                     /\ \A i \in 2 .. Len(q) : flat[i] = flat[i - 1] \o q[i]
                     /\ FlattenSeq(q) = flat[Len(q)]
<1> DEFINE n == Len(q)
           Is(g, k) == /\ DOMAIN g = 1 .. k
                       /\ \A i \in 1 .. k : g[i] = IF i = 1 THEN q[i] ELSE g[i - 1] \o q[i]
           T == {k \in 0 .. n : \E g : Is(g, k)}
<1>1. n \in Nat /\ n > 0 /\ DOMAIN q = 1 .. n
  OBVIOUS
<1> HIDE DEF n
<1>2. 0 \in T
  <2> DEFINE g == [i \in 1 .. 0 |-> q]
  <2>1. Is(g, 0)
    OBVIOUS
  <2>2. \E f : Is(f, 0)
    <3> HIDE DEF g, Is
    <3> QED BY <2>1
  <2> HIDE DEF Is
  <2> QED BY <1>1, <2>2
<1>3. ASSUME NEW k \in 0 .. n, k \in T, k < n
      PROVE  k + 1 \in T
  <2>1. PICK g : Is(g, k)
    BY <1>3
  <2> DEFINE Val(i) == IF i = 1 THEN q[i] ELSE g[i - 1] \o q[i]
             h == [i \in 1 .. (k + 1) |-> Val(i)]
  <2>2. ASSUME NEW i \in 1 .. k
        PROVE  h[i] = g[i]
    <3>1. i \in 1 .. (k + 1)
      OBVIOUS
    <3>2. h[i] = Val(i)
      BY <3>1
    <3> QED BY <2>1, <3>2
  <2>3. Is(h, k + 1)
    <3> SUFFICES ASSUME NEW i \in 1 .. (k + 1)
                 PROVE  h[i] = IF i = 1 THEN q[i] ELSE h[i - 1] \o q[i]
      OBVIOUS
    <3>1. CASE i = 1
      BY <3>1
    <3>2. CASE i # 1
      <4>1. i - 1 \in 1 .. k
        BY <3>2
      <4>2. h[i - 1] = g[i - 1]
        BY <2>2, <4>1
      <4>3. h[i] = g[i - 1] \o q[i]
        BY <3>2
      <4> QED BY <3>2, <4>2, <4>3
    <3> QED BY <3>1, <3>2
  <2>4. \E f : Is(f, k + 1)
    <3> HIDE DEF h, Is
    <3> QED BY <2>3
  <2>5. k + 1 \in 0 .. n
    BY <1>1, <1>3
  <2> HIDE DEF Is
  <2> QED BY <2>4, <2>5
<1>4. \E g : Is(g, n)
  <2>1. \A i \in 0 .. n : i \in T /\ i < n => i + 1 \in T
    BY <1>3
  <2>2. n \in T
    <3> HIDE DEF T
    <3>1. \A i \in 0 .. n : i \in T
      BY <1>1, <1>2, <2>1, UpTo
    <3> QED BY <1>1, <3>1
  <2> HIDE DEF Is
  <2> QED BY <2>2
<1> DEFINE Fold(g) == [i \in 1 .. n |-> IF i = 1 THEN q[i] ELSE g[i - 1] \o q[i]]
           flat == CHOOSE g : g = Fold(g)
<1>5. \E g : g = Fold(g)
  <2>1. PICK g : Is(g, n)
    BY <1>4
  <2> DEFINE h == [i \in 1 .. n |-> g[i]]
  <2>2. ASSUME NEW i \in 1 .. n
        PROVE  h[i] = IF i = 1 THEN q[i] ELSE h[i - 1] \o q[i]
    <3>1. i # 1 => i - 1 \in 1 .. n
      BY <1>1
    <3> QED BY <2>1, <3>1
  <2>3. h = Fold(h)
    BY <2>2
  <2> QED BY <2>3
<1>6. flat = Fold(flat)
  BY <1>5
<1>7. FlattenSeq(q) = flat[n]
  BY <1>1 DEF FlattenSeq, n
<1>8. /\ flat[1] = q[1]
      /\ \A i \in 2 .. n : flat[i] = flat[i - 1] \o q[i]
  <2> HIDE DEF flat
  <2>1. \A i \in 1 .. n : flat[i] = IF i = 1 THEN q[i] ELSE flat[i - 1] \o q[i]
    BY <1>6
  <2>2. 1 \in 1 .. n
    BY <1>1
  <2>3. ASSUME NEW i \in 2 .. n
        PROVE  i \in 1 .. n /\ i # 1
    OBVIOUS
  <2>4. flat[1] = q[1]
    BY <2>1, <2>2
  <2> QED BY <2>1, <2>3, <2>4
<1> HIDE DEF flat
<1> QED BY <1>7, <1>8 DEF n

-----------------------------------------------------------------------------
(* The texts of a migration                                                 *)

\* Where GenerateMigrationSQL puts a statement: tables, then fields, then enums; of a
\* table new columns first, altered ones last.
Place(s) == CASE s.kind = "createTable" -> 1
              [] s.kind = "dropTable"   -> 2
              [] s.kind = "createType"  -> 4
              [] s.kind = "dropType"    -> 5
              [] OTHER -> 3
FieldPlace(s) == CASE s.kind = "addColumn"  -> 1
                   [] s.kind = "dropColumn" -> 2
                   [] OTHER -> 3

LEMMA Places ==
    ASSUME NEW s
    PROVE  /\ s.kind = "createTable" => Place(s) = 1
           /\ s.kind = "dropTable" => Place(s) = 2
           /\ s.kind = "addColumn" => Place(s) = 3 /\ FieldPlace(s) = 1
           /\ s.kind = "dropColumn" => Place(s) = 3 /\ FieldPlace(s) = 2
           /\ s.kind \in {"setType", "setNull"} => Place(s) = 3 /\ FieldPlace(s) = 3
           /\ s.kind = "createType" => Place(s) = 4
           /\ s.kind = "dropType" => Place(s) = 5
BY DEF Place, FieldPlace

\* The parts of each statement.
LEMMA TableStatements ==
    /\ \A m : /\ CreateTable(m).kind = "createTable" /\ CreateTable(m).table = TableOf[m.name]
              /\ CreateTable(m).columns = Columns(m)
    /\ \A t : DropTable(t).kind = "dropTable" /\ DropTable(t).table = t
    /\ \A e : CreateType(e).kind = "createType" /\ CreateType(e).type = e
    /\ \A e : DropType(e).kind = "dropType" /\ DropType(e).type = e
BY DEF CreateTable, DropTable, CreateType, DropType

LEMMA ColumnStatements ==
    ASSUME NEW t, NEW f
    PROVE  /\ AddColumn(t, f).kind = "addColumn" /\ AddColumn(t, f).table = t
           /\ AddColumn(t, f).column = f.col /\ AddColumn(t, f).as = Added(f)
           /\ DropColumn(t, f).kind = "dropColumn" /\ DropColumn(t, f).table = t
           /\ DropColumn(t, f).column = f.col
           /\ SetType(t, f).kind = "setType" /\ SetType(t, f).table = t
           /\ SetType(t, f).column = f.col /\ SetType(t, f).type = SqlType(f)
           /\ SetType(t, f).serial = (f.default = "autoincrement")
           /\ SetNull(t, f).kind = "setNull" /\ SetNull(t, f).table = t
           /\ SetNull(t, f).column = f.col /\ SetNull(t, f).notNull = ~f.optional
BY DEF AddColumn, DropColumn, SetType, SetNull

\* x is not again y, and has not a later place.
MayPrecede(x, y) ==
    /\ x # y
    /\ Place(x) <= Place(y)
    /\ Place(x) = 3 /\ Place(y) = 3 /\ x.table = y.table => FieldPlace(x) <= FieldPlace(y)

InOrder(sql) == \A i, j \in DOMAIN sql : i < j => MayPrecede(sql[i], sql[j])
Apart(A, B) == \A x \in A, y \in B : MayPrecede(x, y)

\* Each statement of a set once, in order.
IsText(sql, A) == sql \in Seq(A) /\ InOrder(sql) /\ ToSet(sql) = A

LEMMA NoText == IsText(<<>>, {})
BY DEF IsText, InOrder, ToSet

LEMMA OneStatement ==
    ASSUME NEW s
    PROVE  IsText(<<s>>, {s})
<1>1. <<s>> \in Seq({s}) /\ DOMAIN <<s>> = {1} /\ <<s>>[1] = s
  OBVIOUS
<1>2. ToSet(<<s>>) = {s}
  BY <1>1 DEF ToSet
<1>3. InOrder(<<s>>)
  BY <1>1 DEF InOrder
<1> QED BY <1>1, <1>2, <1>3 DEF IsText

LEMMA Concatenated ==
    ASSUME NEW A, NEW B, NEW a, NEW b, IsText(a, A), IsText(b, B), Apart(A, B)
    PROVE  IsText(a \o b, A \cup B)
<1>1. a \in Seq(A \cup B) /\ b \in Seq(A \cup B)
  <2>1. a \in Seq(A) /\ b \in Seq(B)
    BY DEF IsText
  <2> QED BY <2>1
<1>2. /\ \A i \in 1 .. Len(a) : a[i] \in A
      /\ \A i \in 1 .. Len(b) : b[i] \in B
  BY DEF IsText
<1>3. /\ a \o b \in Seq(A \cup B)
      /\ Len(a \o b) = Len(a) + Len(b)
      /\ Len(a) \in Nat /\ Len(b) \in Nat
      /\ \A i \in 1 .. Len(a) : (a \o b)[i] = a[i]
      /\ \A i \in (Len(a) + 1) .. (Len(a) + Len(b)) : (a \o b)[i] = b[i - Len(a)]
  BY <1>1
<1>4. DOMAIN (a \o b) = 1 .. (Len(a) + Len(b))
  BY <1>3
<1>5. InOrder(a \o b)
  <2> SUFFICES ASSUME NEW i \in 1 .. (Len(a) + Len(b)), NEW j \in 1 .. (Len(a) + Len(b)), i < j
               PROVE  MayPrecede((a \o b)[i], (a \o b)[j])
    BY <1>4 DEF InOrder
  <2>1. CASE j <= Len(a)
    <3>1. i \in 1 .. Len(a) /\ j \in 1 .. Len(a)
      BY <2>1, <1>3
    <3>2. MayPrecede(a[i], a[j])
      BY <3>1, <1>1 DEF IsText, InOrder
    <3> QED BY <3>1, <3>2, <1>3
  <2>2. CASE i <= Len(a) /\ j > Len(a)
    <3>1. i \in 1 .. Len(a) /\ j \in (Len(a) + 1) .. (Len(a) + Len(b))
      BY <2>2, <1>3
    <3>2. j - Len(a) \in 1 .. Len(b)
      BY <3>1, <1>3
    <3>3. MayPrecede(a[i], b[j - Len(a)])
      BY <3>1, <3>2, <1>2 DEF Apart
    <3> QED BY <3>1, <3>3, <1>3
  <2>3. CASE i > Len(a)
    <3>1. i \in (Len(a) + 1) .. (Len(a) + Len(b)) /\ j \in (Len(a) + 1) .. (Len(a) + Len(b))
      BY <2>3, <1>3
    <3>2. i - Len(a) \in 1 .. Len(b) /\ j - Len(a) \in 1 .. Len(b) /\ i - Len(a) < j - Len(a)
      BY <3>1, <1>3
    <3>3. MayPrecede(b[i - Len(a)], b[j - Len(a)])
      BY <3>2, <1>1 DEF IsText, InOrder
    <3> QED BY <3>1, <3>3, <1>3
  <2> QED BY <2>1, <2>2, <2>3, <1>3
<1>6. ToSet(a \o b) = A \cup B
  <2>1. ASSUME NEW x \in A \cup B PROVE x \in ToSet(a \o b)
    <3>1. CASE x \in A
      <4>1. PICK i \in 1 .. Len(a) : a[i] = x
        BY <3>1, <1>1 DEF IsText, ToSet
      <4>2. i \in DOMAIN (a \o b) /\ (a \o b)[i] = x
        BY <4>1, <1>3, <1>4
      <4> QED BY <4>2 DEF ToSet
    <3>2. CASE x \in B
      <4>1. PICK i \in 1 .. Len(b) : b[i] = x
        BY <3>2, <1>1 DEF IsText, ToSet
      <4>2. Len(a) + i \in (Len(a) + 1) .. (Len(a) + Len(b)) /\ (Len(a) + i) - Len(a) = i
        BY <1>3
      <4>3. Len(a) + i \in DOMAIN (a \o b) /\ (a \o b)[Len(a) + i] = x
        BY <4>1, <4>2, <1>3, <1>4
      <4> QED BY <4>3 DEF ToSet
    <3> QED BY <3>1, <3>2
  <2>2. ToSet(a \o b) \subseteq A \cup B
    BY <1>3, <1>4 DEF ToSet
  <2> QED BY <2>1, <2>2
<1> QED BY <1>3, <1>5, <1>6 DEF IsText

\* Texts after one another, any two of which may be in this order.
LEMMA FlattenedText ==
    ASSUME NEW n \in Nat, NEW q, NEW V, q \in Seq(Seq(V)), Len(q) = n,
           \A i \in 1 .. n : IsText(q[i], ToSet(q[i])),
           \A i, j \in 1 .. n : i < j => Apart(ToSet(q[i]), ToSet(q[j]))
    PROVE  IsText(FlattenSeq(q), UNION {ToSet(q[i]) : i \in 1 .. n})
<1>1. CASE n = 0
  <2>1. q = <<>> /\ FlattenSeq(q) = <<>> /\ UNION {ToSet(q[i]) : i \in 1 .. n} = {}
    BY <1>1 DEF FlattenSeq
  <2> QED BY <2>1, NoText
<1>2. CASE n # 0
  <2>1. PICK flat : /\ flat[1] = q[1]
                    /\ \A i \in 2 .. n : flat[i] = flat[i - 1] \o q[i]
                    /\ FlattenSeq(q) = flat[n]
    <3>1. q # <<>>
      BY <1>2
    <3> QED BY <3>1, Flattening
  <2> DEFINE Upto(k) == UNION {ToSet(q[i]) : i \in 1 .. k}
             T == {k \in 0 .. n : k > 0 => IsText(flat[k], Upto(k))}
  <2>2. 0 \in T
    OBVIOUS
  <2>3. ASSUME NEW k \in 0 .. n, k \in T, k < n
        PROVE  k + 1 \in T
    <3>1. k + 1 \in 1 .. n /\ 1 .. (k + 1) = (1 .. k) \cup {k + 1}
      BY <2>3
    <3>2. Upto(k + 1) = Upto(k) \cup ToSet(q[k + 1])
      BY <3>1
    <3>3. CASE k = 0
      <4>1. Upto(k + 1) = ToSet(q[1])
        BY <3>3, <3>2
      <4> HIDE DEF Upto
      <4>2. IsText(flat[k + 1], Upto(k + 1))
        BY <4>1, <3>1, <3>3, <2>1
      <4> QED BY <4>2, <3>1
    <3>4. CASE k # 0
      <4>1. IsText(flat[k], Upto(k))
        BY <2>3, <3>4
      <4>2. IsText(q[k + 1], ToSet(q[k + 1]))
        BY <3>1
      <4>3. Apart(Upto(k), ToSet(q[k + 1]))
        <5> SUFFICES ASSUME NEW x \in Upto(k), NEW y \in ToSet(q[k + 1])
                     PROVE  MayPrecede(x, y)
          BY DEF Apart
        <5>1. PICK i \in 1 .. k : x \in ToSet(q[i])
          OBVIOUS
        <5>2. i \in 1 .. n /\ k + 1 \in 1 .. n /\ i < k + 1
          BY <3>1
        <5>3. Apart(ToSet(q[i]), ToSet(q[k + 1]))
          BY <5>2
        <5> QED BY <5>1, <5>3 DEF Apart
      <4>4. flat[k + 1] = flat[k] \o q[k + 1]
        <5>1. k + 1 \in 2 .. n /\ (k + 1) - 1 = k
          BY <3>1, <3>4
        <5> QED BY <5>1, <2>1
      <4> HIDE DEF Upto
      <4>5. IsText(flat[k + 1], Upto(k + 1))
        BY <4>1, <4>2, <4>3, <4>4, <3>2, Concatenated
      <4> QED BY <4>5, <3>1
    <3> QED BY <3>3, <3>4
  <2>4. n \in T
    <3>1. \A i \in 0 .. n : i \in T /\ i < n => i + 1 \in T
      BY <2>3
    <3> HIDE DEF T
    <3>2. \A i \in 0 .. n : i \in T
      BY <2>2, <3>1, UpTo
    <3> QED BY <3>2
  <2> QED BY <2>1, <2>4, <1>2
<1> QED BY <1>1, <1>2

\* An enumeration of a finite set has all its elements, each once.
LEMMA Enumerated ==
    ASSUME NEW S, IsFiniteSet(S), NEW o \in SetToSeqs(S)
    PROVE  /\ Cardinality(S) \in Nat /\ o \in Seq(S) /\ Len(o) = Cardinality(S)
           /\ ToSet(o) = S
           /\ \A i, j \in 1 .. Cardinality(S) : i # j => o[i] # o[j]
<1> DEFINE n == Cardinality(S)
<1>1. n \in Nat
  BY FS_CardinalityType
<1>2. o \in [1 .. n -> S] /\ \A i, j \in 1 .. n : i # j => o[i] # o[j]
  BY DEF SetToSeqs
<1> HIDE DEF n
<1>3. o \in Injection(1 .. n, S)
  BY <1>2 DEF Injection, IsInjective
<1>4. IsFiniteSet(1 .. n) /\ Cardinality(1 .. n) = n
  BY <1>1, FS_Interval
<1>5. o \in Surjection(1 .. n, S)
  BY <1>3, <1>4, FS_Injection DEF n
<1>6. ToSet(o) = S
  BY <1>2, <1>5 DEF Surjection, ToSet
<1>7. o \in Seq(S) /\ Len(o) = n
  BY <1>1, <1>2
<1> QED BY <1>1, <1>2, <1>6, <1>7 DEF n

\* A finite set can be enumerated.
LEMMA Enumerable ==
    ASSUME NEW S, IsFiniteSet(S)
    PROVE  SetToSeqs(S) # {}
<1>1. PICK f : f \in Bijection(1 .. Cardinality(S), S)
  BY FS_CardinalityType DEF ExistsBijection
<1>2. f \in SetToSeqs(S)
  BY <1>1 DEF Bijection, Injection, IsInjective, SetToSeqs
<1> QED BY <1>2

\* Texts in any order.
LEMMA AnyOrder ==
    ASSUME NEW S, IsFiniteSet(S), \A p \in S : IsText(p, ToSet(p)),
           \A p, r \in S : p # r => Apart(ToSet(p), ToSet(r)),
           NEW sql \in InAnyOrder(S)
    PROVE  IsText(sql, UNION {ToSet(p) : p \in S})
<1>1. PICK o \in SetToSeqs(S) : sql = FlattenSeq(o)
  BY DEF InAnyOrder
<1> DEFINE n == Cardinality(S)
           V == UNION {ToSet(p) : p \in S}
<1>2. /\ n \in Nat /\ o \in Seq(S) /\ Len(o) = n /\ ToSet(o) = S
      /\ \A i, j \in 1 .. n : i # j => o[i] # o[j]
  BY Enumerated
<1> HIDE DEF n
<1>3. \A i \in 1 .. n : o[i] \in S
  BY <1>2
<1>4. \A p \in S : p \in Seq(V)
  <2> SUFFICES ASSUME NEW p \in S PROVE p \in Seq(V)
    OBVIOUS
  <2>1. p \in Seq(ToSet(p)) /\ ToSet(p) \subseteq V
    BY DEF IsText
  <2> QED BY <2>1
<1>5. o \in Seq(Seq(V))
  BY <1>2, <1>4
<1>6. \A i \in 1 .. n : IsText(o[i], ToSet(o[i]))
  BY <1>3
<1>7. \A i, j \in 1 .. n : i < j => Apart(ToSet(o[i]), ToSet(o[j]))
  <2> SUFFICES ASSUME NEW i \in 1 .. n, NEW j \in 1 .. n, i < j
               PROVE  Apart(ToSet(o[i]), ToSet(o[j]))
    OBVIOUS
  <2>1. i # j
    OBVIOUS
  <2> QED BY <2>1, <1>2, <1>3
<1>8. V = UNION {ToSet(o[i]) : i \in 1 .. n}
  <2>1. S = {o[i] : i \in 1 .. n}
    BY <1>2 DEF ToSet
  <2> QED BY <2>1
<1> HIDE DEF V
<1>9. IsText(FlattenSeq(o), V)
  BY <1>2, <1>5, <1>6, <1>7, <1>8, FlattenedText
<1> QED BY <1>1, <1>9 DEF V

\* The elements of an indexed family of a finite set are finitely many.
LEMMA FiniteImage ==
    ASSUME NEW S, IsFiniteSet(S), NEW f, DOMAIN f = S
    PROVE  IsFiniteSet({f[x] : x \in S})
<1> DEFINE g == [x \in S |-> f[x]]
           T == {f[x] : x \in S}
<1>1. g \in Surjection(S, T)
  BY DEF Surjection
<1> HIDE DEF g, T
<1>2. IsFiniteSet(T)
  BY <1>1, FS_Surjection
<1> QED BY <1>2 DEF T

\* Single statements in any order.
LEMMA AnyOrderOfStatements ==
    ASSUME NEW A, IsFiniteSet(A), \A x, y \in A : x # y => MayPrecede(x, y),
           NEW sql \in InAnyOrder({<<x>> : x \in A})
    PROVE  IsText(sql, A)
<1> DEFINE S == {<<x>> : x \in A}
<1>1. IsFiniteSet(S)
  <2> DEFINE f == [x \in A |-> <<x>>]
  <2>1. {f[x] : x \in A} = S
    OBVIOUS
  <2>2. DOMAIN f = A
    OBVIOUS
  <2> HIDE DEF f, S
  <2> QED BY <2>1, <2>2, FiniteImage
<1>2. \A x : IsText(<<x>>, {x}) /\ ToSet(<<x>>) = {x}
  BY OneStatement DEF IsText
<1>3. \A p \in S : IsText(p, ToSet(p))
  BY <1>2
<1>4. \A p, r \in S : p # r => Apart(ToSet(p), ToSet(r))
  <2> SUFFICES ASSUME NEW x \in A, NEW y \in A, <<x>> # <<y>>
               PROVE  Apart({x}, {y})
    BY <1>2
  <2>1. x # y
    OBVIOUS
  <2> QED BY <2>1 DEF Apart
<1>5. UNION {ToSet(p) : p \in S} = A
  <2>1. \A x \in A : <<x>> \in S /\ ToSet(<<x>>) = {x}
    BY <1>2
  <2>2. \A p \in S : ToSet(p) \subseteq A
    BY <1>2
  <2> HIDE DEF S
  <2>3. \A x \in A : x \in UNION {ToSet(p) : p \in S}
    BY <2>1
  <2> QED BY <2>2, <2>3
<1> HIDE DEF S
<1>6. sql \in InAnyOrder(S)
  BY DEF S
<1> QED BY <1>1, <1>3, <1>4, <1>5, <1>6, AnyOrder

\* The same of a family of statements.
LEMMA AnyOrderOfFamily ==
    ASSUME NEW K, IsFiniteSet(K), NEW f, DOMAIN f = K,
           \A x, y \in K : f[x] # f[y] => MayPrecede(f[x], f[y]),
           NEW sql \in InAnyOrder({<<f[x]>> : x \in K})
    PROVE  IsText(sql, {f[x] : x \in K})
<1> DEFINE A == {f[x] : x \in K}
<1>1. IsFiniteSet(A)
  BY FiniteImage
<1>2. \A r, s \in A : r # s => MayPrecede(r, s)
  OBVIOUS
<1>3. {<<f[x]>> : x \in K} = {<<s>> : s \in A}
  OBVIOUS
<1> HIDE DEF A
<1>4. sql \in InAnyOrder({<<s>> : s \in A})
  BY <1>3
<1>5. IsText(sql, A)
  BY <1>1, <1>2, <1>4, AnyOrderOfStatements
<1> QED BY <1>5 DEF A

\* A text of two parts, or five.
Splits(A, B, sql) == \E a \in A, b \in B : sql = a \o b

InFiveParts(A, B, C, D, E, sql) ==
    \E a \in A, b \in B, c \in C, d \in D, e \in E : sql = (a \o b) \o (c \o (d \o e))

LEMMA InFollowed == \A A, B : \A sql \in Followed(A, B) : Splits(A, B, sql)
BY DEF Followed, Splits

LEMMA InAllFollowed ==
    ASSUME NEW A, NEW B, NEW C, NEW D, NEW E,
           NEW sql \in Followed(Followed(A, B), Followed(C, Followed(D, E)))
    PROVE  InFiveParts(A, B, C, D, E, sql)
<1>1. Splits(Followed(A, B), Followed(C, Followed(D, E)), sql)
  BY InFollowed
<1>2. PICK u \in Followed(A, B), v \in Followed(C, Followed(D, E)) : sql = u \o v
  <2> DEFINE X == Followed(A, B)
             Y == Followed(C, Followed(D, E))
  <2>1. Splits(X, Y, sql)
    BY <1>1
  <2> HIDE DEF X, Y
  <2>2. \E u \in X, v \in Y : sql = u \o v
    BY <2>1 DEF Splits
  <2> QED BY <2>2 DEF X, Y
<1>3. Splits(A, B, u) /\ Splits(C, Followed(D, E), v)
  BY InFollowed
<1>4. PICK a \in A, b \in B : u = a \o b
  BY <1>3 DEF Splits
<1>5. PICK c \in C, w \in Followed(D, E) : v = c \o w
  <2> DEFINE Y == Followed(D, E)
  <2>1. Splits(C, Y, v)
    BY <1>3
  <2> HIDE DEF Y
  <2>2. \E c \in C, w \in Y : v = c \o w
    BY <2>1 DEF Splits
  <2> QED BY <2>2 DEF Y
<1>6. Splits(D, E, w)
  BY InFollowed
<1>7. PICK d \in D, e \in E : w = d \o e
  BY <1>6 DEF Splits
<1> QED BY <1>2, <1>4, <1>5, <1>7 DEF InFiveParts

LEMMA InThreeFollowed ==
    ASSUME NEW A, NEW B, NEW C, NEW sql \in Followed(A, Followed(B, C))
    PROVE  \E a \in A, b \in B, c \in C : sql = a \o (b \o c)
<1> DEFINE Y == Followed(B, C)
<1>1. Splits(A, Y, sql)
  BY InFollowed
<1>2. PICK a \in A, w \in Y : sql = a \o w
  <2> HIDE DEF Y
  <2> QED BY <1>1 DEF Splits
<1>3. Splits(B, C, w)
  BY InFollowed
<1>4. PICK b \in B, c \in C : w = b \o c
  BY <1>3 DEF Splits
<1> QED BY <1>2, <1>4

-----------------------------------------------------------------------------
(* Schemas                                                                  *)

\* A name of a schema has one model, with a table of its own.
LEMMA ModelOfName ==
    ASSUME NEW s \in Schemas
    PROVE  /\ \A n \in Names(s) : ModelOf(s, n) \in ToSet(s.models) /\ ModelOf(s, n).name = n
           /\ \A m \in ToSet(s.models) : m.name \in Names(s) /\ ModelOf(s, m.name) = m
           /\ \A n, k \in Names(s) : TableOf[n] = TableOf[k] => n = k
           /\ \A n \in Names(s) : n \in DOMAIN TableOf
<1>1. \A m, k \in ToSet(s.models) : TableOf[m.name] = TableOf[k.name] => m = k
  BY SchemaAssumption DEF ToSet
<1>2. ASSUME NEW n \in Names(s)
      PROVE  ModelOf(s, n) \in ToSet(s.models) /\ ModelOf(s, n).name = n
  <2>1. \E m \in ToSet(s.models) : m.name = n
    BY DEF Names
  <2> QED BY <2>1 DEF ModelOf
<1>3. ASSUME NEW m \in ToSet(s.models)
      PROVE  m.name \in Names(s) /\ ModelOf(s, m.name) = m
  <2>1. m.name \in Names(s)
    BY DEF Names
  <2>2. ModelOf(s, m.name) \in ToSet(s.models) /\ ModelOf(s, m.name).name = m.name
    BY <1>2, <2>1
  <2> QED BY <1>1, <2>1, <2>2
<1>4. \A n, k \in Names(s) : TableOf[n] = TableOf[k] => n = k
  BY <1>1 DEF Names
<1>5. \A n \in Names(s) : n \in DOMAIN TableOf
  BY SchemaAssumption DEF Names
<1> QED BY <1>2, <1>3, <1>4, <1>5

\* A schema is finite.
LEMMA FiniteSchema ==
    ASSUME NEW s \in Schemas
    PROVE  /\ IsFiniteSet(Names(s)) /\ IsFiniteSet(ToSet(s.enums))
           /\ \A n \in Names(s) : IsFiniteSet(DOMAIN FieldsOf(s, n))
<1>1. ASSUME NEW q, NEW V, q \in Seq(V)
      PROVE  IsFiniteSet(ToSet(q))
  <2>1. DOMAIN q = 1 .. Len(q) /\ Len(q) \in Nat
    BY <1>1
  <2>2. IsFiniteSet(DOMAIN q)
    BY <2>1, FS_Interval
  <2> QED BY <2>2, FiniteImage DEF ToSet
<1>2. IsFiniteSet(ToSet(s.enums)) /\ IsFiniteSet(ToSet(s.models))
  BY <1>1, SchemaAssumption
<1>3. IsFiniteSet(Names(s))
  <2> DEFINE f == [m \in ToSet(s.models) |-> m.name]
  <2>1. Names(s) = {f[m] : m \in ToSet(s.models)} /\ DOMAIN f = ToSet(s.models)
    BY DEF Names
  <2> HIDE DEF f
  <2> QED BY <1>2, <2>1, FiniteImage
<1>4. \A n \in Names(s) : IsFiniteSet(DOMAIN FieldsOf(s, n))
  BY ModelOfName, SchemaAssumption DEF FieldsOf
<1> QED BY <1>2, <1>3, <1>4

\* The fields of a model have columns of their own.
LEMMA FieldsOfName ==
    ASSUME NEW s \in Schemas, NEW n \in Names(s)
    PROVE  /\ FieldsOf(s, n) = ModelOf(s, n).fields
           /\ \A x, y \in DOMAIN FieldsOf(s, n) :
                  FieldsOf(s, n)[x].col = FieldsOf(s, n)[y].col => x = y
           /\ \A x \in DOMAIN FieldsOf(s, n) :
                  /\ FieldsOf(s, n)[x].optional \in BOOLEAN
                  /\ FieldsOf(s, n)[x].col # Key
                  /\ FieldsOf(s, n)[x].ref # None => FieldsOf(s, n)[x].ref.model \in Names(s)
                  /\ SqlType(FieldsOf(s, n)[x]) \in ColumnTypes
<1> DEFINE m == ModelOf(s, n)
<1>1. m \in ToSet(s.models)
  BY ModelOfName
<1>2. \A x \in DOMAIN m.fields : m.fields[x] \in Range(m.fields)
  BY DEF Range
<1>3. \A f \in Range(m.fields) : SqlType(f) \in ColumnTypes
  <2>1. Range(m.fields) \in {Range(k.fields) : k \in UNION {ToSet(r.models) : r \in Schemas}}
    BY <1>1
  <2> QED BY <2>1 DEF ColumnTypes
<1>4. /\ \A x, y \in DOMAIN m.fields : m.fields[x].col = m.fields[y].col => x = y
      /\ \A f \in Range(m.fields) : /\ f.optional \in BOOLEAN /\ f.col # Key
                                    /\ f.ref # None => f.ref.model \in Names(s)
  <2>1. /\ \A x, y \in DOMAIN m.fields : m.fields[x].col = m.fields[y].col => x = y
        /\ \A f \in Range(m.fields) :
              /\ f.optional \in BOOLEAN /\ f.col # Key
              /\ f.ref # None => \E k \in ToSet(s.models) : f.ref.model = k.name
    BY <1>1, SchemaAssumption
  <2> QED BY <2>1 DEF Names
<1> HIDE DEF m
<1> QED BY <1>2, <1>3, <1>4 DEF FieldsOf, m

-----------------------------------------------------------------------------
(* What a migration executes                                                *)

\* ALTER COLUMN of a field that was f and is g.
Altering(t, f, g) == {s \in {SetType(t, g)} : OtherType(f, g)}
                        \cup {s \in {SetNull(t, g)} : f.optional # g.optional}

NewFields(from, to, n) == DOMAIN FieldsOf(to, n) \ DOMAIN FieldsOf(from, n)
OldFields(from, to, n) == DOMAIN FieldsOf(from, n) \ DOMAIN FieldsOf(to, n)
KeptFields(from, to, n) == DOMAIN FieldsOf(from, n) \cap DOMAIN FieldsOf(to, n)

Adding(from, to, n) ==
    {AddColumn(TableOf[n], FieldsOf(to, n)[x]) : x \in NewFields(from, to, n)}
Removing(from, to, n) ==
    {DropColumn(TableOf[n], FieldsOf(from, n)[x]) : x \in OldFields(from, to, n)}
AlteringAll(from, to, n) ==
    UNION {Altering(TableOf[n], FieldsOf(from, n)[x], FieldsOf(to, n)[x]) :
              x \in KeptFields(from, to, n)}

FieldStatements(from, to, n) ==
    Adding(from, to, n) \cup (Removing(from, to, n) \cup AlteringAll(from, to, n))

Creating(from, to) == {CreateTable(ModelOf(to, n)) : n \in Names(to) \ Names(from)}
Dropping(from, to) == {DropTable(TableOf[n]) : n \in Names(from) \ Names(to)}
Changing(from, to) == UNION {FieldStatements(from, to, n) : n \in Both(from, to)}
NewTypes(from, to) == {CreateType(e) : e \in ToSet(to.enums) \ ToSet(from.enums)}
OldTypes(from, to) == {DropType(e) : e \in ToSet(from.enums) \ ToSet(to.enums)}

Statements(from, to) ==
    (Creating(from, to) \cup Dropping(from, to))
        \cup (Changing(from, to) \cup (NewTypes(from, to) \cup OldTypes(from, to)))

LEMMA AlterText ==
    ASSUME NEW t, NEW f, NEW g
    PROVE  IsText(AlterColumn(t, f, g), Altering(t, f, g))
<1>1. IsText(IF OtherType(f, g) THEN <<SetType(t, g)>> ELSE <<>>,
             {s \in {SetType(t, g)} : OtherType(f, g)})
  <2>1. CASE OtherType(f, g)
    <3>1. {s \in {SetType(t, g)} : OtherType(f, g)} = {SetType(t, g)}
      BY <2>1
    <3> QED BY <2>1, <3>1, OneStatement
  <2>2. CASE ~ OtherType(f, g)
    <3>1. {s \in {SetType(t, g)} : OtherType(f, g)} = {}
      BY <2>2
    <3> QED BY <2>2, <3>1, NoText
  <2> QED BY <2>1, <2>2
<1>2. IsText(IF f.optional # g.optional THEN <<SetNull(t, g)>> ELSE <<>>,
             {s \in {SetNull(t, g)} : f.optional # g.optional})
  <2>1. CASE f.optional # g.optional
    <3>1. {s \in {SetNull(t, g)} : f.optional # g.optional} = {SetNull(t, g)}
      BY <2>1
    <3> QED BY <2>1, <3>1, OneStatement
  <2>2. CASE f.optional = g.optional
    <3>1. {s \in {SetNull(t, g)} : f.optional # g.optional} = {}
      BY <2>2
    <3> QED BY <2>2, <3>1, NoText
  <2> QED BY <2>1, <2>2
<1>3. Apart({s \in {SetType(t, g)} : OtherType(f, g)},
            {s \in {SetNull(t, g)} : f.optional # g.optional})
  <2>1. MayPrecede(SetType(t, g), SetNull(t, g))
    BY Places, ColumnStatements DEF MayPrecede
  <2> QED BY <2>1 DEF Apart
<1> QED BY <1>1, <1>2, <1>3, Concatenated DEF AlterColumn, Altering

\* The statements of one model: its table, and where they are put.
LEMMA FieldStatementKinds ==
    ASSUME NEW from, NEW to, NEW n
    PROVE  /\ \A s \in Adding(from, to, n) : s.kind = "addColumn" /\ s.table = TableOf[n]
           /\ \A s \in Removing(from, to, n) : s.kind = "dropColumn" /\ s.table = TableOf[n]
           /\ \A s \in AlteringAll(from, to, n) :
                  s.kind \in {"setType", "setNull"} /\ s.table = TableOf[n]
<1>1. \A s \in Adding(from, to, n) : s.kind = "addColumn" /\ s.table = TableOf[n]
  BY ColumnStatements DEF Adding
<1>2. \A s \in Removing(from, to, n) : s.kind = "dropColumn" /\ s.table = TableOf[n]
  BY ColumnStatements DEF Removing
<1>3. \A s \in AlteringAll(from, to, n) :
          s.kind \in {"setType", "setNull"} /\ s.table = TableOf[n]
  BY ColumnStatements DEF AlteringAll, Altering
<1> QED BY <1>1, <1>2, <1>3

LEMMA FieldText ==
    ASSUME NEW from \in Schemas, NEW to \in Schemas, NEW n \in Both(from, to),
           NEW sql \in FieldSql(from, to, n)
    PROVE  IsText(sql, FieldStatements(from, to, n))
<1> DEFINE F == FieldsOf(from, n)
           G == FieldsOf(to, n)
           t == TableOf[n]
<1>1. /\ n \in Names(from) /\ n \in Names(to)
      /\ IsFiniteSet(DOMAIN F) /\ IsFiniteSet(DOMAIN G)
      /\ \A x, y \in DOMAIN F : F[x].col = F[y].col => x = y
      /\ \A x, y \in DOMAIN G : G[x].col = G[y].col => x = y
  BY FiniteSchema, FieldsOfName DEF Both
<1> DEFINE adds == InAnyOrder({<<AddColumn(t, G[x])>> : x \in DOMAIN G \ DOMAIN F})
           drops == InAnyOrder({<<DropColumn(t, F[x])>> : x \in DOMAIN F \ DOMAIN G})
           alters == InAnyOrder({AlterColumn(t, F[x], G[x]) : x \in Alterations(F, G)})
<1>2. PICK a \in adds, b \in drops, c \in alters : sql = a \o (b \o c)
  <2>1. sql \in Followed(adds, Followed(drops, alters))
    BY DEF FieldSql
  <2> HIDE DEF adds, drops, alters
  <2> QED BY <2>1, InThreeFollowed
<1> HIDE DEF F, G
<1>3. IsText(a, Adding(from, to, n))
  <2> DEFINE K == DOMAIN G \ DOMAIN F
             f == [x \in K |-> AddColumn(t, G[x])]
  <2>1. IsFiniteSet(K) /\ DOMAIN f = K
    BY <1>1, FS_Difference
  <2>2. \A x, y \in K : f[x] # f[y] => MayPrecede(f[x], f[y])
    BY Places, ColumnStatements DEF MayPrecede
  <2>3. {f[x] : x \in K} = Adding(from, to, n)
    BY DEF Adding, NewFields, F, G
  <2>4. a \in InAnyOrder({<<f[x]>> : x \in K})
    <3>1. {<<f[x]>> : x \in K} = {<<AddColumn(t, G[x])>> : x \in K}
      OBVIOUS
    <3> HIDE DEF f
    <3> QED BY <1>2, <3>1
  <2> HIDE DEF f, K
  <2>5. IsText(a, {f[x] : x \in K})
    BY <2>1, <2>2, <2>4, AnyOrderOfFamily
  <2> QED BY <2>3, <2>5
<1>4. IsText(b, Removing(from, to, n))
  <2> DEFINE K == DOMAIN F \ DOMAIN G
             f == [x \in K |-> DropColumn(t, F[x])]
  <2>1. IsFiniteSet(K) /\ DOMAIN f = K
    BY <1>1, FS_Difference
  <2>2. \A x, y \in K : f[x] # f[y] => MayPrecede(f[x], f[y])
    BY Places, ColumnStatements DEF MayPrecede
  <2>3. {f[x] : x \in K} = Removing(from, to, n)
    BY DEF Removing, OldFields, F, G
  <2>4. b \in InAnyOrder({<<f[x]>> : x \in K})
    <3>1. {<<f[x]>> : x \in K} = {<<DropColumn(t, F[x])>> : x \in K}
      OBVIOUS
    <3> HIDE DEF f
    <3> QED BY <1>2, <3>1
  <2> HIDE DEF f, K
  <2>5. IsText(b, {f[x] : x \in K})
    BY <2>1, <2>2, <2>4, AnyOrderOfFamily
  <2> QED BY <2>3, <2>5
<1>5. IsText(c, AlteringAll(from, to, n))
  <2> DEFINE K == Alterations(F, G)
             f == [x \in K |-> AlterColumn(t, F[x], G[x])]
             S == {f[x] : x \in K}
  <2>1. IsFiniteSet(S)
    <3>1. IsFiniteSet(K)
      BY <1>1, FS_Subset DEF Alterations
    <3>2. DOMAIN f = K
      OBVIOUS
    <3> HIDE DEF f, K
    <3> QED BY <3>1, <3>2, FiniteImage
  <2>2. \A x \in K : IsText(f[x], Altering(t, F[x], G[x])) /\ ToSet(f[x]) = Altering(t, F[x], G[x])
    BY AlterText DEF IsText
  <2>3. ASSUME NEW x \in K, NEW y \in K, f[x] # f[y]
        PROVE  Apart(ToSet(f[x]), ToSet(f[y]))
    <3>1. G[x].col # G[y].col
      BY <1>1, <2>3 DEF Alterations
    <3>2. Apart(Altering(t, F[x], G[x]), Altering(t, F[y], G[y]))
      BY <3>1, Places, ColumnStatements DEF Apart, Altering, MayPrecede
    <3> QED BY <3>2, <2>2
  <2>4. UNION {ToSet(p) : p \in S} = AlteringAll(from, to, n)
    <3>1. \A x \in DOMAIN F \cap DOMAIN G : x \notin K => Altering(t, F[x], G[x]) = {}
      BY DEF Alterations, Differs, Altering
    <3>2. AlteringAll(from, to, n) = UNION {Altering(t, F[x], G[x]) : x \in DOMAIN F \cap DOMAIN G}
      BY DEF AlteringAll, KeptFields, F, G
    <3>3. K \subseteq DOMAIN F \cap DOMAIN G
      BY DEF Alterations
    <3> HIDE DEF K, f
    <3> QED BY <3>1, <3>2, <3>3, <2>2
  <2>5. \A p \in S : IsText(p, ToSet(p))
    BY <2>2
  <2>6. \A p, r \in S : p # r => Apart(ToSet(p), ToSet(r))
    <3> HIDE DEF f
    <3> QED BY <2>3
  <2>7. c \in InAnyOrder(S)
    <3>1. S = {AlterColumn(t, F[x], G[x]) : x \in K}
      OBVIOUS
    <3> HIDE DEF S, K
    <3> QED BY <1>2, <3>1 DEF K
  <2> HIDE DEF S
  <2> QED BY <2>1, <2>4, <2>5, <2>6, <2>7, AnyOrder
<1>6. Apart(Removing(from, to, n), AlteringAll(from, to, n))
  BY FieldStatementKinds, Places DEF Apart, MayPrecede
<1>7. Apart(Adding(from, to, n), Removing(from, to, n) \cup AlteringAll(from, to, n))
  BY FieldStatementKinds, Places DEF Apart, MayPrecede
<1> QED BY <1>2, <1>3, <1>4, <1>5, <1>6, <1>7, Concatenated DEF FieldStatements

LEMMA FieldsText ==
    ASSUME NEW from \in Schemas, NEW to \in Schemas, NEW sql \in FieldChanges(from, to)
    PROVE  IsText(sql, Changing(from, to))
<1> DEFINE both == Both(from, to)
           texts == UNION {FieldSql(from, to, n) : n \in both}
<1>1. PICK c \in [both -> texts] : /\ \A n \in both : c[n] \in FieldSql(from, to, n)
                                   /\ sql \in InAnyOrder({c[n] : n \in both})
  BY DEF FieldChanges
<1> DEFINE S == {c[n] : n \in both}
<1>2. IsFiniteSet(S)
  <2>1. IsFiniteSet(both)
    BY FiniteSchema, FS_Intersection DEF Both
  <2>2. DOMAIN c = both
    OBVIOUS
  <2> HIDE DEF both
  <2> QED BY <2>1, <2>2, FiniteImage
<1>3. \A n \in both : /\ IsText(c[n], FieldStatements(from, to, n))
                      /\ ToSet(c[n]) = FieldStatements(from, to, n)
  BY <1>1, FieldText DEF IsText
<1>4. ASSUME NEW n \in both, NEW k \in both, n # k
      PROVE  Apart(FieldStatements(from, to, n), FieldStatements(from, to, k))
  <2>1. TableOf[n] # TableOf[k]
    BY <1>4, ModelOfName DEF Both
  <2>2. /\ \A s \in FieldStatements(from, to, n) : Place(s) = 3 /\ s.table = TableOf[n]
        /\ \A s \in FieldStatements(from, to, k) : Place(s) = 3 /\ s.table = TableOf[k]
    BY FieldStatementKinds, Places DEF FieldStatements
  <2> QED BY <2>1, <2>2 DEF Apart, MayPrecede
<1>5. \A p \in S : IsText(p, ToSet(p))
  BY <1>3
<1>6. \A p, r \in S : p # r => Apart(ToSet(p), ToSet(r))
  <2> SUFFICES ASSUME NEW n \in both, NEW k \in both, c[n] # c[k]
               PROVE  Apart(ToSet(c[n]), ToSet(c[k]))
    OBVIOUS
  <2>1. n # k
    OBVIOUS
  <2> QED BY <2>1, <1>3, <1>4
<1>7. UNION {ToSet(p) : p \in S} = Changing(from, to)
  <2>1. Changing(from, to) = UNION {ToSet(c[n]) : n \in both}
    BY <1>3 DEF Changing
  <2> HIDE DEF both
  <2> QED BY <2>1
<1>8. sql \in InAnyOrder(S)
  BY <1>1
<1> HIDE DEF S
<1> QED BY <1>2, <1>5, <1>6, <1>7, <1>8, AnyOrder

LEMMA FiniteStatements ==
    ASSUME NEW from \in Schemas, NEW to \in Schemas
    PROVE  /\ IsFiniteSet(Names(to) \ Names(from)) /\ IsFiniteSet(Names(from) \ Names(to))
           /\ IsFiniteSet(ToSet(to.enums) \ ToSet(from.enums))
           /\ IsFiniteSet(ToSet(from.enums) \ ToSet(to.enums))
BY FiniteSchema, FS_Difference

LEMMA StatementKinds ==
    ASSUME NEW from, NEW to
    PROVE  /\ \A s \in Creating(from, to) : s.kind = "createTable"
           /\ \A s \in Dropping(from, to) : s.kind = "dropTable"
           /\ \A s \in Changing(from, to) :
                  s.kind \in {"addColumn", "dropColumn", "setType", "setNull"}
           /\ \A s \in NewTypes(from, to) : s.kind = "createType"
           /\ \A s \in OldTypes(from, to) : s.kind = "dropType"
<1>1. \A s \in Changing(from, to) : s.kind \in {"addColumn", "dropColumn", "setType", "setNull"}
  BY FieldStatementKinds DEF Changing, FieldStatements
<1>2. /\ \A s \in Creating(from, to) : s.kind = "createTable"
      /\ \A s \in Dropping(from, to) : s.kind = "dropTable"
      /\ \A s \in NewTypes(from, to) : s.kind = "createType"
      /\ \A s \in OldTypes(from, to) : s.kind = "dropType"
  BY TableStatements DEF Creating, Dropping, NewTypes, OldTypes
<1> QED BY <1>1, <1>2

LEMMA StatementPlaces ==
    ASSUME NEW from, NEW to
    PROVE  /\ \A s \in Creating(from, to) : Place(s) = 1
           /\ \A s \in Dropping(from, to) : Place(s) = 2
           /\ \A s \in Changing(from, to) : Place(s) = 3
           /\ \A s \in NewTypes(from, to) : Place(s) = 4
           /\ \A s \in OldTypes(from, to) : Place(s) = 5
BY StatementKinds, Places

LEMMA KindsApart ==
    ASSUME NEW A, NEW B,
           \A x \in A, y \in B : Place(x) < Place(y),
           \A x \in A, y \in B : Place(x) \in Nat /\ Place(y) \in Nat
    PROVE  Apart(A, B)
<1> SUFFICES ASSUME NEW x \in A, NEW y \in B
             PROVE  MayPrecede(x, y)
  BY DEF Apart
<1>1. Place(x) < Place(y) /\ Place(x) \in Nat /\ Place(y) \in Nat
  OBVIOUS
<1> QED BY <1>1 DEF MayPrecede

\* Every text of a migration has its statements once each, in the order of their places.
THEOREM MigrationText ==
    ASSUME NEW from \in Schemas, NEW to \in Schemas, NEW sql \in GenerateMigrationSQL(from, to)
    PROVE  IsText(sql, Statements(from, to))
<1> DEFINE creates == {<<CreateTable(ModelOf(to, n))>> : n \in Names(to) \ Names(from)}
           drops == {<<DropTable(TableOf[n])>> : n \in Names(from) \ Names(to)}
           newTypes == {<<CreateType(e)>> : e \in ToSet(to.enums) \ ToSet(from.enums)}
           oldTypes == {<<DropType(e)>> : e \in ToSet(from.enums) \ ToSet(to.enums)}
<1>1. PICK a \in InAnyOrder(creates), b \in InAnyOrder(drops), c \in FieldChanges(from, to),
           d \in InAnyOrder(newTypes), e \in InAnyOrder(oldTypes) :
              sql = (a \o b) \o (c \o (d \o e))
  <2>1. sql \in Followed(Followed(InAnyOrder(creates), InAnyOrder(drops)),
                   Followed(FieldChanges(from, to),
                            Followed(InAnyOrder(newTypes), InAnyOrder(oldTypes))))
    BY DEF GenerateMigrationSQL
  <2> HIDE DEF creates, drops, newTypes, oldTypes
  <2> DEFINE A == InAnyOrder(creates)
             B == InAnyOrder(drops)
             C == FieldChanges(from, to)
             D == InAnyOrder(newTypes)
             E == InAnyOrder(oldTypes)
  <2>2. sql \in Followed(Followed(A, B), Followed(C, Followed(D, E)))
    BY <2>1
  <2> HIDE DEF A, B, C, D, E
  <2>3. InFiveParts(A, B, C, D, E, sql)
    BY <2>2, InAllFollowed
  <2>4. \E a \in A, b \in B, c \in C, d \in D, e \in E : sql = (a \o b) \o (c \o (d \o e))
    BY <2>3 DEF InFiveParts
  <2> QED BY <2>4 DEF A, B, C, D, E
<1>2. IsText(a, Creating(from, to))
  <2> DEFINE K == Names(to) \ Names(from)
             f == [n \in K |-> CreateTable(ModelOf(to, n))]
  <2>1. IsFiniteSet(K) /\ DOMAIN f = K
    BY FiniteStatements
  <2>2. \A x, y \in K : f[x] # f[y] => MayPrecede(f[x], f[y])
    <3>1. \A x \in K : Place(f[x]) = 1
      BY Places, TableStatements
    <3> HIDE DEF f
    <3> QED BY <3>1 DEF MayPrecede
  <2>3. {f[n] : n \in K} = Creating(from, to)
    BY DEF Creating
  <2>4. a \in InAnyOrder({<<f[n]>> : n \in K})
    <3>1. {<<f[n]>> : n \in K} = creates
      OBVIOUS
    <3> HIDE DEF f, creates
    <3> QED BY <1>1, <3>1
  <2> HIDE DEF f, K
  <2>5. IsText(a, {f[n] : n \in K})
    BY <2>1, <2>2, <2>4, AnyOrderOfFamily
  <2> QED BY <2>3, <2>5
<1>3. IsText(b, Dropping(from, to))
  <2> DEFINE K == Names(from) \ Names(to)
             f == [n \in K |-> DropTable(TableOf[n])]
  <2>1. IsFiniteSet(K) /\ DOMAIN f = K
    BY FiniteStatements
  <2>2. \A x, y \in K : f[x] # f[y] => MayPrecede(f[x], f[y])
    <3>1. \A x \in K : Place(f[x]) = 2
      BY Places, TableStatements
    <3> HIDE DEF f
    <3> QED BY <3>1 DEF MayPrecede
  <2>3. {f[n] : n \in K} = Dropping(from, to)
    BY DEF Dropping
  <2>4. b \in InAnyOrder({<<f[n]>> : n \in K})
    <3>1. {<<f[n]>> : n \in K} = drops
      OBVIOUS
    <3> HIDE DEF f, drops
    <3> QED BY <1>1, <3>1
  <2> HIDE DEF f, K
  <2>5. IsText(b, {f[n] : n \in K})
    BY <2>1, <2>2, <2>4, AnyOrderOfFamily
  <2> QED BY <2>3, <2>5
<1>4. IsText(c, Changing(from, to))
  BY FieldsText
<1>5. IsText(d, NewTypes(from, to))
  <2> DEFINE K == ToSet(to.enums) \ ToSet(from.enums)
             f == [n \in K |-> CreateType(n)]
  <2>1. IsFiniteSet(K) /\ DOMAIN f = K
    BY FiniteStatements
  <2>2. \A x, y \in K : f[x] # f[y] => MayPrecede(f[x], f[y])
    <3>1. \A x \in K : Place(f[x]) = 4
      BY Places, TableStatements
    <3> HIDE DEF f
    <3> QED BY <3>1 DEF MayPrecede
  <2>3. {f[n] : n \in K} = NewTypes(from, to)
    BY DEF NewTypes
  <2>4. d \in InAnyOrder({<<f[n]>> : n \in K})
    <3>1. {<<f[n]>> : n \in K} = newTypes
      OBVIOUS
    <3> HIDE DEF f, newTypes
    <3> QED BY <1>1, <3>1
  <2> HIDE DEF f, K
  <2>5. IsText(d, {f[n] : n \in K})
    BY <2>1, <2>2, <2>4, AnyOrderOfFamily
  <2> QED BY <2>3, <2>5
<1>6. IsText(e, OldTypes(from, to))
  <2> DEFINE K == ToSet(from.enums) \ ToSet(to.enums)
             f == [n \in K |-> DropType(n)]
  <2>1. IsFiniteSet(K) /\ DOMAIN f = K
    BY FiniteStatements
  <2>2. \A x, y \in K : f[x] # f[y] => MayPrecede(f[x], f[y])
    <3>1. \A x \in K : Place(f[x]) = 5
      BY Places, TableStatements
    <3> HIDE DEF f
    <3> QED BY <3>1 DEF MayPrecede
  <2>3. {f[n] : n \in K} = OldTypes(from, to)
    BY DEF OldTypes
  <2>4. e \in InAnyOrder({<<f[n]>> : n \in K})
    <3>1. {<<f[n]>> : n \in K} = oldTypes
      OBVIOUS
    <3> HIDE DEF f, oldTypes
    <3> QED BY <1>1, <3>1
  <2> HIDE DEF f, K
  <2>5. IsText(e, {f[n] : n \in K})
    BY <2>1, <2>2, <2>4, AnyOrderOfFamily
  <2> QED BY <2>3, <2>5
<1>7. IsText(a \o b, Creating(from, to) \cup Dropping(from, to))
  <2>1. Apart(Creating(from, to), Dropping(from, to))
    BY StatementPlaces, KindsApart
  <2> QED BY <1>2, <1>3, <2>1, Concatenated
<1>8. IsText(d \o e, NewTypes(from, to) \cup OldTypes(from, to))
  <2>1. Apart(NewTypes(from, to), OldTypes(from, to))
    BY StatementPlaces, KindsApart
  <2> QED BY <1>5, <1>6, <2>1, Concatenated
<1>9. IsText(c \o (d \o e), Changing(from, to) \cup (NewTypes(from, to) \cup OldTypes(from, to)))
  <2>1. Apart(Changing(from, to), NewTypes(from, to) \cup OldTypes(from, to))
    BY StatementPlaces, KindsApart
  <2> QED BY <1>4, <1>8, <2>1, Concatenated
<1> HIDE DEF creates, drops, newTypes, oldTypes
<1>10. Apart(Creating(from, to) \cup Dropping(from, to),
             Changing(from, to) \cup (NewTypes(from, to) \cup OldTypes(from, to)))
  BY StatementPlaces, KindsApart
<1> QED BY <1>1, <1>7, <1>9, <1>10, Concatenated DEF Statements

-----------------------------------------------------------------------------
(* What a statement does                                                    *)

IsColumn(c) == c = [type |-> c.type, notNull |-> c.notNull, default |-> c.default,
                    unique |-> c.unique, ref |-> c.ref]
IsTable(T) == T = [c \in DOMAIN T |-> T[c]] /\ \A c \in DOMAIN T : IsColumn(T[c])
IsDb(d) == /\ d = [tables |-> d.tables, types |-> d.types]
           /\ d.tables = [t \in DOMAIN d.tables |-> d.tables[t]]
           /\ \A t \in DOMAIN d.tables : IsTable(d.tables[t])

LEMMA TypeEffect ==
    ASSUME NEW d, IsDb(d), NEW s
    PROVE  /\ s.kind = "createType" => 
                  Effect(d, s) = [tables |-> d.tables, types |-> d.types \cup {s.type}]
           /\ s.kind = "dropType" => 
                  Effect(d, s) = [tables |-> d.tables, types |-> d.types \ {s.type}]
<1>1. d = [tables |-> d.tables, types |-> d.types]
  BY DEF IsDb
<1>2. s.kind = "createType" => Effect(d, s) = [d EXCEPT !.types = @ \cup {s.type}]
  BY DEF Effect
<1>3. s.kind = "dropType" => Effect(d, s) = [d EXCEPT !.types = @ \ {s.type}]
  BY DEF Effect
<1> QED BY <1>1, <1>2, <1>3

LEMMA TableEffect ==
    ASSUME NEW d, IsDb(d), NEW s
    PROVE  /\ s.kind = "createTable" => 
                  Effect(d, s) = [tables |-> With(d.tables, s.table, s.columns), types |-> d.types]
           /\ s.kind = "dropTable" => 
                  Effect(d, s) = [tables |-> Dropped(d.tables, s.table), types |-> d.types]
<1>1. d = [tables |-> d.tables, types |-> d.types]
  BY DEF IsDb
<1>2. s.kind = "createTable" =>
          Effect(d, s) = [d EXCEPT !.tables = With(@, s.table, s.columns)]
  BY DEF Effect
<1>3. s.kind = "dropTable" => Effect(d, s) = [d EXCEPT !.tables = Dropped(@, s.table)]
  BY DEF Effect
<1> QED BY <1>1, <1>2, <1>3

\* tables with another table in the place of t.
Replaced(tables, t, T) == [u \in DOMAIN tables |-> IF u = t THEN T ELSE tables[u]]

LEMMA ColumnEffect ==
    ASSUME NEW d, IsDb(d), NEW s, s.table \in DOMAIN d.tables
    PROVE  /\ s.kind = "addColumn" =>
                  Effect(d, s) = [tables |-> Replaced(d.tables, s.table,
                                                 With(d.tables[s.table], s.column, s.as)),
                                  types |-> d.types]
           /\ s.kind = "dropColumn" =>
                  Effect(d, s) = [tables |-> Replaced(d.tables, s.table,
                                                 [c \in DOMAIN d.tables[s.table] \ {s.column} |->
                                                     d.tables[s.table][c]]),
                                  types |-> d.types]
<1>1. d = [tables |-> d.tables, types |-> d.types]
  BY DEF IsDb
<1>2. \A T : [d.tables EXCEPT ![s.table] = T] = Replaced(d.tables, s.table, T)
  <2>1. d.tables = [t \in DOMAIN d.tables |-> d.tables[t]]
    BY DEF IsDb
  <2> QED BY <2>1 DEF Replaced
<1>3. s.kind = "addColumn" =>
          Effect(d, s) = [d EXCEPT !.tables[s.table] = With(@, s.column, s.as)]
  BY DEF Effect
<1>4. s.kind = "dropColumn" =>
          Effect(d, s) = [d EXCEPT !.tables[s.table] = Restrict(@, DOMAIN @ \ {s.column})]
  BY DEF Effect
<1>5. \A T : [d EXCEPT !.tables[s.table] = T]
                 = [tables |-> Replaced(d.tables, s.table, T), types |-> d.types]
  BY <1>1, <1>2
<1>6. s.kind = "addColumn" =>
          Effect(d, s) = [d EXCEPT !.tables[s.table] = With(d.tables[s.table], s.column, s.as)]
  BY <1>3, <1>1
<1>7. s.kind = "dropColumn" =>
          Effect(d, s) = [d EXCEPT !.tables[s.table] =
                             Restrict(d.tables[s.table], DOMAIN d.tables[s.table] \ {s.column})]
  BY <1>4, <1>1
<1> QED BY <1>5, <1>6, <1>7 DEF Restrict

\* A column that has another type, or NULL constraint.
Typed(c, type) == [type |-> type, notNull |-> c.notNull, default |-> c.default,
                   unique |-> c.unique, ref |-> c.ref]
Nulled(c, notNull) == [type |-> c.type, notNull |-> notNull, default |-> c.default,
                       unique |-> c.unique, ref |-> c.ref]

LEMMA AlterEffect ==
    ASSUME NEW d, IsDb(d), NEW s, s.table \in DOMAIN d.tables,
           s.column \in DOMAIN d.tables[s.table]
    PROVE  /\ s.kind = "setType" =>
                  Effect(d, s) = [tables |-> Replaced(d.tables, s.table,
                                     Replaced(d.tables[s.table], s.column,
                                        Typed(d.tables[s.table][s.column], s.type))),
                                  types |-> d.types]
           /\ s.kind = "setNull" =>
                  Effect(d, s) = [tables |-> Replaced(d.tables, s.table,
                                     Replaced(d.tables[s.table], s.column,
                                        Nulled(d.tables[s.table][s.column], s.notNull))),
                                  types |-> d.types]
<1> DEFINE T == d.tables[s.table]
           c == T[s.column]
<1>1. d = [tables |-> d.tables, types |-> d.types]
  BY DEF IsDb
<1>2. d.tables = [t \in DOMAIN d.tables |-> d.tables[t]]
  BY DEF IsDb
<1>3. T = [x \in DOMAIN T |-> T[x]] /\ IsColumn(c)
  BY DEF IsDb, IsTable
<1>4. \A U : [d EXCEPT !.tables[s.table] = U]
                 = [tables |-> Replaced(d.tables, s.table, U), types |-> d.types]
  <2>1. \A U : [d.tables EXCEPT ![s.table] = U] = Replaced(d.tables, s.table, U)
    BY <1>2 DEF Replaced
  <2> QED BY <1>1, <2>1
<1> HIDE DEF T
<1>5. \A v : [T EXCEPT ![s.column] = v] = Replaced(T, s.column, v)
  BY <1>3 DEF Replaced
<1>6. c = [type |-> c.type, notNull |-> c.notNull, default |-> c.default,
           unique |-> c.unique, ref |-> c.ref]
  BY <1>3 DEF IsColumn
<1>7. ASSUME s.kind = "setType"
      PROVE  Effect(d, s) = [d EXCEPT !.tables[s.table] = [T EXCEPT ![s.column] = Typed(c, s.type)]]
  <2>1. Effect(d, s) = [d EXCEPT !.tables[s.table][s.column].type = s.type]
    BY <1>7 DEF Effect
  <2>2. Effect(d, s) = [d EXCEPT !.tables[s.table] =
                           [T EXCEPT ![s.column] = [c EXCEPT !.type = s.type]]]
    BY <2>1, <1>1 DEF T
  <2>3. [c EXCEPT !.type = s.type] = Typed(c, s.type)
    <3> HIDE DEF c
    <3> QED BY <1>6 DEF Typed
  <2> QED BY <2>2, <2>3
<1>8. ASSUME s.kind = "setNull"
      PROVE  Effect(d, s) = [d EXCEPT !.tables[s.table] =
                                [T EXCEPT ![s.column] = Nulled(c, s.notNull)]]
  <2>1. Effect(d, s) = [d EXCEPT !.tables[s.table][s.column].notNull = s.notNull]
    BY <1>8 DEF Effect
  <2>2. Effect(d, s) = [d EXCEPT !.tables[s.table] =
                           [T EXCEPT ![s.column] = [c EXCEPT !.notNull = s.notNull]]]
    BY <2>1, <1>1 DEF T
  <2>3. [c EXCEPT !.notNull = s.notNull] = Nulled(c, s.notNull)
    <3> HIDE DEF c
    <3> QED BY <1>6 DEF Nulled
  <2> QED BY <2>2, <2>3
<1> HIDE DEF c
<1>9. /\ s.kind = "setType" =>
             Effect(d, s) = [tables |-> Replaced(d.tables, s.table,
                                Replaced(T, s.column, Typed(c, s.type))), types |-> d.types]
      /\ s.kind = "setNull" =>
             Effect(d, s) = [tables |-> Replaced(d.tables, s.table,
                                Replaced(T, s.column, Nulled(c, s.notNull))), types |-> d.types]
  BY <1>4, <1>5, <1>7, <1>8
<1> QED BY <1>9 DEF T, c

-----------------------------------------------------------------------------
(* Types                                                                    *)

\* A foreign key, and one of which both columns are there.
IsRef(r) == r = None \/ r = At(r.table, r.column)
Points(tables, r) == \/ r = None
                     \/ /\ r.table \in DOMAIN tables
                        /\ r.column \in DOMAIN tables[r.table] \cup {Key}

LEMMA SameAt == \A t, c, u, x : /\ At(t, c) = At(u, x) <=> t = u /\ c = x
                                /\ At(t, c).table = t /\ At(t, c).column = c
BY DEF At

LEMMA InReferring ==
    ASSUME NEW d, NEW t, NEW c
    PROVE  /\ \A a \in Referring(d, t, c) :
                  /\ a.table \in DOMAIN d.tables /\ a.column \in DOMAIN d.tables[a.table]
                  /\ d.tables[a.table][a.column].ref = At(t, c)
                  /\ a = At(a.table, a.column) /\ a # At(t, c)
           /\ \A u \in DOMAIN d.tables : \A x \in DOMAIN d.tables[u] :
                  d.tables[u][x].ref = At(t, c) /\ At(u, x) # At(t, c)
                      => At(u, x) \in Referring(d, t, c)
<1> DEFINE by(u) == {At(u, x) : x \in {y \in DOMAIN d.tables[u] : d.tables[u][y].ref = At(t, c)}}
<1>1. Referring(d, t, c) = (UNION {by(u) : u \in DOMAIN d.tables}) \ {At(t, c)}
  BY DEF Referring
<1>2. ASSUME NEW a \in Referring(d, t, c)
      PROVE  /\ a.table \in DOMAIN d.tables /\ a.column \in DOMAIN d.tables[a.table]
             /\ d.tables[a.table][a.column].ref = At(t, c)
             /\ a = At(a.table, a.column) /\ a # At(t, c)
  <2>1. PICK u \in DOMAIN d.tables : a \in by(u)
    BY <1>1
  <2>2. PICK x \in DOMAIN d.tables[u] : d.tables[u][x].ref = At(t, c) /\ a = At(u, x)
    BY <2>1
  <2>3. a # At(t, c)
    BY <1>1
  <2>4. a.table = u /\ a.column = x
    BY <2>2, SameAt
  <2> QED BY <2>2, <2>3, <2>4
<1>3. ASSUME NEW u \in DOMAIN d.tables, NEW x \in DOMAIN d.tables[u],
             d.tables[u][x].ref = At(t, c), At(u, x) # At(t, c)
      PROVE  At(u, x) \in Referring(d, t, c)
  <2>1. At(u, x) \in by(u)
    BY <1>3
  <2>2. At(u, x) \notin {At(t, c)}
    BY <1>3
  <2> HIDE DEF by
  <2> QED BY <1>1, <2>1, <2>2
<1> QED BY <1>2, <1>3

\* What a column is in the catalog, and in a statement.
Sound(c) == IsColumn(c) /\ c.type \in ColumnTypes /\ c.notNull \in BOOLEAN /\ IsRef(c.ref)
SoundTable(T) == IsTable(T) /\ \A c \in DOMAIN T : Sound(T[c])

Closed(tables) == \A t \in DOMAIN tables : \A c \in DOMAIN tables[t] : Points(tables, tables[t][c].ref)
DbOK(d) ==
    /\ IsDb(d)
    /\ \A t \in DOMAIN d.tables : t \in Range(TableOf) /\ SoundTable(d.tables[t])
    /\ Closed(d.tables)

StatementOK(s) ==
    /\ s.kind \in {"createTable", "dropTable", "addColumn", "dropColumn", "setType", "setNull",
                   "createType", "dropType", "garbled"}
    /\ s.kind = "createTable" => s.table \in Range(TableOf) /\ SoundTable(s.columns)
    /\ s.kind = "addColumn" => Sound(s.as) /\ s.as.ref = None
    /\ s.kind = "setType" => s.type \in ColumnTypes
    /\ s.kind = "setNull" => s.notNull \in BOOLEAN

Has(d, t, c) == t \in DOMAIN d.tables /\ c \in DOMAIN d.tables[t]

LEMMA Accepted ==
    ASSUME NEW d, NEW s
    PROVE  /\ s.kind = "garbled" => Refused(d, s)
           /\ s.kind = "createTable" =>
                 (Refused(d, s) <=> /\ s.table \notin DOMAIN d.tables
                                    /\ \E c \in DOMAIN s.columns : BadReference(d, s, s.columns[c]))
           /\ s.kind = "addColumn" =>
                 (Refused(d, s) <=> s.table \notin DOMAIN d.tables \/ Has(d, s.table, s.column))
           /\ s.kind = "dropColumn" =>
                 (Refused(d, s) <=> \/ s.table \notin DOMAIN d.tables
                                    \/ Referring(d, s.table, s.column) # {})
           /\ s.kind = "setType" =>
                 (Refused(d, s) <=> \/ ~ Has(d, s.table, s.column) \/ s.serial
                                    \/ NoCast(d, s) \/ BadType(d, s))
           /\ s.kind = "setNull" => (Refused(d, s) <=> ~ Has(d, s.table, s.column))
           /\ s.kind \in {"dropTable", "createType", "dropType"} => ~ Refused(d, s)
<1>1. s.kind = "createTable" =>
         (Refused(d, s) <=> /\ s.table \notin DOMAIN d.tables
                            /\ \E c \in Range(s.columns) : BadReference(d, s, c))
  BY DEF Refused
<1>2. s.kind = "addColumn" =>
         (Refused(d, s) <=> s.table \notin DOMAIN d.tables \/ Has(d, s.table, s.column))
  BY DEF Refused, Has
<1>3. s.kind = "dropColumn" =>
         (Refused(d, s) <=> s.table \notin DOMAIN d.tables \/ Referring(d, s.table, s.column) # {})
  BY DEF Refused
<1>4. s.kind = "setType" =>
         (Refused(d, s) <=> \/ ~ Has(d, s.table, s.column) \/ s.serial
                            \/ NoCast(d, s) \/ BadType(d, s))
  BY DEF Refused, Has
<1>5. s.kind = "setNull" => (Refused(d, s) <=> ~ Has(d, s.table, s.column))
  BY DEF Refused, Has
<1>6. s.kind \in {"dropTable", "createType", "dropType"} => ~ Refused(d, s)
  BY DEF Refused
<1>7. (\E c \in Range(s.columns) : BadReference(d, s, c))
          <=> (\E c \in DOMAIN s.columns : BadReference(d, s, s.columns[c]))
  BY DEF Range
<1>8. s.kind = "garbled" => Refused(d, s)
  BY DEF Refused
<1> QED BY <1>1, <1>2, <1>3, <1>4, <1>5, <1>6, <1>7, <1>8

\* Replacing a table, and a column of it.
LEMMA ReplacedOK ==
    ASSUME NEW d, DbOK(d), NEW t, t \in DOMAIN d.tables, NEW T, SoundTable(T),
           Closed(Replaced(d.tables, t, T))
    PROVE  DbOK([tables |-> Replaced(d.tables, t, T), types |-> d.types])
<1> DEFINE e == [tables |-> Replaced(d.tables, t, T), types |-> d.types]
<1>1. /\ e = [tables |-> e.tables, types |-> e.types]
      /\ e.tables = [u \in DOMAIN d.tables |-> IF u = t THEN T ELSE d.tables[u]]
      /\ Closed(e.tables)
  BY DEF Replaced
<1> HIDE DEF e
<1>2. DOMAIN e.tables = DOMAIN d.tables
  BY <1>1
<1>3. \A u \in DOMAIN d.tables : e.tables[u] = IF u = t THEN T ELSE d.tables[u]
  BY <1>1
<1>4. IsDb(e)
  BY <1>1, <1>2, <1>3 DEF IsDb, DbOK, SoundTable
<1>5. DbOK(e)
  BY <1>1, <1>2, <1>3, <1>4 DEF DbOK
<1> QED BY <1>5 DEF e

\* A table keeps its columns, and gets no foreign key.
LEMMA ReplacedClosed ==
    ASSUME NEW tables, Closed(tables), NEW t \in DOMAIN tables, NEW T,
           DOMAIN tables[t] \subseteq DOMAIN T,
           \A c \in DOMAIN T : T[c].ref = None \/ (c \in DOMAIN tables[t] /\ T[c].ref = tables[t][c].ref)
    PROVE  Closed(Replaced(tables, t, T))
<1> DEFINE R == Replaced(tables, t, T)
<1>1. DOMAIN R = DOMAIN tables /\ \A u \in DOMAIN tables : R[u] = IF u = t THEN T ELSE tables[u]
  BY DEF Replaced
<1> HIDE DEF R
<1>2. \A u \in DOMAIN tables : DOMAIN tables[u] \subseteq DOMAIN R[u]
  BY <1>1
<1>3. \A r : Points(tables, r) => Points(R, r)
  BY <1>1, <1>2 DEF Points
<1>4. Points(R, None)
  BY DEF Points
<1>5. Closed(R)
  BY <1>1, <1>3, <1>4 DEF Closed
<1> QED BY <1>5 DEF R

LEMMA EffectOK ==
    ASSUME NEW d, DbOK(d), NEW s, StatementOK(s), ~ Refused(d, s)
    PROVE  DbOK(Effect(d, s))
<1> DEFINE e == Effect(d, s)
<1>1. IsDb(d)
  BY DEF DbOK
<1>2. CASE s.kind \in {"createType", "dropType"}
  <2>1. e.tables = d.tables /\ e = [tables |-> e.tables, types |-> e.types]
    BY <1>1, <1>2, TypeEffect
  <2> HIDE DEF e
  <2>2. DbOK(e)
    BY <2>1 DEF DbOK, IsDb
  <2> QED BY <2>2 DEF e
<1>3. CASE s.kind = "createTable"
  <2>1. /\ e = [tables |-> e.tables, types |-> e.types]
        /\ e.tables = [t \in DOMAIN d.tables \cup {s.table} |->
                          IF t \in DOMAIN d.tables THEN d.tables[t] ELSE s.columns]
    BY <1>1, <1>3, TableEffect DEF With
  <2> HIDE DEF e
  <2>2. /\ DOMAIN e.tables = DOMAIN d.tables \cup {s.table}
        /\ \A t \in DOMAIN d.tables : e.tables[t] = d.tables[t]
        /\ s.table \notin DOMAIN d.tables => e.tables[s.table] = s.columns
    BY <2>1
  <2>3. s.table \in Range(TableOf) /\ SoundTable(s.columns)
    BY <1>3 DEF StatementOK
  <2>4. s.table \notin DOMAIN d.tables =>
            \A c \in DOMAIN s.columns : Points(e.tables, s.columns[c].ref)
    <3> SUFFICES ASSUME s.table \notin DOMAIN d.tables, NEW c \in DOMAIN s.columns
                 PROVE  Points(e.tables, s.columns[c].ref)
      OBVIOUS
    <3>1. ~ BadReference(d, s, s.columns[c])
      BY <1>3, Accepted
    <3> QED BY <2>2, <3>1 DEF BadReference, CanRefer, Points
  <2>5. \A t \in DOMAIN e.tables : t \in Range(TableOf) /\ SoundTable(e.tables[t])
    BY <2>2, <2>3 DEF DbOK
  <2>6. Closed(e.tables)
    <3>1. \A r : Points(d.tables, r) => Points(e.tables, r)
      BY <2>2 DEF Points
    <3> QED BY <2>2, <2>4, <3>1 DEF DbOK, Closed
  <2>7. DbOK(e)
    BY <2>1, <2>2, <2>5, <2>6 DEF DbOK, IsDb, SoundTable
  <2> QED BY <2>7 DEF e
<1>4. CASE s.kind = "dropTable"
  <2>1. /\ e = [tables |-> e.tables, types |-> e.types]
        /\ e.tables = Dropped(d.tables, s.table)
    BY <1>1, <1>4, TableEffect
  <2> HIDE DEF e
  <2>2. /\ DOMAIN e.tables = DOMAIN d.tables \ {s.table}
        /\ e.tables = [t \in DOMAIN e.tables |-> e.tables[t]]
    BY <2>1 DEF Dropped
  <2>3. ASSUME NEW t \in DOMAIN e.tables
        PROVE  /\ t \in Range(TableOf) /\ SoundTable(e.tables[t])
               /\ DOMAIN e.tables[t] = DOMAIN d.tables[t]
               /\ \A c \in DOMAIN e.tables[t] :
                     \/ e.tables[t][c].ref = None
                     \/ /\ e.tables[t][c].ref = d.tables[t][c].ref
                        /\ d.tables[t][c].ref.table # s.table
    <3> DEFINE T == d.tables[t]
               U == e.tables[t]
    <3>1. t \in DOMAIN d.tables
      BY <2>2
    <3>2. U = [c \in DOMAIN T |->
                  IF T[c].ref # None /\ T[c].ref.table = s.table
                  THEN [T[c] EXCEPT !.ref = None] ELSE T[c]]
      BY <2>1, <2>2 DEF Dropped
    <3>3. t \in Range(TableOf) /\ SoundTable(T)
      BY <3>1 DEF DbOK
    <3> HIDE DEF T, U
    <3>4. ASSUME NEW c \in DOMAIN T
          PROVE  Sound(U[c]) /\ (U[c].ref = None \/ (U[c].ref = T[c].ref /\ T[c].ref.table # s.table))
      <4>1. Sound(T[c])
        BY <3>3 DEF SoundTable
      <4>2. CASE T[c].ref # None /\ T[c].ref.table = s.table
        <5>1. U[c] = [type |-> T[c].type, notNull |-> T[c].notNull,
                      default |-> T[c].default, unique |-> T[c].unique, ref |-> None]
          BY <4>1, <4>2, <3>2 DEF Sound, IsColumn
        <5> QED BY <5>1, <4>1 DEF Sound, IsColumn, IsRef
      <4>3. CASE ~ (T[c].ref # None /\ T[c].ref.table = s.table)
        <5>1. U[c] = T[c]
          BY <3>2, <4>3
        <5> QED BY <5>1, <4>1, <4>3
      <4> QED BY <4>2, <4>3
    <3>5. DOMAIN U = DOMAIN T /\ U = [c \in DOMAIN U |-> U[c]]
      BY <3>2
    <3>6. SoundTable(U)
      BY <3>4, <3>5 DEF SoundTable, IsTable, Sound
    <3> QED BY <3>3, <3>4, <3>5, <3>6 DEF U, T
  <2>4. Closed(e.tables)
    <3> SUFFICES ASSUME NEW t \in DOMAIN e.tables, NEW c \in DOMAIN e.tables[t]
                 PROVE  Points(e.tables, e.tables[t][c].ref)
      BY DEF Closed
    <3>1. t \in DOMAIN d.tables /\ c \in DOMAIN d.tables[t]
      BY <2>2, <2>3
    <3>2. Points(d.tables, d.tables[t][c].ref)
      BY <3>1 DEF DbOK, Closed
    <3> QED BY <2>2, <2>3, <3>2 DEF Points
  <2>5. DbOK(e)
    BY <2>1, <2>2, <2>3, <2>4 DEF DbOK, IsDb, SoundTable
  <2> QED BY <2>5 DEF e
<1> DEFINE T == d.tables[s.table]
<1>5. CASE s.kind = "addColumn"
  <2>1. s.table \in DOMAIN d.tables /\ Sound(s.as) /\ s.as.ref = None
    BY <1>5, Accepted DEF StatementOK
  <2> DEFINE U == With(T, s.column, s.as)
  <2>2. e = [tables |-> Replaced(d.tables, s.table, U), types |-> d.types]
    BY <1>1, <1>5, <2>1, ColumnEffect
  <2>3. SoundTable(T)
    BY <2>1 DEF DbOK
  <2> HIDE DEF T
  <2>4. /\ SoundTable(U) /\ DOMAIN T \subseteq DOMAIN U
        /\ \A c \in DOMAIN U : U[c].ref = None \/ (c \in DOMAIN T /\ U[c].ref = T[c].ref)
    <3>1. U = [c \in DOMAIN T \cup {s.column} |-> IF c \in DOMAIN T THEN T[c] ELSE s.as]
      BY DEF With
    <3> HIDE DEF U
    <3> QED BY <2>1, <2>3, <3>1 DEF SoundTable, IsTable, Sound
  <2> HIDE DEF U, e
  <2>5. Closed(Replaced(d.tables, s.table, U))
    BY <2>1, <2>4, ReplacedClosed DEF T, DbOK
  <2>6. DbOK(e)
    BY <2>1, <2>2, <2>4, <2>5, ReplacedOK
  <2> QED BY <2>6 DEF e
<1>6. CASE s.kind = "dropColumn"
  <2>1. s.table \in DOMAIN d.tables /\ Referring(d, s.table, s.column) = {}
    BY <1>6, Accepted
  <2> DEFINE U == [c \in DOMAIN T \ {s.column} |-> T[c]]
  <2>2. e = [tables |-> Replaced(d.tables, s.table, U), types |-> d.types]
    BY <1>1, <1>6, <2>1, ColumnEffect
  <2>3. SoundTable(T)
    BY <2>1 DEF DbOK
  <2> HIDE DEF T
  <2>4. /\ SoundTable(U) /\ DOMAIN U = DOMAIN T \ {s.column}
        /\ \A c \in DOMAIN U : U[c] = T[c]
    BY <2>3 DEF SoundTable, IsTable, Sound
  <2> DEFINE R == Replaced(d.tables, s.table, U)
  <2> HIDE DEF U, e
  <2>6. Closed(R)
    <3>1. DOMAIN R = DOMAIN d.tables /\ \A u \in DOMAIN R : R[u] = IF u = s.table THEN U ELSE d.tables[u]
      BY DEF Replaced
    <3> HIDE DEF R
    <3> SUFFICES ASSUME NEW u \in DOMAIN R, NEW x \in DOMAIN R[u]
                 PROVE  Points(R, R[u][x].ref)
      BY DEF Closed
    <3>2. /\ u \in DOMAIN d.tables /\ x \in DOMAIN d.tables[u] /\ R[u][x] = d.tables[u][x]
          /\ At(u, x) # At(s.table, s.column)
      BY <3>1, <2>4, SameAt DEF T
    <3> DEFINE r == d.tables[u][x].ref
    <3>3. IsRef(r) /\ Points(d.tables, r)
      BY <3>2 DEF DbOK, SoundTable, Sound, Closed
    <3>4. r # At(s.table, s.column)
      BY <3>2, <2>1, InReferring
    <3> HIDE DEF r
    <3>5. Points(R, r)
      <4>1. CASE r = None
        BY <4>1 DEF Points
      <4>2. CASE r # None
        <5>1. r.table \in DOMAIN R /\ r.column \in DOMAIN d.tables[r.table] \cup {Key}
          BY <3>1, <3>3, <4>2 DEF Points
        <5>2. ~ (r.table = s.table /\ r.column = s.column)
          BY <3>3, <3>4, <4>2 DEF IsRef
        <5>3. r.column \in DOMAIN R[r.table] \cup {Key}
          BY <3>1, <2>4, <5>1, <5>2 DEF T
        <5> QED BY <5>1, <5>3 DEF Points
      <4> QED BY <4>1, <4>2
    <3> QED BY <3>2, <3>5 DEF r
  <2>5. DbOK(e)
    BY <2>1, <2>2, <2>4, <2>6, ReplacedOK DEF R
  <2> QED BY <2>5 DEF e
<1>7. CASE s.kind \in {"setType", "setNull"}
  <2>1. s.table \in DOMAIN d.tables /\ s.column \in DOMAIN T
    BY <1>7, Accepted DEF Has
  <2> DEFINE v == IF s.kind = "setType" THEN Typed(T[s.column], s.type)
                                        ELSE Nulled(T[s.column], s.notNull)
             U == Replaced(T, s.column, v)
  <2>2. e = [tables |-> Replaced(d.tables, s.table, U), types |-> d.types]
    BY <1>1, <1>7, <2>1, AlterEffect
  <2>3. SoundTable(T)
    BY <2>1 DEF DbOK
  <2> HIDE DEF T
  <2>4. Sound(v) /\ v.ref = T[s.column].ref
    <3>1. Sound(T[s.column])
      BY <2>1, <2>3 DEF SoundTable
    <3>2. CASE s.kind = "setType"
      <4>1. v = Typed(T[s.column], s.type) /\ s.type \in ColumnTypes
        BY <3>2 DEF StatementOK
      <4> HIDE DEF v
      <4> QED BY <3>1, <4>1 DEF Sound, IsColumn, Typed
    <3>3. CASE s.kind = "setNull"
      <4>1. v = Nulled(T[s.column], s.notNull) /\ s.notNull \in BOOLEAN
        BY <3>3 DEF StatementOK
      <4> HIDE DEF v
      <4> QED BY <3>1, <4>1 DEF Sound, IsColumn, Nulled
    <3> QED BY <1>7, <3>2, <3>3
  <2> HIDE DEF v
  <2>5. /\ SoundTable(U) /\ DOMAIN U = DOMAIN T
        /\ \A c \in DOMAIN U : U[c].ref = T[c].ref
    <3>1. U = [c \in DOMAIN T |-> IF c = s.column THEN v ELSE T[c]]
      BY DEF Replaced
    <3> HIDE DEF U
    <3> QED BY <2>1, <2>3, <2>4, <3>1 DEF SoundTable, IsTable, Sound
  <2> HIDE DEF U, e
  <2>6. Closed(Replaced(d.tables, s.table, U))
    BY <2>1, <2>5, ReplacedClosed DEF T, DbOK
  <2>7. DbOK(e)
    BY <2>1, <2>2, <2>5, <2>6, ReplacedOK
  <2> QED BY <2>7 DEF e
<1>8. s.kind # "garbled"
  BY Accepted
<1> QED BY <1>2, <1>3, <1>4, <1>5, <1>6, <1>7, <1>8 DEF StatementOK

\* The columns of a table that is created.
LEMMA ColumnsOfModel ==
    ASSUME NEW s \in Schemas, NEW m \in ToSet(s.models)
    PROVE  /\ DOMAIN Columns(m) = {m.fields[x].col : x \in DOMAIN m.fields}
           /\ \A x \in DOMAIN m.fields : Columns(m)[m.fields[x].col] = Column(m.fields[x])
           /\ SoundTable(Columns(m))
<1> DEFINE F == m.fields
           cols == {F[x].col : x \in DOMAIN F}
           Of(c) == CHOOSE f \in Range(F) : f.col = c
<1>1. \A x, y \in DOMAIN F : F[x].col = F[y].col => x = y
  BY SchemaAssumption
<1>2. \A x \in DOMAIN F : SqlType(F[x]) \in ColumnTypes
  BY ModelOfName, FieldsOfName
<1>3. cols = {f.col : f \in Range(F)}
  BY DEF Range
<1>4. ASSUME NEW x \in DOMAIN F
      PROVE  Of(F[x].col) = F[x]
  <2>1. F[x] \in Range(F) /\ F[x].col = F[x].col
    BY DEF Range
  <2>2. Of(F[x].col) \in Range(F) /\ Of(F[x].col).col = F[x].col
    BY <2>1
  <2>3. PICK y \in DOMAIN F : Of(F[x].col) = F[y]
    BY <2>2 DEF Range
  <2> HIDE DEF Of, F
  <2> QED BY <1>1, <2>2, <2>3
<1>5. Columns(m) = [c \in cols |-> Column(Of(c))]
  BY <1>3 DEF Columns
<1> HIDE DEF Of, F
<1>6. /\ DOMAIN Columns(m) = cols
      /\ \A x \in DOMAIN F : Columns(m)[F[x].col] = Column(F[x])
  BY <1>4, <1>5
<1>7. \A x \in DOMAIN F : Sound(Column(F[x]))
  <2> SUFFICES ASSUME NEW x \in DOMAIN F PROVE Sound(Column(F[x]))
    OBVIOUS
  <2>1. NotNull(F[x]) \in BOOLEAN
    BY DEF NotNull
  <2>2. IsRef(Column(F[x]).ref)
    BY SameAt DEF IsRef, Column
  <2> QED BY <1>2, <2>1, <2>2 DEF Sound, IsColumn, Column
<1>8. SoundTable(Columns(m))
  <2>1. \A c \in cols : Sound(Columns(m)[c])
    BY <1>6, <1>7
  <2> QED BY <1>5, <1>6, <2>1 DEF SoundTable, IsTable, Sound
<1> QED BY <1>6, <1>8 DEF F

LEMMA CreateTableOK ==
    ASSUME NEW s \in Schemas, NEW m \in ToSet(s.models)
    PROVE  StatementOK(CreateTable(m))
<1>1. TableOf[m.name] \in Range(TableOf)
  BY SchemaAssumption DEF Range
<1> QED BY <1>1, ColumnsOfModel, TableStatements DEF StatementOK

LEMMA CreateTypeOK == \A e : StatementOK(CreateType(e))
BY TableStatements DEF StatementOK

LEMMA AddedColumn ==
    ASSUME NEW f
    PROVE  /\ IsColumn(Added(f)) /\ Added(f).type = SqlType(f) /\ Added(f).notNull = NotNull(f)
           /\ Added(f).ref = None
BY DEF Added, IsColumn

LEMMA StatementsOK ==
    ASSUME NEW from \in Schemas, NEW to \in Schemas, NEW s \in Statements(from, to)
    PROVE  StatementOK(s)
<1>1. CASE s \in Creating(from, to)
  BY <1>1, ModelOfName, CreateTableOK DEF Creating
<1>2. CASE s \in Dropping(from, to) \cup NewTypes(from, to) \cup OldTypes(from, to)
  BY <1>2, StatementKinds DEF StatementOK
<1>3. CASE s \in Changing(from, to)
  <2>1. PICK n \in Both(from, to) : s \in FieldStatements(from, to, n)
    BY <1>3 DEF Changing
  <2>2. CASE s \in Adding(from, to, n)
    <3>1. PICK x \in DOMAIN FieldsOf(to, n) : s = AddColumn(TableOf[n], FieldsOf(to, n)[x])
      BY <2>2 DEF Adding, NewFields
    <3>2. SqlType(FieldsOf(to, n)[x]) \in ColumnTypes
      BY FieldsOfName DEF Both
    <3>3. NotNull(FieldsOf(to, n)[x]) \in BOOLEAN
      BY DEF NotNull
    <3> QED BY <3>1, <3>2, <3>3, ColumnStatements, AddedColumn DEF StatementOK, Sound, IsRef
  <2>3. CASE s \in Removing(from, to, n)
    BY <2>3, FieldStatementKinds DEF StatementOK
  <2>4. CASE s \in AlteringAll(from, to, n)
    <3>1. PICK x \in DOMAIN FieldsOf(to, n) :
              \/ s = SetType(TableOf[n], FieldsOf(to, n)[x])
              \/ s = SetNull(TableOf[n], FieldsOf(to, n)[x])
      BY <2>4 DEF AlteringAll, Altering, KeptFields
    <3>2. SqlType(FieldsOf(to, n)[x]) \in ColumnTypes
      BY FieldsOfName DEF Both
    <3>3. CASE s = SetType(TableOf[n], FieldsOf(to, n)[x])
      <4>1. s.kind = "setType" /\ s.type \in ColumnTypes
        BY <3>2, <3>3, ColumnStatements
      <4> QED BY <4>1 DEF StatementOK
    <3>4. CASE s = SetNull(TableOf[n], FieldsOf(to, n)[x])
      <4>1. s.kind = "setNull" /\ s.notNull = ~ FieldsOf(to, n)[x].optional
        BY <3>4, ColumnStatements
      <4>2. \A v : (~ v) \in BOOLEAN
        OBVIOUS
      <4>3. s.notNull \in BOOLEAN
        BY <4>1, <4>2
      <4> QED BY <4>1, <4>3 DEF StatementOK
    <3> QED BY <3>1, <3>3, <3>4
  <2> QED BY <2>1, <2>2, <2>3, <2>4 DEF FieldStatements
<1> QED BY <1>1, <1>2, <1>3 DEF Statements

\* What db push executes.
LEMMA FullSchemaStatements ==
    ASSUME NEW s \in Schemas
    PROVE  /\ FullSchema(s) \in Seq(ToSet(FullSchema(s)))
           /\ ToSet(FullSchema(s)) = {CreateType(e) : e \in ToSet(s.enums)}
                                        \cup {CreateTable(m) : m \in ToSet(s.models)}
           /\ Len(FullSchema(s)) = Len(s.enums) + Len(s.models)
<1> DEFINE a == [i \in DOMAIN s.enums |-> CreateType(s.enums[i])]
           b == [i \in DOMAIN s.models |-> CreateTable(s.models[i])]
           A == {CreateType(e) : e \in ToSet(s.enums)}
           B == {CreateTable(m) : m \in ToSet(s.models)}
<1>1. s.enums \in Seq(ToSet(s.enums)) /\ s.models \in Seq(ToSet(s.models))
  BY SchemaAssumption
<1>2. /\ a \in Seq(A) /\ Len(a) = Len(s.enums) /\ ToSet(a) = A
      /\ b \in Seq(B) /\ Len(b) = Len(s.models) /\ ToSet(b) = B
  <2>1. DOMAIN s.enums = 1 .. Len(s.enums) /\ DOMAIN s.models = 1 .. Len(s.models)
        /\ Len(s.enums) \in Nat /\ Len(s.models) \in Nat
    BY <1>1
  <2>2. ToSet(a) = A /\ ToSet(b) = B
    BY DEF ToSet
  <2>3. (\A i \in DOMAIN s.enums : a[i] \in A) /\ (\A i \in DOMAIN s.models : b[i] \in B)
    BY DEF ToSet
  <2>4. a \in [1 .. Len(s.enums) -> A] /\ b \in [1 .. Len(s.models) -> B]
    <3>1. DOMAIN a = DOMAIN s.enums /\ DOMAIN b = DOMAIN s.models
      OBVIOUS
    <3>2. a = [i \in DOMAIN a |-> a[i]] /\ b = [i \in DOMAIN b |-> b[i]]
      OBVIOUS
    <3> HIDE DEF a, b, A, B
    <3> QED BY <2>1, <2>3, <3>1, <3>2
  <2> HIDE DEF a, b, A, B
  <2>5. a \in Seq(A) /\ Len(a) = Len(s.enums)
    BY <2>1, <2>4
  <2>6. b \in Seq(B) /\ Len(b) = Len(s.models)
    BY <2>1, <2>4
  <2> QED BY <2>2, <2>5, <2>6
<1>3. FullSchema(s) = a \o b
  BY DEF FullSchema
<1> HIDE DEF a, b, A, B
<1>4. /\ a \o b \in Seq(A \cup B) /\ Len(a \o b) = Len(a) + Len(b)
      /\ Len(a) \in Nat /\ Len(b) \in Nat
      /\ \A i \in 1 .. Len(a) : (a \o b)[i] = a[i]
      /\ \A i \in 1 .. Len(b) : (a \o b)[Len(a) + i] = b[i]
  <2>1. a \in Seq(A \cup B) /\ b \in Seq(A \cup B)
    BY <1>2
  <2> QED BY <2>1
<1>5. ToSet(a \o b) = A \cup B
  <2>1. DOMAIN (a \o b) = 1 .. (Len(a) + Len(b))
    BY <1>4
  <2>2. ToSet(a \o b) \subseteq A \cup B
    BY <1>4, <2>1 DEF ToSet
  <2>3. ASSUME NEW x \in A PROVE x \in ToSet(a \o b)
    <3>1. PICK i \in 1 .. Len(a) : a[i] = x
      BY <1>2 DEF ToSet
    <3>2. i \in DOMAIN (a \o b) /\ (a \o b)[i] = x
      BY <3>1, <2>1, <1>4
    <3> QED BY <3>2 DEF ToSet
  <2>4. ASSUME NEW x \in B PROVE x \in ToSet(a \o b)
    <3>1. PICK i \in 1 .. Len(b) : b[i] = x
      BY <1>2 DEF ToSet
    <3>2. Len(a) + i \in DOMAIN (a \o b) /\ (a \o b)[Len(a) + i] = x
      BY <3>1, <2>1, <1>4
    <3> QED BY <3>2 DEF ToSet
  <2> QED BY <2>2, <2>3, <2>4
<1> QED BY <1>2, <1>3, <1>4, <1>5 DEF A, B

\* What a text leaves, when it is not refused.
LEMMA ExecutedOK ==
    ASSUME NEW d, DbOK(d), NEW A, \A s \in A : StatementOK(s), NEW sql \in Seq(A),
           Executed(d, sql) # None
    PROVE  DbOK(Executed(d, sql))
<1> DEFINE n == Len(sql)
<1>1. n \in Nat /\ DOMAIN sql = 1 .. n /\ \A i \in 1 .. n : StatementOK(sql[i])
  OBVIOUS
<1> HIDE DEF n
<1>2. PICK acc : /\ acc[0] = d
                 /\ \A i \in 1 .. n : acc[i] = Execute(acc[i - 1], sql[i])
                 /\ Executed(d, sql) = acc[n]
  BY <1>1, Execution
<1> DEFINE T == {i \in 0 .. n : acc[i] = None \/ DbOK(acc[i])}
<1>3. 0 \in T
  BY <1>1, <1>2
<1>4. ASSUME NEW i \in 0 .. n, i \in T, i < n
      PROVE  i + 1 \in T
  <2>1. i + 1 \in 1 .. n /\ (i + 1) - 1 = i
    BY <1>1, <1>4
  <2>2. acc[i + 1] = Execute(acc[i], sql[i + 1]) /\ StatementOK(sql[i + 1])
    BY <1>1, <1>2, <2>1
  <2>3. acc[i + 1] = None \/ DbOK(acc[i + 1])
    BY <1>4, <2>2, EffectOK DEF Execute
  <2> QED BY <1>1, <2>1, <2>3
<1>5. n \in T
  <2>1. \A i \in 0 .. n : i \in T /\ i < n => i + 1 \in T
    BY <1>4
  <2> HIDE DEF T
  <2>2. \A i \in 0 .. n : i \in T
    BY <1>1, <1>3, <2>1, UpTo
  <2> QED BY <1>1, <2>2
<1> QED BY <1>2, <1>5

AllStatements == UNION {ToSet(FullSchema(s)) : s \in Schemas}
\* Of a push, or of a migration.
AnyStatement == AllStatements \cup {Garbled[1]}
                    \cup UNION {Statements(p[1], p[2]) : p \in Schemas \X Schemas}

Types ==
    /\ file \in Schemas /\ snapshot \in Schemas \cup {None}
    /\ unreadable \in BOOLEAN /\ unapplied \in Seq(Seq(AnyStatement))
    /\ push \in [schema : Schemas \cup {None}, sql : Seq(AllStatements), alone : BOOLEAN,
                 status : {"none", "running", "failed", "pushed"}]
    /\ outcome \in {"none", "noSnapshot", "unsupported", "unchanged", "refused", "failed",
                    "interrupted", "applied"}
    /\ commands \in 0 .. MaxCommands
    /\ DbOK(db)

LEMMA AllStatementsOK == \A s \in AllStatements : StatementOK(s)
<1> SUFFICES ASSUME NEW r \in Schemas, NEW s \in ToSet(FullSchema(r)) PROVE StatementOK(s)
  BY DEF AllStatements
<1> QED BY FullSchemaStatements, CreateTypeOK, CreateTableOK

LEMMA FullSchemaInAll ==
    ASSUME NEW s \in Schemas
    PROVE  FullSchema(s) \in Seq(AllStatements)
<1>1. ToSet(FullSchema(s)) \subseteq AllStatements
  BY DEF AllStatements
<1>2. FullSchema(s) \in Seq(ToSet(FullSchema(s)))
  BY FullSchemaStatements
<1> QED BY <1>1, <1>2

LEMMA AnyStatementOK == \A s \in AnyStatement : StatementOK(s)
<1>1. StatementOK(Garbled[1])
  BY DEF Garbled, StatementOK
<1>2. ASSUME NEW p \in Schemas \X Schemas, NEW s \in Statements(p[1], p[2])
      PROVE  StatementOK(s)
  BY <1>2, StatementsOK
<1> QED BY <1>1, <1>2, AllStatementsOK DEF AnyStatement

\* What can become of a migration.
LEMMA Migrated ==
    ASSUME MigrateDev
    PROVE  \/ UNCHANGED <<file, db, snapshot, unreadable, unapplied, push, astray, made>>
           \/ /\ UNCHANGED file
              /\ \E sql \in DevMigrationSQL(snapshot, file) :
                    \/ Interrupted(sql)
                    \/ Executed(db, sql) # None /\ Applied(Executed(db, sql))
                    \/ Executed(db, sql) # None /\ CommitLost(Executed(db, sql), sql)
<1>1. UNCHANGED file
  BY DEF MigrateDev
<1>2. CASE \E how : NotApplied(how)
  BY <1>1, <1>2 DEF NotApplied
<1>3. CASE \E sql \in DevMigrationSQL(snapshot, file) :
                    \/ Interrupted(sql)
                    \/ Executed(db, sql) # None /\ Applied(Executed(db, sql))
                    \/ Executed(db, sql) # None /\ CommitLost(Executed(db, sql), sql)
  BY <1>1, <1>3
<1> QED BY <1>2, <1>3 DEF MigrateDev

LEMMA GarbledText == Garbled \in Seq(AnyStatement)
<1>1. Garbled = <<Garbled[1]>> /\ Garbled[1] \in AnyStatement
  BY DEF Garbled, AnyStatement
<1>2. \A x \in AnyStatement : <<x>> \in Seq(AnyStatement)
  OBVIOUS
<1> QED BY <1>1, <1>2

LEMMA MigrationSQL ==
    ASSUME NEW from \in Schemas \cup {None}, NEW to \in Schemas, NEW sql \in DevMigrationSQL(from, to)
    PROVE  sql \in Seq(AnyStatement)
<1>1. CASE from = None
  <2>1. sql = FullSchema(to) \/ sql = Garbled
    BY <1>1 DEF DevMigrationSQL, FirstMigrationSQL
  <2>2. FullSchema(to) \in Seq(AllStatements) /\ AllStatements \subseteq AnyStatement
    BY FullSchemaInAll DEF AnyStatement
  <2> QED BY <2>1, <2>2, GarbledText
<1>2. CASE from # None
  <2>1. sql \in GenerateMigrationSQL(from, to)
    BY <1>2 DEF DevMigrationSQL
  <2>2. sql \in Seq(Statements(from, to))
    BY <1>2, <2>1, MigrationText DEF IsText
  <2>3. Statements(from, to) \subseteq AnyStatement
    <3>1. <<from, to>> \in Schemas \X Schemas
      BY <1>2
    <3> QED BY <3>1 DEF AnyStatement
  <2> QED BY <2>2, <2>3
<1> QED BY <1>1, <1>2

LEMMA MigrationOK ==
    ASSUME Types, NEW sql \in Seq(AnyStatement), Executed(db, sql) # None
    PROVE  DbOK(Executed(db, sql))
BY AnyStatementOK, ExecutedOK DEF Types

\* What an interrupted migration leaves on disk.
LEMMA InterruptedLeaves ==
    ASSUME Types, NEW sql \in Seq(AnyStatement), Interrupted(sql), UNCHANGED file
    PROVE  /\ UNCHANGED <<db, push, made>>
           /\ unapplied' \in Seq(Seq(AnyStatement)) /\ unreadable' \in BOOLEAN
           /\ \/ UNCHANGED <<snapshot, astray>>
              \/ /\ snapshot' \in Schemas
                 /\ astray' = astray \cup NewlyDeclared(snapshot, snapshot')
<1>1. UNCHANGED <<db, push, made>>
  BY DEF Interrupted
<1>2. CASE SqlCut(sql)
  <2>1. PICK text \in {SubSeq(sql, 1, k) : k \in 0 .. Len(sql)} \cup {Garbled} :
            unapplied' = Append(unapplied, text)
    BY <1>2 DEF SqlCut
  <2>2. text \in Seq(AnyStatement)
    <3>1. CASE text = Garbled
      BY <3>1, GarbledText
    <3>2. ASSUME NEW k \in 0 .. Len(sql), text = SubSeq(sql, 1, k)
          PROVE  text \in Seq(AnyStatement)
      <4>1. Len(sql) \in Nat /\ k \in Nat /\ k <= Len(sql)
            /\ \A i \in 1 .. Len(sql) : sql[i] \in AnyStatement
        OBVIOUS
      <4>2. text = [i \in 1 .. k |-> sql[i]]
        BY <3>2, <4>1
      <4>3. \A i \in 1 .. k : sql[i] \in AnyStatement
        BY <4>1
      <4>4. [i \in 1 .. k |-> sql[i]] \in Seq(AnyStatement)
        BY <4>1, <4>3
      <4> QED BY <4>2, <4>4
    <3> QED BY <2>1, <3>1, <3>2
  <2>3. unreadable' = (snapshot = None) /\ UNCHANGED <<snapshot, astray>>
    BY <1>2 DEF SqlCut
  <2>4. unreadable' \in BOOLEAN
    BY <2>3
  <2>5. unapplied' \in Seq(Seq(AnyStatement))
    BY <2>1, <2>2 DEF Types
  <2> QED BY <1>1, <2>3, <2>4, <2>5
<1>3. CASE SnapshotCut(sql)
  <2>1. unapplied' \in Seq(Seq(AnyStatement))
    BY <1>3 DEF SnapshotCut, Types
  <2>2. CASE unreadable' = TRUE /\ UNCHANGED <<snapshot, astray>>
    BY <1>1, <2>1, <2>2
  <2>3. ASSUME NEW s \in Schemas, snapshot' = s, UNCHANGED unreadable,
               astray' = astray \cup NewlyDeclared(snapshot, s)
        PROVE  /\ snapshot' \in Schemas /\ unreadable' \in BOOLEAN
               /\ astray' = astray \cup NewlyDeclared(snapshot, snapshot')
    BY <2>3 DEF Types
  <2> QED BY <1>1, <1>3, <2>1, <2>2, <2>3 DEF SnapshotCut
<1> QED BY <1>2, <1>3 DEF Interrupted

LEMMA TypesInitially == Init => Types
<1> SUFFICES ASSUME Init PROVE Types
  OBVIOUS
<1>1. DbOK(Empty)
  <2>1. Empty.tables = <<>> /\ DOMAIN Empty.tables = {}
    BY DEF Empty
  <2>2. Empty = [tables |-> Empty.tables, types |-> Empty.types]
    BY DEF Empty
  <2>3. Empty.tables = [t \in DOMAIN Empty.tables |-> Empty.tables[t]]
    BY <2>1
  <2> QED BY <2>1, <2>2, <2>3 DEF DbOK, IsDb, Closed
<1>4. <<>> \in Seq(Seq(AnyStatement)) /\ FALSE \in BOOLEAN
  OBVIOUS
<1>2. Idle \in [schema : Schemas \cup {None}, sql : Seq(AllStatements), alone : BOOLEAN,
                status : {"none", "running", "failed", "pushed"}]
  BY DEF Idle
<1>3. 0 \in 0 .. MaxCommands
  BY SchemaAssumption
<1> QED BY <1>1, <1>2, <1>3, <1>4 DEF Init, Types

LEMMA TypesKept == Types /\ [Next]_vars => Types'
<1> SUFFICES ASSUME Types, [Next]_vars PROVE Types'
  OBVIOUS
<1>1. CASE Edit
  BY <1>1 DEF Types, Edit
<1>2. CASE MigrateDev
  <2>1. commands' \in 0 .. MaxCommands
    BY <1>2, SchemaAssumption DEF MigrateDev, Counted, Types
  <2>2. outcome' \in {"none", "noSnapshot", "unsupported", "unchanged", "refused", "failed",
                     "interrupted", "applied"}
    BY <1>2 DEF MigrateDev, NotApplied, Applied, CommitLost, Interrupted
  <2>3. CASE UNCHANGED <<file, db, snapshot, unreadable, unapplied, push, astray, made>>
    BY <2>1, <2>2, <2>3 DEF Types
  <2>4. ASSUME UNCHANGED file, NEW sql \in DevMigrationSQL(snapshot, file),
               Executed(db, sql) # None, Applied(Executed(db, sql))
        PROVE  Types'
    <3>1. DbOK(db')
      BY <2>4, MigrationSQL, MigrationOK DEF Applied, Types
    <3>2. /\ push' = [push EXCEPT !.alone = FALSE] /\ snapshot' = file
          /\ UNCHANGED <<unreadable, unapplied>>
      BY <2>4 DEF Applied
    <3> QED BY <2>1, <2>2, <2>4, <3>1, <3>2 DEF Types
  <2>5. ASSUME UNCHANGED file, NEW sql \in DevMigrationSQL(snapshot, file),
               Executed(db, sql) # None, CommitLost(Executed(db, sql), sql)
        PROVE  Types'
    <3>1. DbOK(db')
      BY <2>5, MigrationSQL, MigrationOK DEF CommitLost, Strays, Types
    <3>2. /\ push' = [push EXCEPT !.alone = FALSE]
          /\ UNCHANGED <<snapshot, unreadable, unapplied>>
      BY <2>5 DEF CommitLost, Strays
    <3> QED BY <2>1, <2>2, <2>5, <3>1, <3>2 DEF Types
  <2>6. ASSUME UNCHANGED file, NEW sql \in DevMigrationSQL(snapshot, file), Interrupted(sql)
        PROVE  Types'
    <3>1. sql \in Seq(AnyStatement)
      BY <2>6, MigrationSQL DEF Types
    <3>2. /\ UNCHANGED <<db, push, made>> /\ snapshot' \in Schemas \cup {None}
          /\ unapplied' \in Seq(Seq(AnyStatement)) /\ unreadable' \in BOOLEAN
      BY <2>6, <3>1, InterruptedLeaves DEF Types
    <3> QED BY <2>1, <2>2, <2>6, <3>2 DEF Types
  <2> QED BY <1>2, <2>3, <2>4, <2>5, <2>6, Migrated
<1>7. CASE Deploy
  <2>1. commands' \in 0 .. MaxCommands
    BY <1>7, SchemaAssumption DEF Deploy, Counted, Types
  <2>2. /\ unapplied # <<>> /\ unapplied' = Tail(unapplied) /\ outcome' = "none"
        /\ UNCHANGED <<file, snapshot, unreadable>>
        /\ Executed(db, Head(unapplied)) # None /\ db' = Executed(db, Head(unapplied))
        /\ push' = [push EXCEPT !.alone = FALSE]
    BY <1>7 DEF Deploy, Strays
  <2>3. Head(unapplied) \in Seq(AnyStatement) /\ unapplied' \in Seq(Seq(AnyStatement))
    BY <2>2 DEF Types
  <2>4. DbOK(db')
    BY <2>2, <2>3, MigrationOK
  <2> QED BY <2>1, <2>2, <2>3, <2>4 DEF Types
<1>3. CASE StartPush
  <2>1. commands' \in 0 .. MaxCommands
    BY <1>3, SchemaAssumption DEF StartPush, Counted, Types
  <2>2. FullSchema(file) \in Seq(AllStatements)
    BY FullSchemaInAll DEF Types
  <2> QED BY <1>3, <2>1, <2>2 DEF StartPush, Types
<1>4. CASE PushStep
  <2>1. /\ push.sql \in Seq(AllStatements) /\ push.sql # <<>>
        /\ UNCHANGED <<file, snapshot, unreadable, unapplied, outcome, commands>>
        /\ \/ ~ Refused(db, Head(push.sql)) /\ db' = Effect(db, Head(push.sql))
              /\ push' = [push EXCEPT !.sql = Tail(@)]
           \/ push' = [push EXCEPT !.status = "failed"] /\ db' = db
    BY <1>4 DEF PushStep, Types, PushStopped
  <2>2. Head(push.sql) \in AllStatements /\ Tail(push.sql) \in Seq(AllStatements)
    BY <2>1
  <2>3. DbOK(db')
    BY <2>1, <2>2, AllStatementsOK, EffectOK DEF Types
  <2>4. push' \in [schema : Schemas \cup {None}, sql : Seq(AllStatements), alone : BOOLEAN,
                   status : {"none", "running", "failed", "pushed"}]
    BY <2>1, <2>2 DEF Types
  <2> QED BY <2>1, <2>3, <2>4 DEF Types
<1>5. CASE PushDone
  BY <1>5 DEF Types, PushDone
<1>6. CASE UNCHANGED vars
  BY <1>6 DEF Types, vars
<1> QED BY <1>1, <1>2, <1>3, <1>4, <1>5, <1>6, <1>7 DEF Next

THEOREM TypesInvariant == Spec => []Types
BY TypesInitially, TypesKept, PTL DEF Spec

\* The catalog holds tables of typed columns, and a foreign key refers to a column that
\* is there: CREATE TABLE is refused without it, so is DROP COLUMN of one that another
\* refers to, and DROP TABLE ... CASCADE drops the key.
THEOREM TypesCorrect == Spec => []TypeOK
<1>1. Types => TypeOK
  <2> SUFFICES ASSUME Types PROVE TypeOK
    OBVIOUS
  <2>1. \A t \in DOMAIN db.tables : \A c \in Range(db.tables[t]) :
            /\ c.type \in ColumnTypes /\ c.notNull \in BOOLEAN
            /\ c.ref # None => /\ c.ref.table \in DOMAIN db.tables
                              /\ c.ref.column \in DOMAIN db.tables[c.ref.table] \cup {Key}
    BY DEF Types, DbOK, SoundTable, Sound, Closed, Points, Range
  <2>2. \A t \in DOMAIN db.tables : t \in Range(TableOf)
    BY DEF Types, DbOK
  <2>3. push.status \in {"none", "running", "failed", "pushed"}
    BY DEF Types
  <2> QED BY <2>1, <2>2, <2>3 DEF TypeOK, Types
<1> QED BY <1>1, TypesInvariant, PTL

-----------------------------------------------------------------------------
(* db push                                                                  *)

InPlace(d, s) ==
    /\ s.kind = "createType" => s.type \in d.types
    /\ s.kind = "createTable" => s.table \in DOMAIN d.tables

\* CREATE adds what is not there, and changes nothing else.
LEMMA CreateEffect ==
    ASSUME NEW d, IsDb(d), NEW s, s.kind \in {"createType", "createTable"},
           NEW e, e = Effect(d, s)
    PROVE  /\ d.types \subseteq e.types /\ DOMAIN d.tables \subseteq DOMAIN e.tables
           /\ \A t \in DOMAIN d.tables : e.tables[t] = d.tables[t]
           /\ \A t \in DOMAIN e.tables \ DOMAIN d.tables :
                 s.kind = "createTable" /\ t = s.table /\ e.tables[t] = s.columns
           /\ InPlace(e, s)
<1>1. CASE s.kind = "createType"
  <2>1. e = [tables |-> d.tables, types |-> d.types \cup {s.type}]
    BY <1>1, TypeEffect
  <2>2. e.tables = d.tables /\ e.types = d.types \cup {s.type}
    BY <2>1
  <2> QED BY <1>1, <2>2 DEF InPlace
<1>2. CASE s.kind = "createTable"
  <2>1. e = [tables |-> With(d.tables, s.table, s.columns), types |-> d.types]
    BY <1>2, TableEffect
  <2>2. /\ e.types = d.types
        /\ e.tables = [t \in DOMAIN d.tables \cup {s.table} |->
                          IF t \in DOMAIN d.tables THEN d.tables[t] ELSE s.columns]
    BY <2>1 DEF With
  <2> QED BY <1>2, <2>2 DEF InPlace
<1> QED BY <1>1, <1>2

\* What a push has executed is in place, what a push made is as its schema says.
PushInv ==
    /\ push.status = "pushed" => push.sql = <<>>
    /\ push.sql # <<>> \/ push.alone => push.schema \in Schemas
    /\ \A s \in ToSet(push.sql) : s \in ToSet(FullSchema(push.schema))
    /\ push.alone => \A s \in ToSet(FullSchema(push.schema)) : s \in ToSet(push.sql) \/ InPlace(db, s)
    /\ \A m \in ToSet(push.schema.models) :
          TableOf[m.name] \in made =>
             TableOf[m.name] \in DOMAIN db.tables /\ db.tables[TableOf[m.name]] = Columns(m)

LEMMA HeadAndTail ==
    ASSUME NEW V, NEW q \in Seq(V), q # <<>>
    PROVE  /\ Head(q) \in ToSet(q)
           /\ \A x \in ToSet(q) : x = Head(q) \/ x \in ToSet(Tail(q))
           /\ \A x \in ToSet(Tail(q)) : x \in ToSet(q)
<1>1. DOMAIN q = 1 .. Len(q) /\ Len(q) \in Nat /\ Len(q) > 0 /\ Head(q) = q[1]
  OBVIOUS
<1>2. Len(Tail(q)) = Len(q) - 1 /\ DOMAIN Tail(q) = 1 .. (Len(q) - 1)
  OBVIOUS
<1>3. \A i \in 1 .. (Len(q) - 1) : Tail(q)[i] = q[i + 1]
  OBVIOUS
<1>4. ASSUME NEW x \in ToSet(q), x # Head(q)
      PROVE  x \in ToSet(Tail(q))
  <2>1. PICK i \in 1 .. Len(q) : q[i] = x
    BY <1>1 DEF ToSet
  <2>2. i - 1 \in 1 .. (Len(q) - 1) /\ (i - 1) + 1 = i
    BY <1>1, <1>4, <2>1
  <2>3. Tail(q)[i - 1] = x /\ i - 1 \in DOMAIN Tail(q)
    BY <1>2, <1>3, <2>1, <2>2
  <2> QED BY <2>3 DEF ToSet
<1>5. ASSUME NEW x \in ToSet(Tail(q))
      PROVE  x \in ToSet(q)
  <2>1. PICK i \in 1 .. (Len(q) - 1) : Tail(q)[i] = x
    BY <1>2 DEF ToSet
  <2>2. i + 1 \in DOMAIN q /\ q[i + 1] = x
    BY <1>1, <1>3, <2>1
  <2> QED BY <2>2 DEF ToSet
<1>6. Head(q) \in ToSet(q)
  BY <1>1 DEF ToSet
<1> QED BY <1>4, <1>5, <1>6

LEMMA CreateKinds ==
    ASSUME NEW s \in Schemas, NEW r \in ToSet(FullSchema(s))
    PROVE  /\ r.kind \in {"createType", "createTable"}
           /\ r.kind = "createTable" =>
                 \E m \in ToSet(s.models) : r.table = TableOf[m.name] /\ r.columns = Columns(m)
<1>1. \/ \E e \in ToSet(s.enums) : r = CreateType(e)
      \/ \E m \in ToSet(s.models) : r = CreateTable(m)
  BY FullSchemaStatements
<1>2. CASE \E e \in ToSet(s.enums) : r = CreateType(e)
  BY <1>2, TableStatements
<1>3. CASE \E m \in ToSet(s.models) : r = CreateTable(m)
  BY <1>3, TableStatements
<1> QED BY <1>1, <1>2, <1>3

LEMMA PushStepKeeps == Types /\ PushInv /\ PushStep => PushInv'
<1> SUFFICES ASSUME Types, PushInv, PushStep PROVE PushInv'
  OBVIOUS
<1> DEFINE s == Head(push.sql)
<1>1. /\ push.status = "running" /\ push.sql # <<>> /\ push.sql \in Seq(AllStatements)
      /\ \/ /\ db' = Effect(db, s)
            /\ made' = made \cup (DOMAIN db'.tables \ DOMAIN db.tables)
            /\ push' = [push EXCEPT !.sql = Tail(@)]
         \/ push' = PushStopped(push) /\ UNCHANGED <<db, made>>
  BY DEF PushStep, Types
<1>2. /\ s \in ToSet(push.sql)
      /\ \A x \in ToSet(push.sql) : x = s \/ x \in ToSet(Tail(push.sql))
      /\ \A x \in ToSet(Tail(push.sql)) : x \in ToSet(push.sql)
  BY <1>1, HeadAndTail
<1>3. push.schema \in Schemas
  BY <1>1 DEF PushInv
<1>4. s \in ToSet(FullSchema(push.schema))
  BY <1>2 DEF PushInv
<1>5. CASE /\ db' = Effect(db, s)
           /\ made' = made \cup (DOMAIN db'.tables \ DOMAIN db.tables)
           /\ push' = [push EXCEPT !.sql = Tail(@)]
  <2>1. /\ push'.sql = Tail(push.sql) /\ push'.schema = push.schema
        /\ push'.alone = push.alone /\ push'.status = "running"
    BY <1>1, <1>5 DEF Types
  <2>2. /\ s.kind \in {"createType", "createTable"}
        /\ s.kind = "createTable" =>
              \E m \in ToSet(push.schema.models) :
                 s.table = TableOf[m.name] /\ s.columns = Columns(m)
    BY <1>3, <1>4, CreateKinds
  <2> HIDE DEF s
  <2>3. /\ db.types \subseteq db'.types /\ DOMAIN db.tables \subseteq DOMAIN db'.tables
        /\ \A t \in DOMAIN db.tables : db'.tables[t] = db.tables[t]
        /\ \A t \in DOMAIN db'.tables \ DOMAIN db.tables :
              s.kind = "createTable" /\ t = s.table /\ db'.tables[t] = s.columns
        /\ InPlace(db', s)
    BY <1>5, <2>2, CreateEffect DEF Types, DbOK
  <2>4. \A x \in ToSet(push'.sql) : x \in ToSet(FullSchema(push'.schema))
    BY <1>2, <2>1 DEF PushInv
  <2>5. ASSUME push'.alone, NEW x \in ToSet(FullSchema(push'.schema))
        PROVE  x \in ToSet(push'.sql) \/ InPlace(db', x)
    <3>1. x \in ToSet(push.sql) \/ InPlace(db, x)
      BY <2>1, <2>5 DEF PushInv
    <3> QED BY <3>1, <1>2, <2>1, <2>3 DEF InPlace
  <2>6. ASSUME NEW m \in ToSet(push'.schema.models), TableOf[m.name] \in made'
        PROVE  TableOf[m.name] \in DOMAIN db'.tables /\ db'.tables[TableOf[m.name]] = Columns(m)
    <3>1. m \in ToSet(push.schema.models)
      BY <2>1
    <3>2. CASE TableOf[m.name] \in made
      BY <3>1, <3>2, <2>3 DEF PushInv
    <3>3. CASE TableOf[m.name] \in DOMAIN db'.tables \ DOMAIN db.tables
      <4>1. PICK k \in ToSet(push.schema.models) :
               TableOf[m.name] = TableOf[k.name] /\ db'.tables[TableOf[m.name]] = Columns(k)
        BY <3>3, <2>2, <2>3
      <4>2. m = k
        BY <3>1, <4>1, <1>3, ModelOfName
      <4> QED BY <3>3, <4>1, <4>2
    <3> QED BY <3>2, <3>3, <2>6, <1>5
  <2> QED BY <2>1, <2>4, <2>5, <2>6, <1>3 DEF PushInv
<1>6. CASE push' = PushStopped(push) /\ UNCHANGED <<db, made>>
  <2>1. /\ push'.sql = push.sql /\ push'.schema = push.schema
        /\ push'.alone = push.alone /\ push'.status = "failed"
    BY <1>6 DEF Types, PushStopped
  <2> QED BY <2>1, <1>6 DEF PushInv
<1> QED BY <1>1, <1>5, <1>6

LEMMA PushKept == Types /\ PushInv /\ [Next]_vars => PushInv'
<1> SUFFICES ASSUME Types, PushInv, [Next]_vars PROVE PushInv'
  OBVIOUS
<1>1. CASE Edit
  BY <1>1 DEF PushInv, Edit
<1>2. CASE MigrateDev \/ Deploy
  <2>1. CASE UNCHANGED <<db, push, made>>
    BY <2>1 DEF PushInv
  <2>2. ASSUME NEW d, NEW sql, Applied(d) \/ Strays(d, sql)
        PROVE  PushInv'
    <3>1. /\ push'.sql = push.sql /\ push'.schema = push.schema
          /\ push'.alone = FALSE /\ push'.status = push.status /\ made' = {}
      BY <2>2 DEF Types, Applied, Strays
    <3> QED BY <3>1 DEF PushInv
  <2>3. CASE Deploy
    BY <2>2, <2>3 DEF Deploy
  <2>4. CASE MigrateDev
    <3>1. CASE \E sql : Interrupted(sql)
      BY <3>1, <2>1 DEF Interrupted
    <3>2. CASE \E d, sql : CommitLost(d, sql)
      BY <3>2, <2>2 DEF CommitLost
    <3> QED BY <2>1, <2>2, <2>4, <3>1, <3>2, Migrated
  <2> QED BY <1>2, <2>3, <2>4
<1>3. CASE StartPush
  <2>1. /\ push'.sql = FullSchema(file) /\ push'.schema = file /\ file \in Schemas
        /\ push'.status = "running" /\ db' = db
        /\ made' = IF file = push.schema THEN made ELSE {}
    BY <1>3 DEF StartPush, Types
  <2> QED BY <2>1 DEF PushInv
<1>4. CASE PushStep
  BY <1>4, PushStepKeeps
<1>5. CASE PushDone
  <2>1. /\ push'.sql = push.sql /\ push'.schema = push.schema /\ push.sql = <<>>
        /\ push'.alone = push.alone /\ db' = db /\ made' = made
    BY <1>5 DEF PushDone, Types
  <2> QED BY <2>1 DEF PushInv
<1>6. CASE UNCHANGED vars
  BY <1>6 DEF PushInv, vars
<1> QED BY <1>1, <1>2, <1>3, <1>4, <1>5, <1>6 DEF Next

\* A push that answers success has completed its schema, with what earlier pushes of
\* it that failed half way had made.
THEOREM PushesComplete == Spec => []PushCompletes
<1>1. Init => PushInv
  <2> SUFFICES ASSUME Init PROVE PushInv
    OBVIOUS
  <2>1. push.sql = <<>> /\ push.alone = FALSE /\ push.status = "none" /\ made = {}
    BY DEF Init, Idle
  <2>2. ToSet(<<>>) = {}
    BY DEF ToSet
  <2> QED BY <2>1, <2>2 DEF PushInv
<1>2. Types /\ PushInv => PushCompletes
  <2> SUFFICES ASSUME Types, PushInv, push.status = "pushed", push.alone
               PROVE  PushCompletes
    BY DEF PushCompletes
  <2>1. push.schema \in Schemas /\ push.sql = <<>> /\ ToSet(<<>>) = {}
    BY DEF PushInv, ToSet
  <2>2. \A s \in ToSet(FullSchema(push.schema)) : InPlace(db, s)
    BY <2>1 DEF PushInv
  <2>3. \A e \in ToSet(push.schema.enums) : e \in db.types
    <3> SUFFICES ASSUME NEW e \in ToSet(push.schema.enums) PROVE e \in db.types
      OBVIOUS
    <3>1. CreateType(e) \in ToSet(FullSchema(push.schema))
      BY <2>1, FullSchemaStatements
    <3> QED BY <2>2, <3>1, TableStatements DEF InPlace
  <2>4. \A m \in ToSet(push.schema.models) : TableOf[m.name] \in DOMAIN db.tables
    <3> SUFFICES ASSUME NEW m \in ToSet(push.schema.models)
                 PROVE  TableOf[m.name] \in DOMAIN db.tables
      OBVIOUS
    <3>1. CreateTable(m) \in ToSet(FullSchema(push.schema))
      BY <2>1, FullSchemaStatements
    <3> QED BY <2>2, <3>1, TableStatements DEF InPlace
  <2> QED BY <2>3, <2>4 DEF PushCompletes, PushInv
<1> QED BY <1>1, <1>2, PushKept, TypesInvariant, PTL DEF Spec

-----------------------------------------------------------------------------
(* What a set of statements does, in whatever order they are executed       *)

On(E, kind, t) == {s \in E : s.kind = kind /\ s.table = t}
OnColumn(E, kind, t, c) == {s \in E : s.kind = kind /\ s.table = t /\ s.column = c}
OfType(E, kind, e) == {s \in E : s.kind = kind /\ s.type = e}
The(S) == CHOOSE s \in S : TRUE

\* The tables, and a table as it was, or is created.
TablesAfter(d, E) ==
    {t \in DOMAIN d.tables \cup {s.table : s \in {r \in E : r.kind = "createTable"}} :
        On(E, "dropTable", t) = {}}
Base(d, E, t) == IF t \in DOMAIN d.tables THEN d.tables[t] ELSE The(On(E, "createTable", t)).columns

\* Its columns, and a column as it was, or is created or added.
ColumnsAfter(d, E, t) ==
    {c \in DOMAIN Base(d, E, t) \cup {s.column : s \in On(E, "addColumn", t)} :
        OnColumn(E, "dropColumn", t, c) = {}}
Found1st(d, E, t, c) == IF c \in DOMAIN Base(d, E, t) THEN Base(d, E, t)[c]
                        ELSE The(OnColumn(E, "addColumn", t, c)).as

TypeAfter(E, t, c, f) == IF OnColumn(E, "setType", t, c) = {} THEN f.type
                         ELSE The(OnColumn(E, "setType", t, c)).type
NullAfter(E, t, c, f) == IF OnColumn(E, "setNull", t, c) = {} THEN f.notNull
                         ELSE The(OnColumn(E, "setNull", t, c)).notNull
RefAfter(E, r) == IF r = None \/ On(E, "dropTable", r.table) = {} THEN r ELSE None

ColumnAfter(E, t, c, f) == [type |-> TypeAfter(E, t, c, f), notNull |-> NullAfter(E, t, c, f),
                            default |-> f.default, unique |-> f.unique,
                            ref |-> RefAfter(E, f.ref)]
TableAfter(d, E, t) ==
    [c \in ColumnsAfter(d, E, t) |-> ColumnAfter(E, t, c, Found1st(d, E, t, c))]
TypesAfter(d, E) == {e \in d.types \cup {s.type : s \in {r \in E : r.kind = "createType"}} :
                        OfType(E, "dropType", e) = {}}

After(d, E) == [tables |-> [t \in TablesAfter(d, E) |-> TableAfter(d, E, t)],
                types |-> TypesAfter(d, E)]

LEMMA AfterIsDb ==
    ASSUME NEW d, NEW E
    PROVE  /\ IsDb(After(d, E))
           /\ After(d, E).tables = [t \in TablesAfter(d, E) |-> TableAfter(d, E, t)]
           /\ DOMAIN After(d, E).tables = TablesAfter(d, E)
           /\ \A t \in TablesAfter(d, E) : After(d, E).tables[t] = TableAfter(d, E, t)
           /\ After(d, E).types = TypesAfter(d, E)
<1> DEFINE e == After(d, E)
<1>1. /\ e.tables = [t \in TablesAfter(d, E) |-> TableAfter(d, E, t)]
      /\ e.types = TypesAfter(d, E)
      /\ e = [tables |-> e.tables, types |-> e.types]
  BY DEF After
<1>2. \A t : IsTable(TableAfter(d, E, t))
  BY DEF IsTable, IsColumn, TableAfter, ColumnAfter
<1> HIDE DEF e
<1>3. IsDb(e)
  BY <1>1, <1>2 DEF IsDb
<1> QED BY <1>1, <1>3 DEF e

LEMMA TableIs ==
    ASSUME NEW d, NEW E, NEW t
    PROVE  /\ DOMAIN TableAfter(d, E, t) = ColumnsAfter(d, E, t)
           /\ \A c \in ColumnsAfter(d, E, t) :
                 TableAfter(d, E, t)[c] = ColumnAfter(E, t, c, Found1st(d, E, t, c))
BY DEF TableAfter

\* A column that no statement alters.
LEMMA ColumnStays ==
    ASSUME NEW E, NEW t, NEW c, NEW f, IsColumn(f),
           OnColumn(E, "setType", t, c) = {}, OnColumn(E, "setNull", t, c) = {},
           f.ref = None \/ On(E, "dropTable", f.ref.table) = {}
    PROVE  ColumnAfter(E, t, c, f) = f
BY DEF ColumnAfter, TypeAfter, NullAfter, RefAfter, IsColumn

\* A table that is there, when tables are created.
LEMMA Untouched ==
    ASSUME NEW d, IsDb(d), NEW E, \A s \in E : s.kind = "createTable", NEW t \in DOMAIN d.tables
    PROVE  TableAfter(d, E, t) = d.tables[t]
<1> DEFINE T == d.tables[t]
<1>1. Base(d, E, t) = T
  BY DEF Base
<1>2. IsTable(T)
  BY DEF IsDb
<1> HIDE DEF T
<1>3. \A k, u : k # "createTable" => On(E, k, u) = {}
  BY DEF On
<1>4. \A k, u, c : k # "createTable" => OnColumn(E, k, u, c) = {}
  BY DEF OnColumn
<1>5. ColumnsAfter(d, E, t) = DOMAIN T
  BY <1>1, <1>3, <1>4 DEF ColumnsAfter
<1>6. \A c \in DOMAIN T : ColumnAfter(E, t, c, Found1st(d, E, t, c)) = T[c]
  <2> SUFFICES ASSUME NEW c \in DOMAIN T
               PROVE  ColumnAfter(E, t, c, Found1st(d, E, t, c)) = T[c]
    OBVIOUS
  <2>1. Found1st(d, E, t, c) = T[c] /\ IsColumn(T[c])
    BY <1>1, <1>2 DEF Found1st, IsTable
  <2> QED BY <2>1, <1>3, <1>4, ColumnStays
<1>7. T = [c \in DOMAIN T |-> T[c]]
  BY <1>2 DEF IsTable
<1>8. TableAfter(d, E, t) = T
  BY <1>5, <1>6, <1>7 DEF TableAfter
<1> QED BY <1>8 DEF T

LEMMA AfterNothing ==
    ASSUME NEW d, IsDb(d)
    PROVE  After(d, {}) = d
<1>1. \A k, t : On({}, k, t) = {}
  BY DEF On
<1>2. TablesAfter(d, {}) = DOMAIN d.tables /\ TypesAfter(d, {}) = d.types
  BY <1>1 DEF TablesAfter, TypesAfter, OfType
<1>3. \A t \in DOMAIN d.tables : TableAfter(d, {}, t) = d.tables[t]
  BY Untouched
<1>4. d = [tables |-> d.tables, types |-> d.types]
      /\ d.tables = [t \in DOMAIN d.tables |-> d.tables[t]]
  BY DEF IsDb
<1>5. [t \in TablesAfter(d, {}) |-> TableAfter(d, {}, t)] = d.tables
  BY <1>2, <1>3, <1>4
<1> QED BY <1>2, <1>4, <1>5 DEF After

\* A statement more.
LEMMA OfOtherKind ==
    ASSUME NEW E, NEW s, NEW k, s.kind # k
    PROVE  /\ \A t : On(E \cup {s}, k, t) = On(E, k, t)
           /\ \A t, c : OnColumn(E \cup {s}, k, t, c) = OnColumn(E, k, t, c)
           /\ \A e : OfType(E \cup {s}, k, e) = OfType(E, k, e)
BY DEF On, OnColumn, OfType

LEMMA OnOtherTable ==
    ASSUME NEW E, NEW s, NEW t, s.table # t
    PROVE  /\ \A k : On(E \cup {s}, k, t) = On(E, k, t)
           /\ \A k, c : OnColumn(E \cup {s}, k, t, c) = OnColumn(E, k, t, c)
BY DEF On, OnColumn

LEMMA OnOtherColumn ==
    ASSUME NEW E, NEW s, NEW c, s.column # c
    PROVE  \A k, t : OnColumn(E \cup {s}, k, t, c) = OnColumn(E, k, t, c)
BY DEF OnColumn

LEMMA OneMore ==
    ASSUME NEW E, NEW s
    PROVE  /\ On(E \cup {s}, s.kind, s.table) = On(E, s.kind, s.table) \cup {s}
           /\ OnColumn(E \cup {s}, s.kind, s.table, s.column)
                 = OnColumn(E, s.kind, s.table, s.column) \cup {s}
           /\ OfType(E \cup {s}, s.kind, s.type) = OfType(E, s.kind, s.type) \cup {s}
BY DEF On, OnColumn, OfType

\* A table is created by one statement, a column added or altered by one of a kind.
Distinct(E) ==
    \A x, y \in E : x.kind = y.kind =>
        /\ x.kind = "createTable" /\ x.table = y.table => x = y
        /\ x.kind \in {"addColumn", "setType", "setNull"} /\ x.table = y.table /\ x.column = y.column
              => x = y

LEMMA TheOnly ==
    ASSUME NEW s
    PROVE  The({s}) = s
BY DEF The

LEMMA OnlyOne ==
    ASSUME NEW E, NEW s, s \notin E, Distinct(E \cup {s})
    PROVE  /\ s.kind = "createTable" => On(E, "createTable", s.table) = {}
           /\ \A k \in {"addColumn", "setType", "setNull"} :
                 s.kind = k => OnColumn(E, k, s.table, s.column) = {}
BY DEF Distinct, On, OnColumn

\* Tables that a statement does not name.
LEMMA OtherTables ==
    ASSUME NEW d, NEW E, NEW s, NEW t, s.kind # "dropTable",
           s.table # t \/ s.kind \in {"createType", "dropType"}
    PROVE  TableAfter(d, E \cup {s}, t) = TableAfter(d, E, t)
<1> DEFINE D == E \cup {s}
<1>1. \A k \in {"createTable", "addColumn"} : On(D, k, t) = On(E, k, t)
  BY OfOtherKind, OnOtherTable
<1>2. \A k \in {"addColumn", "dropColumn", "setType", "setNull"} :
          \A c : OnColumn(D, k, t, c) = OnColumn(E, k, t, c)
  <2>1. CASE s.table # t
    BY <2>1, OnOtherTable
  <2>2. CASE s.kind \in {"createType", "dropType"}
    BY <2>2, OfOtherKind
  <2> QED BY <2>1, <2>2
<1>3. \A u : On(D, "dropTable", u) = On(E, "dropTable", u)
  BY OfOtherKind
<1> HIDE DEF D
<1>4. Base(d, D, t) = Base(d, E, t)
  BY <1>1 DEF Base
<1>5. ColumnsAfter(d, D, t) = ColumnsAfter(d, E, t)
  BY <1>1, <1>2, <1>4 DEF ColumnsAfter
<1>6. ASSUME NEW c
      PROVE  ColumnAfter(D, t, c, Found1st(d, D, t, c)) = ColumnAfter(E, t, c, Found1st(d, E, t, c))
  <2>1. Found1st(d, D, t, c) = Found1st(d, E, t, c)
    BY <1>2, <1>4 DEF Found1st
  <2> QED BY <2>1, <1>2, <1>3 DEF ColumnAfter, TypeAfter, NullAfter, RefAfter
<1>7. TableAfter(d, D, t) = TableAfter(d, E, t)
  BY <1>5, <1>6 DEF TableAfter
<1> QED BY <1>7 DEF D

LEMMA SameTables ==
    ASSUME NEW d, NEW E, NEW s, s.kind \notin {"createTable", "dropTable"}
    PROVE  TablesAfter(d, E \cup {s}) = TablesAfter(d, E)
<1>1. \A t : On(E \cup {s}, "dropTable", t) = On(E, "dropTable", t)
  BY OfOtherKind
<1>2. {r \in E \cup {s} : r.kind = "createTable"} = {r \in E : r.kind = "createTable"}
  OBVIOUS
<1> QED BY <1>1, <1>2 DEF TablesAfter

LEMMA SameTypes ==
    ASSUME NEW d, NEW E, NEW s, s.kind \notin {"createType", "dropType"}
    PROVE  TypesAfter(d, E \cup {s}) = TypesAfter(d, E)
<1>1. \A e : OfType(E \cup {s}, "dropType", e) = OfType(E, "dropType", e)
  BY OfOtherKind
<1>2. {r \in E \cup {s} : r.kind = "createType"} = {r \in E : r.kind = "createType"}
  OBVIOUS
<1> QED BY <1>1, <1>2 DEF TypesAfter

LEMMA AfterIs ==
    ASSUME NEW d, NEW E, NEW tables, NEW types,
           After(d, E).tables = tables, TypesAfter(d, E) = types
    PROVE  After(d, E) = [tables |-> tables, types |-> types]
BY DEF After

\* What precedes a statement.
LEMMA Preceding ==
    ASSUME NEW x, NEW s, MayPrecede(x, s)
    PROVE  /\ s.kind = "createTable" => x.kind = "createTable"
           /\ s.kind = "dropTable" => x.kind \in {"createTable", "dropTable"}
           /\ s.kind = "createType" => x.kind # "dropType"
           /\ s.kind = "addColumn" /\ x.table = s.table =>
                 x.kind \notin {"dropColumn", "setType", "setNull"}
           /\ s.kind = "dropColumn" /\ x.table = s.table => x.kind \notin {"setType", "setNull"}
BY DEF MayPrecede, Place, FieldPlace

Next1(d, E, s) ==
    /\ IsDb(d) /\ s \notin E /\ Distinct(E \cup {s}) /\ StatementOK(s)
    /\ \A x \in E : MayPrecede(x, s)

LEMMA AfterType ==
    ASSUME NEW d, NEW E, NEW s, Next1(d, E, s), s.kind \in {"createType", "dropType"}
    PROVE  After(d, E \cup {s}) = Effect(After(d, E), s)
<1> DEFINE D == E \cup {s}
<1>1. After(d, D).tables = After(d, E).tables
  <2>1. TablesAfter(d, D) = TablesAfter(d, E)
    BY SameTables
  <2>2. \A t : TableAfter(d, D, t) = TableAfter(d, E, t)
    BY OtherTables
  <2> HIDE DEF D
  <2> QED BY <2>1, <2>2 DEF After
<1>2. CASE s.kind = "createType"
  <2>1. \A x \in D : x.kind # "dropType"
    BY <1>2, Preceding DEF Next1
  <2>2. (\A e : OfType(D, "dropType", e) = {}) /\ (\A e : OfType(E, "dropType", e) = {})
    BY <2>1 DEF OfType
  <2>3. {r.type : r \in {x \in D : x.kind = "createType"}}
           = {r.type : r \in {x \in E : x.kind = "createType"}} \cup {s.type}
    BY <1>2
  <2> HIDE DEF D
  <2>4. TypesAfter(d, D) = TypesAfter(d, E) \cup {s.type}
    BY <2>2, <2>3 DEF TypesAfter
  <2>5. Effect(After(d, E), s) = [tables |-> After(d, E).tables,
                                  types |-> After(d, E).types \cup {s.type}]
    BY <1>2, AfterIsDb, TypeEffect
  <2>6. After(d, D) = [tables |-> After(d, E).tables, types |-> After(d, E).types \cup {s.type}]
    BY <1>1, <2>4, AfterIs, AfterIsDb
  <2> QED BY <2>5, <2>6 DEF D
<1>3. CASE s.kind = "dropType"
  <2>1. {r.type : r \in {x \in D : x.kind = "createType"}}
           = {r.type : r \in {x \in E : x.kind = "createType"}}
    BY <1>3
  <2>2. /\ \A e : e # s.type => OfType(D, "dropType", e) = OfType(E, "dropType", e)
        /\ OfType(D, "dropType", s.type) # {}
    BY <1>3 DEF OfType
  <2> HIDE DEF D
  <2>3. TypesAfter(d, D) = TypesAfter(d, E) \ {s.type}
    BY <2>1, <2>2 DEF TypesAfter
  <2>4. Effect(After(d, E), s) = [tables |-> After(d, E).tables,
                                  types |-> After(d, E).types \ {s.type}]
    BY <1>3, AfterIsDb, TypeEffect
  <2>5. After(d, D) = [tables |-> After(d, E).tables, types |-> After(d, E).types \ {s.type}]
    BY <1>1, <2>3, AfterIs, AfterIsDb
  <2> QED BY <2>4, <2>5 DEF D
<1> QED BY <1>2, <1>3

LEMMA AfterDropTable ==
    ASSUME NEW d, NEW E, NEW s, Next1(d, E, s), s.kind = "dropTable"
    PROVE  After(d, E \cup {s}) = Effect(After(d, E), s)
<1> DEFINE D == E \cup {s}
           a == After(d, E)
           b == After(d, D)
<1>1. Effect(a, s) = [tables |-> Dropped(a.tables, s.table), types |-> a.types]
  BY AfterIsDb, TableEffect
<1>2. /\ \A u : u # s.table => On(D, "dropTable", u) = On(E, "dropTable", u)
      /\ On(D, "dropTable", s.table) # {}
      /\ \A k, u : k # "dropTable" => On(D, k, u) = On(E, k, u)
      /\ \A k, u, c : k # "dropTable" => OnColumn(D, k, u, c) = OnColumn(E, k, u, c)
  BY DEF On, OnColumn
<1>3. {x \in D : x.kind = "createTable"} = {x \in E : x.kind = "createTable"}
  OBVIOUS
<1>4. TypesAfter(d, D) = TypesAfter(d, E)
  BY SameTypes
<1> HIDE DEF D
<1>5. TablesAfter(d, D) = TablesAfter(d, E) \ {s.table}
  BY <1>2, <1>3 DEF TablesAfter
<1>6. ASSUME NEW u
      PROVE  TableAfter(d, D, u) =
                [c \in DOMAIN TableAfter(d, E, u) |->
                    IF /\ TableAfter(d, E, u)[c].ref # None
                       /\ TableAfter(d, E, u)[c].ref.table = s.table
                    THEN [TableAfter(d, E, u)[c] EXCEPT !.ref = None]
                    ELSE TableAfter(d, E, u)[c]]
  <2>1. Base(d, D, u) = Base(d, E, u)
    BY <1>2 DEF Base
  <2>2. ColumnsAfter(d, D, u) = ColumnsAfter(d, E, u)
    BY <1>2, <2>1 DEF ColumnsAfter
  <2>3. ASSUME NEW c
        PROVE  Found1st(d, D, u, c) = Found1st(d, E, u, c)
    BY <1>2, <2>1 DEF Found1st
  <2>4. ASSUME NEW c, NEW f
        PROVE  ColumnAfter(D, u, c, f) =
                  IF ColumnAfter(E, u, c, f).ref # None /\ ColumnAfter(E, u, c, f).ref.table = s.table
                  THEN [ColumnAfter(E, u, c, f) EXCEPT !.ref = None]
                  ELSE ColumnAfter(E, u, c, f)
    <3>1. RefAfter(D, f.ref) = IF RefAfter(E, f.ref) # None /\ RefAfter(E, f.ref).table = s.table
                               THEN None ELSE RefAfter(E, f.ref)
      BY <1>2 DEF RefAfter
    <3>2. TypeAfter(D, u, c, f) = TypeAfter(E, u, c, f) /\ NullAfter(D, u, c, f) = NullAfter(E, u, c, f)
      BY <1>2 DEF TypeAfter, NullAfter
    <3> QED BY <3>1, <3>2 DEF ColumnAfter
  <2>5. TableAfter(d, D, u) = [c \in ColumnsAfter(d, E, u) |-> ColumnAfter(D, u, c, Found1st(d, E, u, c))]
    BY <2>2, <2>3 DEF TableAfter
  <2> QED BY <2>4, <2>5, TableIs
<1>7. b.tables = Dropped(a.tables, s.table)
  <2>1. /\ b.tables = [u \in TablesAfter(d, E) \ {s.table} |-> TableAfter(d, D, u)]
        /\ DOMAIN a.tables = TablesAfter(d, E)
        /\ \A u \in TablesAfter(d, E) : a.tables[u] = TableAfter(d, E, u)
    BY <1>5, AfterIsDb
  <2> HIDE DEF a, b
  <2> QED BY <2>1, <1>6 DEF Dropped
<1>8. TypesAfter(d, D) = a.types
  BY <1>4, AfterIsDb
<1> HIDE DEF a
<1>9. b = [tables |-> Dropped(a.tables, s.table), types |-> a.types]
  BY <1>7, <1>8, AfterIs
<1>10. b = Effect(a, s)
  BY <1>1, <1>9
<1> QED BY <1>10 DEF D, a

LEMMA AfterCreateTable ==
    ASSUME NEW d, NEW E, NEW s, Next1(d, E, s), s.kind = "createTable"
    PROVE  After(d, E \cup {s}) = Effect(After(d, E), s)
<1> DEFINE D == E \cup {s}
           a == After(d, E)
           b == After(d, D)
<1>1. Effect(a, s) = [tables |-> With(a.tables, s.table, s.columns), types |-> a.types]
  BY AfterIsDb, TableEffect
<1>2. TypesAfter(d, D) = TypesAfter(d, E)
  BY SameTypes
<1>3. \A x \in D : x.kind = "createTable"
  BY Preceding DEF Next1
<1>4. /\ \A k, u : k # "createTable" => On(D, k, u) = {} /\ On(E, k, u) = {}
      /\ \A k, u, c : k # "createTable" => OnColumn(D, k, u, c) = {} /\ OnColumn(E, k, u, c) = {}
  BY <1>3 DEF On, OnColumn
<1>5. {x.table : x \in {r \in D : r.kind = "createTable"}}
         = {x.table : x \in {r \in E : r.kind = "createTable"}} \cup {s.table}
  OBVIOUS
<1>6. On(D, "createTable", s.table) = {s} /\ On(E, "createTable", s.table) = {}
  <2>1. On(E, "createTable", s.table) = {}
    BY OnlyOne DEF Next1
  <2>2. On(D, s.kind, s.table) = On(E, s.kind, s.table) \cup {s}
    BY OneMore
  <2> QED BY <2>1, <2>2
<1>7. \A u : u # s.table => TableAfter(d, D, u) = TableAfter(d, E, u)
  BY OtherTables
<1> HIDE DEF D
<1>8. TablesAfter(d, D) = TablesAfter(d, E) \cup {s.table}
  BY <1>4, <1>5 DEF TablesAfter
<1>9. ASSUME s.table \in DOMAIN d.tables
      PROVE  b.tables = With(a.tables, s.table, s.columns)
  <2>1. s.table \in TablesAfter(d, E)
    BY <1>4, <1>9 DEF TablesAfter
  <2>2. TableAfter(d, D, s.table) = TableAfter(d, E, s.table)
    <3>1. Base(d, D, s.table) = Base(d, E, s.table)
      BY <1>9 DEF Base
    <3>2. ColumnsAfter(d, D, s.table) = ColumnsAfter(d, E, s.table)
      BY <1>4, <3>1 DEF ColumnsAfter
    <3>3. \A c : Found1st(d, D, s.table, c) = Found1st(d, E, s.table, c)
      BY <1>4, <3>1 DEF Found1st
    <3>4. \A c, f : ColumnAfter(D, s.table, c, f) = ColumnAfter(E, s.table, c, f)
      BY <1>4 DEF ColumnAfter, TypeAfter, NullAfter, RefAfter
    <3> QED BY <3>2, <3>3, <3>4 DEF TableAfter
  <2>3. b.tables = a.tables /\ s.table \in DOMAIN a.tables
    BY <1>7, <1>8, <2>1, <2>2, AfterIsDb DEF After
  <2>4. With(a.tables, s.table, s.columns) = a.tables
    <3>1. a.tables = [t \in DOMAIN a.tables |-> a.tables[t]]
      BY AfterIsDb DEF IsDb
    <3> QED BY <2>3, <3>1 DEF With
  <2>5. b.tables = With(a.tables, s.table, s.columns)
    BY <2>3, <2>4
  <2> QED BY <2>5
<1>10. ASSUME s.table \notin DOMAIN d.tables
       PROVE  b.tables = With(a.tables, s.table, s.columns)
  <2>1. s.table \notin TablesAfter(d, E)
    BY <1>6, <1>10 DEF TablesAfter, On
  <2>2. IsTable(s.columns)
    BY DEF Next1, StatementOK, SoundTable
  <2>3. TableAfter(d, D, s.table) = s.columns
    <3> DEFINE T == s.columns
    <3>1. Base(d, D, s.table) = T
      BY <1>6, <1>10, TheOnly DEF Base
    <3> HIDE DEF T
    <3>2. ColumnsAfter(d, D, s.table) = DOMAIN T
      BY <1>4, <3>1 DEF ColumnsAfter
    <3>3. \A c \in DOMAIN T : ColumnAfter(D, s.table, c, Found1st(d, D, s.table, c)) = T[c]
      <4> SUFFICES ASSUME NEW c \in DOMAIN T
                   PROVE  ColumnAfter(D, s.table, c, Found1st(d, D, s.table, c)) = T[c]
        OBVIOUS
      <4>1. Found1st(d, D, s.table, c) = T[c] /\ IsColumn(T[c])
        BY <3>1, <2>2 DEF Found1st, IsTable, T
      <4> QED BY <4>1, <1>4, ColumnStays
    <3>4. T = [c \in DOMAIN T |-> T[c]]
      BY <2>2 DEF IsTable, T
    <3> QED BY <3>2, <3>3, <3>4 DEF TableAfter, T
  <2>4. b.tables = With(a.tables, s.table, s.columns)
    <3>1. b.tables = [u \in TablesAfter(d, D) |-> TableAfter(d, D, u)]
      BY AfterIsDb
    <3>2. /\ DOMAIN a.tables = TablesAfter(d, E)
          /\ \A u \in TablesAfter(d, E) : a.tables[u] = TableAfter(d, E, u)
      BY AfterIsDb
    <3> HIDE DEF a, b
    <3> QED BY <3>1, <3>2, <1>7, <1>8, <2>1, <2>3 DEF With
  <2> QED BY <2>4
<1>11. b.tables = With(a.tables, s.table, s.columns)
  BY <1>9, <1>10
<1>12. TypesAfter(d, D) = a.types
  BY <1>2, AfterIsDb
<1> HIDE DEF a
<1>13. b = [tables |-> With(a.tables, s.table, s.columns), types |-> a.types]
  BY <1>11, <1>12, AfterIs
<1>14. b = Effect(a, s)
  BY <1>1, <1>13
<1> QED BY <1>14 DEF D, a

LEMMA TableInAfter ==
    ASSUME NEW d, NEW E, NEW t, t \in TablesAfter(d, E)
    PROVE  t \in DOMAIN After(d, E).tables /\ After(d, E).tables[t] = TableAfter(d, E, t)
BY AfterIsDb

LEMMA HasAfter ==
    ASSUME NEW d, NEW E, NEW t, NEW c
    PROVE  Has(After(d, E), t, c) <=> t \in TablesAfter(d, E) /\ c \in ColumnsAfter(d, E, t)
<1>1. DOMAIN After(d, E).tables = TablesAfter(d, E)
  BY AfterIsDb
<1>2. t \in TablesAfter(d, E) => DOMAIN After(d, E).tables[t] = ColumnsAfter(d, E, t)
  BY TableInAfter, TableIs
<1> QED BY <1>1, <1>2 DEF Has

LEMMA RefusedAfter ==
    ASSUME NEW d, NEW E, NEW s, NEW t, t = s.table, NEW c, c = s.column
    PROVE  /\ s.kind = "addColumn" =>
                 (Refused(After(d, E), s) <=>
                     t \notin TablesAfter(d, E) \/ c \in ColumnsAfter(d, E, t))
           /\ s.kind = "dropColumn" =>
                 (Refused(After(d, E), s) <=>
                     t \notin TablesAfter(d, E) \/ Referring(After(d, E), t, c) # {})
           /\ s.kind = "setType" =>
                 (Refused(After(d, E), s) <=>
                     \/ t \notin TablesAfter(d, E) \/ c \notin ColumnsAfter(d, E, t) \/ s.serial
                     \/ /\ ColumnAfter(E, t, c, Found1st(d, E, t, c)).type = "String"
                        /\ s.type # "String"
                     \/ BadType(After(d, E), s))
           /\ s.kind = "setNull" =>
                 (Refused(After(d, E), s) <=>
                     t \notin TablesAfter(d, E) \/ c \notin ColumnsAfter(d, E, t))
<1> DEFINE a == After(d, E)
<1>1. Has(a, t, c) <=> t \in TablesAfter(d, E) /\ c \in ColumnsAfter(d, E, t)
  BY HasAfter
<1>2. DOMAIN a.tables = TablesAfter(d, E)
  BY AfterIsDb
<1>3. t \in TablesAfter(d, E) /\ c \in ColumnsAfter(d, E, t) =>
         a.tables[t][c] = ColumnAfter(E, t, c, Found1st(d, E, t, c))
  BY TableInAfter, TableIs
<1> HIDE DEF a
<1>4. CASE s.kind = "addColumn"
  BY <1>1, <1>2, <1>4, Accepted DEF a
<1>5. CASE s.kind = "dropColumn"
  BY <1>1, <1>2, <1>5, Accepted DEF a
<1>6. CASE s.kind = "setType"
  <2>1. Refused(a, s) <=> ~ Has(a, t, c) \/ s.serial \/ NoCast(a, s) \/ BadType(a, s)
    BY <1>6, Accepted
  <2> QED BY <1>1, <1>3, <1>6, <2>1 DEF NoCast, a
<1>7. CASE s.kind = "setNull"
  BY <1>1, <1>2, <1>7, Accepted DEF a
<1> QED BY <1>4, <1>5, <1>6, <1>7

\* A statement about a column changes its table only.
LEMMA AfterColumnStatement ==
    ASSUME NEW d, NEW E, NEW s, s.table \in TablesAfter(d, E),
           s.kind \in {"addColumn", "dropColumn", "setType", "setNull"}
    PROVE  After(d, E \cup {s}) =
              [tables |-> Replaced(After(d, E).tables, s.table, TableAfter(d, E \cup {s}, s.table)),
               types |-> After(d, E).types]
<1> DEFINE D == E \cup {s}
           a == After(d, E)
           b == After(d, D)
<1>1. TablesAfter(d, D) = TablesAfter(d, E) /\ TypesAfter(d, D) = TypesAfter(d, E)
  BY SameTables, SameTypes
<1>2. \A u : u # s.table => TableAfter(d, D, u) = TableAfter(d, E, u)
  BY OtherTables
<1> HIDE DEF D
<1>3. b.tables = Replaced(a.tables, s.table, TableAfter(d, D, s.table))
  <2>1. b.tables = [u \in TablesAfter(d, D) |-> TableAfter(d, D, u)]
    BY AfterIsDb
  <2>2. /\ DOMAIN a.tables = TablesAfter(d, E)
        /\ \A u \in TablesAfter(d, E) : a.tables[u] = TableAfter(d, E, u)
    BY AfterIsDb
  <2> HIDE DEF a, b
  <2> QED BY <2>1, <2>2, <1>1, <1>2 DEF Replaced
<1>4. TypesAfter(d, D) = a.types
  BY <1>1, AfterIsDb
<1> HIDE DEF a
<1>5. b = [tables |-> Replaced(a.tables, s.table, TableAfter(d, D, s.table)), types |-> a.types]
  BY <1>3, <1>4, AfterIs
<1> QED BY <1>5 DEF a, D

\* Before and after a statement about a column.
LEMMA SameBase ==
    ASSUME NEW d, NEW E, NEW s, NEW t,
           s.kind \in {"addColumn", "dropColumn", "setType", "setNull"}
    PROVE  Base(d, E \cup {s}, t) = Base(d, E, t)
<1>1. On(E \cup {s}, "createTable", t) = On(E, "createTable", t)
  BY OfOtherKind
<1> QED BY <1>1 DEF Base

LEMMA SameRefs ==
    ASSUME NEW E, NEW s, NEW r, s.kind # "dropTable"
    PROVE  RefAfter(E \cup {s}, r) = RefAfter(E, r)
<1>1. On(E \cup {s}, "dropTable", r.table) = On(E, "dropTable", r.table)
  BY OfOtherKind
<1> QED BY <1>1 DEF RefAfter

LEMMA AfterAddColumn ==
    ASSUME NEW d, NEW E, NEW s, Next1(d, E, s), s.kind = "addColumn",
           ~ Refused(After(d, E), s)
    PROVE  After(d, E \cup {s}) = Effect(After(d, E), s)
<1> DEFINE D == E \cup {s}
           t == s.table
           k == s.column
           T == TableAfter(d, E, t)
           U == TableAfter(d, D, t)
<1>1. t \in TablesAfter(d, E) /\ k \notin ColumnsAfter(d, E, t)
  BY RefusedAfter
<1>2. Effect(After(d, E), s) =
         [tables |-> Replaced(After(d, E).tables, t, With(T, k, s.as)), types |-> After(d, E).types]
  BY <1>1, AfterIsDb, TableInAfter, ColumnEffect
<1>3. After(d, D) = [tables |-> Replaced(After(d, E).tables, t, U), types |-> After(d, E).types]
  BY <1>1, AfterColumnStatement
<1>4. \A x \in D : x.table = t => x.kind \notin {"dropColumn", "setType", "setNull"}
  BY Preceding DEF Next1
<1>5. \A c : /\ OnColumn(D, "dropColumn", t, c) = {} /\ OnColumn(E, "dropColumn", t, c) = {}
             /\ OnColumn(D, "setType", t, c) = {} /\ OnColumn(E, "setType", t, c) = {}
             /\ OnColumn(D, "setNull", t, c) = {} /\ OnColumn(E, "setNull", t, c) = {}
  BY <1>4 DEF OnColumn
<1>6. On(D, "addColumn", t) = On(E, "addColumn", t) \cup {s}
  BY OneMore
<1>7. OnColumn(D, "addColumn", t, k) = {s}
  <2>1. OnColumn(E, "addColumn", t, k) = {}
    BY OnlyOne DEF Next1
  <2>2. OnColumn(D, s.kind, t, k) = OnColumn(E, s.kind, t, k) \cup {s}
    BY OneMore
  <2> QED BY <2>1, <2>2
<1>8. \A c : c # k => OnColumn(D, "addColumn", t, c) = OnColumn(E, "addColumn", t, c)
  BY OnOtherColumn
<1>9. Base(d, D, t) = Base(d, E, t)
  BY SameBase
<1>10. IsColumn(s.as) /\ s.as.ref = None
  BY DEF Next1, StatementOK, Sound
<1>11. \A r : RefAfter(D, r) = RefAfter(E, r)
  BY SameRefs
<1> HIDE DEF D
<1>12. ColumnsAfter(d, D, t) = ColumnsAfter(d, E, t) \cup {k}
  BY <1>5, <1>6, <1>9 DEF ColumnsAfter
<1>13. k \notin DOMAIN Base(d, E, t)
  BY <1>1, <1>5 DEF ColumnsAfter
<1>14. U[k] = s.as
  <2>1. Found1st(d, D, t, k) = s.as
    BY <1>7, <1>9, <1>13, TheOnly DEF Found1st
  <2>2. ColumnAfter(D, t, k, s.as) = s.as
    BY <1>5, <1>10, ColumnStays
  <2> QED BY <2>1, <2>2, <1>12, TableIs
<1>15. ASSUME NEW c \in ColumnsAfter(d, E, t)
       PROVE  U[c] = T[c]
  <2>1. Found1st(d, D, t, c) = Found1st(d, E, t, c)
    BY <1>1, <1>8, <1>9 DEF Found1st
  <2>2. \A f : ColumnAfter(D, t, c, f) = ColumnAfter(E, t, c, f)
    BY <1>5, <1>11 DEF ColumnAfter, TypeAfter, NullAfter
  <2> QED BY <2>1, <2>2, <1>12, TableIs
<1>16. U = With(T, k, s.as)
  <2>1. DOMAIN T = ColumnsAfter(d, E, t) /\ DOMAIN U = ColumnsAfter(d, E, t) \cup {k}
    BY <1>12, TableIs
  <2>2. U = [c \in DOMAIN U |-> U[c]]
    BY DEF TableAfter
  <2> HIDE DEF T, U, k
  <2> QED BY <2>1, <2>2, <1>1, <1>14, <1>15 DEF With
<1> QED BY <1>2, <1>3, <1>16 DEF D

LEMMA AfterDropColumn ==
    ASSUME NEW d, NEW E, NEW s, Next1(d, E, s), s.kind = "dropColumn",
           ~ Refused(After(d, E), s)
    PROVE  After(d, E \cup {s}) = Effect(After(d, E), s)
<1> DEFINE D == E \cup {s}
           t == s.table
           k == s.column
           T == TableAfter(d, E, t)
           U == TableAfter(d, D, t)
<1>1. t \in TablesAfter(d, E)
  BY RefusedAfter
<1>2. Effect(After(d, E), s) =
         [tables |-> Replaced(After(d, E).tables, t, [c \in DOMAIN T \ {k} |-> T[c]]),
          types |-> After(d, E).types]
  <2> DEFINE a == After(d, E)
  <2>1. IsDb(a) /\ t \in DOMAIN a.tables /\ a.tables[t] = T
    BY <1>1, AfterIsDb, TableInAfter
  <2> HIDE DEF a, T
  <2>2. Effect(a, s) = [tables |-> Replaced(a.tables, t, [c \in DOMAIN a.tables[t] \ {k} |-> a.tables[t][c]]),
                        types |-> a.types]
    BY <2>1, ColumnEffect
  <2>3. Effect(a, s) = [tables |-> Replaced(a.tables, t, [c \in DOMAIN T \ {k} |-> T[c]]),
                        types |-> a.types]
    BY <2>1, <2>2
  <2> QED BY <2>3 DEF a
<1>3. After(d, D) = [tables |-> Replaced(After(d, E).tables, t, U), types |-> After(d, E).types]
  BY <1>1, AfterColumnStatement
<1>4. /\ On(D, "addColumn", t) = On(E, "addColumn", t)
      /\ \A c : /\ OnColumn(D, "addColumn", t, c) = OnColumn(E, "addColumn", t, c)
                /\ OnColumn(D, "setType", t, c) = OnColumn(E, "setType", t, c)
                /\ OnColumn(D, "setNull", t, c) = OnColumn(E, "setNull", t, c)
  BY OfOtherKind
<1>5. \A c : c # k => OnColumn(D, "dropColumn", t, c) = OnColumn(E, "dropColumn", t, c)
  BY OnOtherColumn
<1>6. OnColumn(D, "dropColumn", t, k) # {}
  <2>1. s \in OnColumn(D, "dropColumn", t, k)
    BY DEF OnColumn
  <2> QED BY <2>1
<1>7. Base(d, D, t) = Base(d, E, t)
  BY SameBase
<1>8. \A r : RefAfter(D, r) = RefAfter(E, r)
  BY SameRefs
<1> HIDE DEF D
<1>9. ColumnsAfter(d, D, t) = ColumnsAfter(d, E, t) \ {k}
  BY <1>4, <1>5, <1>6, <1>7 DEF ColumnsAfter
<1>10. ASSUME NEW c \in ColumnsAfter(d, E, t) \ {k}
       PROVE  U[c] = T[c]
  <2>1. Found1st(d, D, t, c) = Found1st(d, E, t, c)
    BY <1>4, <1>7 DEF Found1st
  <2>2. \A f : ColumnAfter(D, t, c, f) = ColumnAfter(E, t, c, f)
    BY <1>4, <1>8 DEF ColumnAfter, TypeAfter, NullAfter
  <2> QED BY <2>1, <2>2, <1>9, TableIs
<1>11. U = [c \in DOMAIN T \ {k} |-> T[c]]
  <2>1. DOMAIN T = ColumnsAfter(d, E, t) /\ DOMAIN U = ColumnsAfter(d, E, t) \ {k}
    BY <1>9, TableIs
  <2>2. U = [c \in DOMAIN U |-> U[c]]
    BY DEF TableAfter
  <2> HIDE DEF T, U, k
  <2> QED BY <2>1, <2>2, <1>10
<1> QED BY <1>2, <1>3, <1>11 DEF D

LEMMA AfterAlter ==
    ASSUME NEW d, NEW E, NEW s, Next1(d, E, s), s.kind \in {"setType", "setNull"},
           ~ Refused(After(d, E), s)
    PROVE  After(d, E \cup {s}) = Effect(After(d, E), s)
<1> DEFINE D == E \cup {s}
           t == s.table
           k == s.column
           T == TableAfter(d, E, t)
           U == TableAfter(d, D, t)
           v == IF s.kind = "setType" THEN Typed(T[k], s.type) ELSE Nulled(T[k], s.notNull)
<1>1. t \in TablesAfter(d, E) /\ k \in ColumnsAfter(d, E, t)
  BY RefusedAfter
<1>2. Effect(After(d, E), s) =
         [tables |-> Replaced(After(d, E).tables, t, Replaced(T, k, v)), types |-> After(d, E).types]
  <2>1. After(d, E).tables[t] = T /\ t \in DOMAIN After(d, E).tables /\ k \in DOMAIN T
    BY <1>1, TableInAfter, TableIs
  <2>2. IsDb(After(d, E))
    BY AfterIsDb
  <2>3. CASE s.kind = "setType"
    BY <2>1, <2>2, <2>3, AlterEffect
  <2>4. CASE s.kind = "setNull"
    BY <2>1, <2>2, <2>4, AlterEffect
  <2> QED BY <2>3, <2>4
<1>3. After(d, D) = [tables |-> Replaced(After(d, E).tables, t, U), types |-> After(d, E).types]
  BY <1>1, AfterColumnStatement
<1>4. /\ On(D, "addColumn", t) = On(E, "addColumn", t)
      /\ \A c : /\ OnColumn(D, "addColumn", t, c) = OnColumn(E, "addColumn", t, c)
                /\ OnColumn(D, "dropColumn", t, c) = OnColumn(E, "dropColumn", t, c)
  BY OfOtherKind
<1>5. \A c : c # k => /\ OnColumn(D, "setType", t, c) = OnColumn(E, "setType", t, c)
                      /\ OnColumn(D, "setNull", t, c) = OnColumn(E, "setNull", t, c)
  BY OnOtherColumn
<1>6. Base(d, D, t) = Base(d, E, t)
  BY SameBase
<1>7. \A r : RefAfter(D, r) = RefAfter(E, r)
  BY SameRefs
<1>8. OnColumn(E, s.kind, t, k) = {} /\ OnColumn(D, s.kind, t, k) = {s}
  <2>1. OnColumn(E, s.kind, t, k) = {}
    BY OnlyOne DEF Next1
  <2>2. OnColumn(D, s.kind, t, k) = OnColumn(E, s.kind, t, k) \cup {s}
    BY OneMore
  <2> QED BY <2>1, <2>2
<1>9. \A r \in {"setType", "setNull"} : r # s.kind => OnColumn(D, r, t, k) = OnColumn(E, r, t, k)
  BY OfOtherKind
<1> HIDE DEF D
<1>10. ColumnsAfter(d, D, t) = ColumnsAfter(d, E, t)
  BY <1>4, <1>6 DEF ColumnsAfter
<1>11. \A c : Found1st(d, D, t, c) = Found1st(d, E, t, c)
  BY <1>4, <1>6 DEF Found1st
<1>12. ASSUME NEW c \in ColumnsAfter(d, E, t), c # k
       PROVE  U[c] = T[c]
  <2>1. \A f : ColumnAfter(D, t, c, f) = ColumnAfter(E, t, c, f)
    BY <1>5, <1>7, <1>12 DEF ColumnAfter, TypeAfter, NullAfter
  <2> QED BY <2>1, <1>10, <1>11, TableIs
<1>13. U[k] = v
  <2> DEFINE f == Found1st(d, E, t, k)
  <2>1. T[k] = ColumnAfter(E, t, k, f) /\ U[k] = ColumnAfter(D, t, k, f)
    BY <1>1, <1>10, <1>11, TableIs
  <2> HIDE DEF f, T, U
  <2>2. CASE s.kind = "setType"
    <3>1. TypeAfter(D, t, k, f) = s.type /\ NullAfter(D, t, k, f) = NullAfter(E, t, k, f)
      BY <1>8, <1>9, <2>2, TheOnly DEF TypeAfter, NullAfter
    <3> QED BY <2>1, <2>2, <3>1, <1>7 DEF ColumnAfter, Typed
  <2>3. CASE s.kind = "setNull"
    <3>1. NullAfter(D, t, k, f) = s.notNull /\ TypeAfter(D, t, k, f) = TypeAfter(E, t, k, f)
      BY <1>8, <1>9, <2>3, TheOnly DEF TypeAfter, NullAfter
    <3> QED BY <2>1, <2>3, <3>1, <1>7 DEF ColumnAfter, Nulled
  <2> QED BY <2>2, <2>3
<1>14. U = Replaced(T, k, v)
  <2>1. DOMAIN T = ColumnsAfter(d, E, t) /\ DOMAIN U = ColumnsAfter(d, E, t)
    BY <1>10, TableIs
  <2>2. U = [c \in DOMAIN U |-> U[c]]
    BY DEF TableAfter
  <2> HIDE DEF T, U, k, v
  <2> QED BY <2>1, <2>2, <1>12, <1>13 DEF Replaced
<1> QED BY <1>2, <1>3, <1>14 DEF D

\* Executing one more statement.
LEMMA AfterStep ==
    ASSUME NEW d, NEW E, NEW s, Next1(d, E, s), ~ Refused(After(d, E), s)
    PROVE  After(d, E \cup {s}) = Effect(After(d, E), s)
BY AfterType, AfterDropTable, AfterCreateTable, AfterAddColumn, AfterDropColumn, AfterAlter, Accepted
   DEF Next1, StatementOK

\* What refuses a statement of U, whatever of U was executed before it.
RefusedIn(d, U, s) ==
    LET t == s.table
        c == s.column
    IN CASE s.kind = "createTable" ->
              /\ t \notin DOMAIN d.tables
              /\ \E x \in DOMAIN s.columns : BadReference(d, s, s.columns[x])
         [] s.kind = "addColumn"  -> t \notin TablesAfter(d, U) \/ c \in DOMAIN Base(d, U, t)
         [] s.kind = "dropColumn" -> t \notin TablesAfter(d, U)
         [] s.kind = "setType"    ->
              \/ t \notin TablesAfter(d, U) \/ c \notin ColumnsAfter(d, U, t) \/ s.serial
              \/ Found1st(d, U, t, c).type = "String" /\ s.type # "String"
         [] s.kind = "setNull"    -> t \notin TablesAfter(d, U) \/ c \notin ColumnsAfter(d, U, t)
         [] s.kind = "garbled"    -> TRUE
         [] OTHER -> FALSE

\* What foreign keys refuse.
KeyRefuses(a, s) ==
    \/ s.kind = "dropColumn" /\ Referring(a, s.table, s.column) # {}
    \/ s.kind = "setType" /\ BadType(a, s)

\* E was executed, s is next, and the others of U come later.
Amid(E, U, s) ==
    /\ E \cup {s} \subseteq U /\ s \notin E
    /\ \A x \in E : MayPrecede(x, s)
    /\ \A x \in U : x \in E \/ x = s \/ MayPrecede(s, x)

LEMMA TablesSettled ==
    ASSUME NEW d, NEW U, NEW E, NEW s, Amid(E, U, s),
           s.kind \in {"addColumn", "dropColumn", "setType", "setNull"}
    PROVE  /\ TablesAfter(d, E) = TablesAfter(d, U)
           /\ \A t : Base(d, E, t) = Base(d, U, t)
<1>1. \A x \in U : x \notin E => x.kind \notin {"createTable", "dropTable"}
  BY Preceding DEF Amid
<1>2. E \subseteq U
  BY DEF Amid
<1>3. \A t : On(E, "createTable", t) = On(U, "createTable", t)
  BY <1>1, <1>2 DEF On
<1>4. \A t : On(E, "dropTable", t) = On(U, "dropTable", t)
  BY <1>1, <1>2 DEF On
<1>5. {r \in E : r.kind = "createTable"} = {r \in U : r.kind = "createTable"}
  BY <1>1, <1>2
<1> QED BY <1>3, <1>4, <1>5 DEF TablesAfter, Base

LEMMA ColumnsSettled ==
    ASSUME NEW d, NEW U, NEW E, NEW s, NEW t, NEW x, t = s.table,
           Amid(E, U, s), s.kind \in {"setType", "setNull"}
    PROVE  /\ ColumnsAfter(d, E, t) = ColumnsAfter(d, U, t)
           /\ Found1st(d, E, t, x) = Found1st(d, U, t, x)
<1>1. \A r \in U : r \notin E /\ r.table = t => r.kind \notin {"addColumn", "dropColumn"}
  BY Preceding DEF Amid
<1>2. E \subseteq U /\ \A u : Base(d, E, u) = Base(d, U, u)
  BY TablesSettled DEF Amid
<1>3. On(E, "addColumn", t) = On(U, "addColumn", t)
  BY <1>1, <1>2 DEF On
<1>4. \A c : OnColumn(E, "addColumn", t, c) = OnColumn(U, "addColumn", t, c)
  BY <1>1, <1>2 DEF OnColumn
<1>5. \A c : OnColumn(E, "dropColumn", t, c) = OnColumn(U, "dropColumn", t, c)
  BY <1>1, <1>2 DEF OnColumn
<1>6. ColumnsAfter(d, E, t) = ColumnsAfter(d, U, t)
  BY <1>2, <1>3, <1>5 DEF ColumnsAfter
<1>7. \A c : Found1st(d, E, t, c) = Found1st(d, U, t, c)
  BY <1>2, <1>4 DEF Found1st
<1> QED BY <1>6, <1>7

LEMMA RefusalSettled ==
    ASSUME NEW d, NEW U, NEW E, NEW s, Amid(E, U, s), Distinct(U), StatementOK(s),
           s.kind # "createTable"
    PROVE  Refused(After(d, E), s) <=> RefusedIn(d, U, s) \/ KeyRefuses(After(d, E), s)
<1> DEFINE t == s.table
           c == s.column
<1>1. s \notin E /\ Distinct(E \cup {s})
  BY DEF Amid, Distinct
<1>2. CASE s.kind = "addColumn"
  <2>1. TablesAfter(d, E) = TablesAfter(d, U) /\ Base(d, E, t) = Base(d, U, t)
    BY <1>2, TablesSettled
  <2>2. OnColumn(E, "dropColumn", t, c) = {}
    <3>1. \A x \in E : x.table = t => x.kind # "dropColumn"
      BY <1>2, Preceding DEF Amid
    <3> QED BY <3>1 DEF OnColumn
  <2>3. OnColumn(E, "addColumn", t, c) = {}
    BY <1>1, <1>2, OnlyOne
  <2>4. c \notin {x.column : x \in On(E, "addColumn", t)}
    BY <2>3 DEF On, OnColumn
  <2>5. c \in ColumnsAfter(d, E, t) <=> c \in DOMAIN Base(d, U, t)
    BY <2>1, <2>2, <2>4 DEF ColumnsAfter
  <2>6. Refused(After(d, E), s) <=> t \notin TablesAfter(d, E) \/ c \in ColumnsAfter(d, E, t)
    BY <1>2, RefusedAfter
  <2> QED BY <1>2, <2>1, <2>5, <2>6 DEF RefusedIn, KeyRefuses
<1>3. CASE s.kind = "dropColumn"
  <2>1. TablesAfter(d, E) = TablesAfter(d, U)
    BY <1>3, TablesSettled
  <2>2. Refused(After(d, E), s) <=>
            t \notin TablesAfter(d, E) \/ Referring(After(d, E), t, c) # {}
    BY <1>3, RefusedAfter
  <2> QED BY <1>3, <2>1, <2>2 DEF RefusedIn, KeyRefuses
<1>4. CASE s.kind = "setType"
  <2>1. TablesAfter(d, E) = TablesAfter(d, U)
    BY <1>4, TablesSettled
  <2>2. /\ ColumnsAfter(d, E, t) = ColumnsAfter(d, U, t)
        /\ Found1st(d, E, t, c) = Found1st(d, U, t, c)
    <3>1. s.kind \in {"setType", "setNull"} /\ t = s.table
      BY <1>4
    <3> HIDE DEF t, c
    <3> QED BY <3>1, ColumnsSettled
  <2>3. OnColumn(E, "setType", t, c) = {}
    BY <1>1, <1>4, OnlyOne
  <2>4. ColumnAfter(E, t, c, Found1st(d, E, t, c)).type = Found1st(d, U, t, c).type
    BY <2>2, <2>3 DEF ColumnAfter, TypeAfter
  <2>5. Refused(After(d, E), s) <=>
            \/ t \notin TablesAfter(d, E) \/ c \notin ColumnsAfter(d, E, t) \/ s.serial
            \/ /\ ColumnAfter(E, t, c, Found1st(d, E, t, c)).type = "String"
               /\ s.type # "String"
            \/ BadType(After(d, E), s)
    BY <1>4, RefusedAfter
  <2>6. RefusedIn(d, U, s) <=>
            \/ t \notin TablesAfter(d, U) \/ c \notin ColumnsAfter(d, U, t) \/ s.serial
            \/ Found1st(d, U, t, c).type = "String" /\ s.type # "String"
    BY <1>4 DEF RefusedIn
  <2>7. KeyRefuses(After(d, E), s) <=> BadType(After(d, E), s)
    BY <1>4 DEF KeyRefuses
  <2> QED BY <2>1, <2>2, <2>4, <2>5, <2>6, <2>7
<1>5. CASE s.kind = "setNull"
  <2>1. TablesAfter(d, E) = TablesAfter(d, U)
    BY <1>5, TablesSettled
  <2>2. ColumnsAfter(d, E, t) = ColumnsAfter(d, U, t)
    <3>1. s.kind \in {"setType", "setNull"} /\ t = s.table
      BY <1>5
    <3> HIDE DEF t
    <3> QED BY <3>1, ColumnsSettled
  <2>3. Refused(After(d, E), s) <=> t \notin TablesAfter(d, E) \/ c \notin ColumnsAfter(d, E, t)
    BY <1>5, RefusedAfter
  <2> QED BY <1>5, <2>1, <2>2, <2>3 DEF RefusedIn, KeyRefuses
<1>6. CASE s.kind \in {"dropTable", "createType", "dropType"}
  <2>1. ~ RefusedIn(d, U, s) /\ ~ KeyRefuses(After(d, E), s)
    BY <1>6 DEF RefusedIn, KeyRefuses
  <2> QED BY <1>6, <2>1, Accepted
<1>7. CASE s.kind = "garbled"
  <2>1. RefusedIn(d, U, s)
    BY <1>7 DEF RefusedIn
  <2> QED BY <1>7, <2>1, Accepted
<1> QED BY <1>2, <1>3, <1>4, <1>5, <1>6, <1>7 DEF StatementOK

\* Statements that drop a column or give it another type, and foreign keys that have
\* no such statements for both of their columns.
Reshapes(U, t, c) == OnColumn(U, "dropColumn", t, c) # {} \/ OnColumn(U, "setType", t, c) # {}
KeyAfter(d, U, u, x) == RefAfter(U, Base(d, U, u)[x].ref)
Free(d, U) ==
    \A u \in TablesAfter(d, U) : \A x \in DOMAIN Base(d, U, u) :
        LET r == KeyAfter(d, U, u, x)
        IN r # None /\ r # At(u, x) /\ Reshapes(U, u, x) => ~ Reshapes(U, r.table, r.column)

\* A foreign key that another column has, to the column of s.
Keyed(d, U, u, x, s) == /\ KeyAfter(d, U, u, x) = At(s.table, s.column)
                        /\ At(u, x) # At(s.table, s.column)

\* What foreign keys refuse, whatever of U was executed before.
KeyRefusedIn(d, U, s) ==
    LET r == RefAfter(U, Found1st(d, U, s.table, s.column).ref)
        by(u, x) == u \in TablesAfter(d, U) /\ x \in DOMAIN Base(d, U, u) /\ Keyed(d, U, u, x, s)
    IN \/ s.kind = "dropColumn" /\ \E u, x : by(u, x)
       \/ /\ s.kind = "setType"
          /\ \/ /\ r \notin {None, At(s.table, s.column)}
                /\ ~ Comparable(s.type, IF r.column = Key THEN "Int"
                                        ELSE Found1st(d, U, r.table, r.column).type)
             \/ \E u, x : by(u, x) /\ ~ Comparable(Base(d, U, u)[x].type, s.type)

\* The foreign keys of columns that are there before columns change.
LEMMA KeysThere ==
    ASSUME NEW d, NEW U, NEW E, NEW s, Amid(E, U, s), s.kind \in {"dropColumn", "setType"},
           \A y \in U : StatementOK(y),
           NEW u \in TablesAfter(d, E), NEW x \in ColumnsAfter(d, E, u),
           NEW r, r = After(d, E).tables[u][x].ref, r # None
    PROVE  /\ u \in TablesAfter(d, U) /\ x \in DOMAIN Base(d, U, u)
           /\ r = KeyAfter(d, U, u, x)
<1>1. TablesAfter(d, E) = TablesAfter(d, U) /\ Base(d, E, u) = Base(d, U, u)
  BY TablesSettled
<1>2. After(d, E).tables[u][x] = ColumnAfter(E, u, x, Found1st(d, E, u, x))
  BY TableInAfter, TableIs
<1>3. r = RefAfter(E, Found1st(d, E, u, x).ref)
  BY <1>2 DEF ColumnAfter
<1>4. x \in DOMAIN Base(d, E, u)
  <2> SUFFICES ASSUME x \notin DOMAIN Base(d, E, u) PROVE FALSE
    OBVIOUS
  <2>1. OnColumn(E, "addColumn", u, x) # {}
    BY DEF ColumnsAfter, On, OnColumn
  <2>2. PICK y \in OnColumn(E, "addColumn", u, x) : y = The(OnColumn(E, "addColumn", u, x))
    BY <2>1 DEF The
  <2>3. y \in U /\ y.kind = "addColumn"
    BY DEF Amid, OnColumn
  <2>4. y.as.ref = None
    BY <2>3 DEF StatementOK
  <2> QED BY <1>3, <2>2, <2>4 DEF Found1st, RefAfter
<1>5. \A q : RefAfter(E, q) = RefAfter(U, q)
  <2>1. \A t : On(E, "dropTable", t) = On(U, "dropTable", t)
    <3>1. \A y \in U : y \notin E => y.kind # "dropTable"
      BY Preceding DEF Amid
    <3> QED BY <3>1 DEF On, Amid
  <2> QED BY <2>1 DEF RefAfter
<1> QED BY <1>1, <1>3, <1>4, <1>5 DEF Found1st, KeyAfter

\* A foreign key of a column that stays is there.
LEMMA KeysStay ==
    ASSUME NEW d, NEW U, NEW E, NEW s, Amid(E, U, s), s.kind \in {"dropColumn", "setType"},
           NEW u \in TablesAfter(d, U), NEW x \in DOMAIN Base(d, U, u), ~ Reshapes(U, u, x)
    PROVE  /\ u \in TablesAfter(d, E) /\ x \in ColumnsAfter(d, E, u)
           /\ After(d, E).tables[u][x].ref = KeyAfter(d, U, u, x)
           /\ After(d, E).tables[u][x].type = Base(d, U, u)[x].type
<1>1. TablesAfter(d, E) = TablesAfter(d, U) /\ Base(d, E, u) = Base(d, U, u)
  BY TablesSettled
<1>2. OnColumn(E, "dropColumn", u, x) = {} /\ OnColumn(E, "setType", u, x) = {}
  BY DEF Reshapes, OnColumn, Amid
<1>3. x \in ColumnsAfter(d, E, u)
  BY <1>1, <1>2 DEF ColumnsAfter
<1>4. After(d, E).tables[u][x] = ColumnAfter(E, u, x, Base(d, U, u)[x])
  BY <1>1, <1>3, TableInAfter, TableIs DEF Found1st
<1>5. \A q : RefAfter(E, q) = RefAfter(U, q)
  <2>1. \A t : On(E, "dropTable", t) = On(U, "dropTable", t)
    <3>1. \A y \in U : y \notin E => y.kind # "dropTable"
      BY Preceding DEF Amid
    <3> QED BY <3>1 DEF On, Amid
  <2> QED BY <2>1 DEF RefAfter
<1> QED BY <1>1, <1>2, <1>3, <1>4, <1>5 DEF ColumnAfter, TypeAfter, KeyAfter

\* A column that no statement gives another type has the type it had first.
LEMMA TypeStays ==
    ASSUME NEW d, NEW U, NEW E, NEW s, Amid(E, U, s), Distinct(U),
           s.kind \in {"dropColumn", "setType"},
           NEW u \in TablesAfter(d, E), NEW x \in ColumnsAfter(d, E, u),
           OnColumn(U, "setType", u, x) = {}
    PROVE  After(d, E).tables[u][x].type = Found1st(d, U, u, x).type
<1>1. Base(d, E, u) = Base(d, U, u)
  BY TablesSettled
<1>2. Found1st(d, E, u, x) = Found1st(d, U, u, x)
  <2>1. CASE x \in DOMAIN Base(d, E, u)
    BY <1>1, <2>1 DEF Found1st
  <2>2. CASE x \notin DOMAIN Base(d, E, u)
    <3>1. PICK y \in On(E, "addColumn", u) : y.column = x
      BY <2>2 DEF ColumnsAfter
    <3>2. OnColumn(E, "addColumn", u, x) = {y} /\ OnColumn(U, "addColumn", u, x) = {y}
      <4>1. y \in OnColumn(E, "addColumn", u, x)
        BY <3>1 DEF On, OnColumn
      <4>2. E \subseteq U
        BY DEF Amid
      <4>3. \A z \in OnColumn(U, "addColumn", u, x) : z = y
        BY <4>1, <4>2 DEF OnColumn, Distinct
      <4> QED BY <4>1, <4>2, <4>3 DEF OnColumn
    <3> QED BY <1>1, <2>2, <3>2 DEF Found1st
  <2> QED BY <2>1, <2>2
<1>3. OnColumn(E, "setType", u, x) = {}
  BY DEF OnColumn, Amid
<1>4. After(d, E).tables[u][x] = ColumnAfter(E, u, x, Found1st(d, E, u, x))
  BY TableInAfter, TableIs
<1> QED BY <1>2, <1>3, <1>4 DEF ColumnAfter, TypeAfter

\* None is no database, and no column that a foreign key can refer to.
NoneApart == /\ \A e : IsDb(e) => e # None
             /\ \A t, c : At(t, c) # None

\* The columns whose foreign keys refer to the one of s.
LEMMA ReferringSettled ==
    ASSUME NoneApart,
           NEW d, NEW U, NEW E, NEW s, Amid(E, U, s), s.kind \in {"dropColumn", "setType"},
           \A y \in U : StatementOK(y), Free(d, U)
    PROVE  /\ \A a \in Referring(After(d, E), s.table, s.column) :
                 /\ a.table \in TablesAfter(d, U) /\ a.column \in DOMAIN Base(d, U, a.table)
                 /\ Keyed(d, U, a.table, a.column, s)
                 /\ After(d, E).tables[a.table][a.column].type = Base(d, U, a.table)[a.column].type
           /\ \A u \in TablesAfter(d, U) : \A x \in DOMAIN Base(d, U, u) :
                 Keyed(d, U, u, x, s) =>
                    /\ At(u, x) \in Referring(After(d, E), s.table, s.column)
                    /\ After(d, E).tables[u][x].type = Base(d, U, u)[x].type
<1> DEFINE e == After(d, E)
           t == s.table
           c == s.column
<1>1. s \in U /\ Reshapes(U, t, c)
  BY DEF Amid, Reshapes, OnColumn
<1>2. /\ DOMAIN e.tables = TablesAfter(d, E)
      /\ \A u \in TablesAfter(d, E) : DOMAIN e.tables[u] = ColumnsAfter(d, E, u)
  BY AfterIsDb, TableIs
<1>3. ASSUME NEW u \in TablesAfter(d, U), NEW x \in DOMAIN Base(d, U, u), Keyed(d, U, u, x, s)
      PROVE  ~ Reshapes(U, u, x)
  <2> DEFINE r == KeyAfter(d, U, u, x)
  <2>1. r = At(t, c) /\ r # At(u, x)
    BY <1>3 DEF Keyed
  <2>2. r # None /\ r.table = t /\ r.column = c
    BY <2>1, SameAt DEF NoneApart
  <2> QED BY <1>1, <2>1, <2>2 DEF Free
<1>4. ASSUME NEW a \in Referring(e, t, c)
      PROVE  /\ a.table \in TablesAfter(d, U) /\ a.column \in DOMAIN Base(d, U, a.table)
             /\ Keyed(d, U, a.table, a.column, s)
             /\ e.tables[a.table][a.column].type = Base(d, U, a.table)[a.column].type
  <2> DEFINE u == a.table
             x == a.column
  <2>1. /\ u \in TablesAfter(d, E) /\ x \in ColumnsAfter(d, E, u)
        /\ e.tables[u][x].ref = At(t, c) /\ At(u, x) # At(t, c)
    BY <1>2, InReferring
  <2>2. e.tables[u][x].ref # None
    BY <2>1 DEF NoneApart
  <2> HIDE DEF u, x
  <2>3. /\ u \in TablesAfter(d, U) /\ x \in DOMAIN Base(d, U, u)
        /\ At(t, c) = KeyAfter(d, U, u, x)
    BY <2>1, <2>2, KeysThere
  <2>4. Keyed(d, U, u, x, s)
    BY <2>1, <2>3 DEF Keyed
  <2>5. e.tables[u][x].type = Base(d, U, u)[x].type
    BY <1>3, <2>3, <2>4, KeysStay
  <2> QED BY <2>3, <2>4, <2>5 DEF u, x
<1>5. ASSUME NEW u \in TablesAfter(d, U), NEW x \in DOMAIN Base(d, U, u), Keyed(d, U, u, x, s)
      PROVE  At(u, x) \in Referring(e, t, c) /\ e.tables[u][x].type = Base(d, U, u)[x].type
  <2>1. /\ u \in TablesAfter(d, E) /\ x \in ColumnsAfter(d, E, u)
        /\ e.tables[u][x].ref = KeyAfter(d, U, u, x)
        /\ e.tables[u][x].type = Base(d, U, u)[x].type
    BY <1>3, <1>5, KeysStay
  <2>2. KeyAfter(d, U, u, x) = At(t, c) /\ At(u, x) # At(t, c)
    BY <1>5 DEF Keyed
  <2> HIDE DEF e, t, c
  <2> QED BY <1>2, <2>1, <2>2, InReferring
<1> QED BY <1>4, <1>5

\* Whether foreign keys refuse a statement is settled beforehand.
LEMMA KeysSettled ==
    ASSUME NoneApart,
           NEW d, NEW U, NEW E, NEW s, Amid(E, U, s), Distinct(U),
           \A y \in U : StatementOK(y), Free(d, U), DbOK(After(d, E)), ~ RefusedIn(d, U, s)
    PROVE  KeyRefuses(After(d, E), s) <=> KeyRefusedIn(d, U, s)
<1> DEFINE a == After(d, E)
           t == s.table
           c == s.column
           r == RefAfter(U, Found1st(d, U, t, c).ref)
           by(u, x) == u \in TablesAfter(d, U) /\ x \in DOMAIN Base(d, U, u) /\ Keyed(d, U, u, x, s)
<1>1. CASE s.kind = "dropColumn"
  <2>1. Referring(a, t, c) # {} <=> \E u, x : by(u, x)
    BY <1>1, ReferringSettled
  <2> HIDE DEF a, by
  <2> QED BY <1>1, <2>1 DEF KeyRefuses, KeyRefusedIn, a, by
<1>2. CASE s.kind = "setType"
  <2>1. /\ t \in TablesAfter(d, U) /\ c \in ColumnsAfter(d, U, t)
        /\ TablesAfter(d, E) = TablesAfter(d, U) /\ ColumnsAfter(d, E, t) = ColumnsAfter(d, U, t)
    <3>1. t \in TablesAfter(d, U) /\ c \in ColumnsAfter(d, U, t)
      BY <1>2 DEF RefusedIn
    <3>2. TablesAfter(d, E) = TablesAfter(d, U)
      BY <1>2, TablesSettled
    <3>3. ColumnsAfter(d, E, t) = ColumnsAfter(d, U, t)
      BY <1>2, ColumnsSettled
    <3> QED BY <3>1, <3>2, <3>3
  <2>2. a.tables[t][c].ref = r
    <3>1. a.tables[t][c] = ColumnAfter(E, t, c, Found1st(d, E, t, c))
      BY <2>1, TableInAfter, TableIs
    <3>2. Found1st(d, E, t, c) = Found1st(d, U, t, c)
      BY <1>2, ColumnsSettled
    <3>3. \A q : RefAfter(E, q) = RefAfter(U, q)
      <4>1. \A y \in U : y \notin E => y.kind # "dropTable"
        BY <1>2, Preceding DEF Amid
      <4>2. \A u : On(E, "dropTable", u) = On(U, "dropTable", u)
        BY <4>1 DEF On, Amid
      <4> QED BY <4>2 DEF RefAfter
    <3> QED BY <3>1, <3>2, <3>3 DEF ColumnAfter
  <2>3. ASSUME r \notin {None, At(t, c)}, r.column # Key
        PROVE  a.tables[r.table][r.column].type = Found1st(d, U, r.table, r.column).type
    <3>1. c \in DOMAIN Base(d, U, t) /\ r = KeyAfter(d, U, t, c)
      BY <1>2, <2>1, <2>2, <2>3, KeysThere
    <3>2. Reshapes(U, t, c)
      BY <1>2 DEF Amid, Reshapes, OnColumn
    <3>3. OnColumn(U, "setType", r.table, r.column) = {}
      BY <2>1, <2>3, <3>1, <3>2 DEF Free, Reshapes
    <3>4. r.table \in TablesAfter(d, E) /\ r.column \in ColumnsAfter(d, E, r.table)
      <4>1. DOMAIN a.tables = TablesAfter(d, E)
            /\ \A u \in TablesAfter(d, E) : DOMAIN a.tables[u] = ColumnsAfter(d, E, u)
        BY AfterIsDb, TableIs
      <4> HIDE DEF a, r
      <4>2. Points(a.tables, r)
        BY <2>1, <2>2, <4>1 DEF DbOK, Closed, a
      <4> QED BY <2>3, <4>1, <4>2 DEF Points
    <3> HIDE DEF r
    <3> QED BY <1>2, <3>3, <3>4, TypeStays
  <2>4. (\E b \in Referring(a, t, c) : ~ Comparable(a.tables[b.table][b.column].type, s.type))
           <=> \E u, x : by(u, x) /\ ~ Comparable(Base(d, U, u)[x].type, s.type)
    <3>1. ASSUME NEW b \in Referring(a, t, c),
                 ~ Comparable(a.tables[b.table][b.column].type, s.type)
          PROVE  \E u, x : by(u, x) /\ ~ Comparable(Base(d, U, u)[x].type, s.type)
      <4>1. /\ by(b.table, b.column)
            /\ a.tables[b.table][b.column].type = Base(d, U, b.table)[b.column].type
        BY <1>2, ReferringSettled
      <4> HIDE DEF by, a
      <4> QED BY <3>1, <4>1
    <3>2. ASSUME NEW u, NEW x, by(u, x), ~ Comparable(Base(d, U, u)[x].type, s.type)
          PROVE  \E b \in Referring(a, t, c) : ~ Comparable(a.tables[b.table][b.column].type, s.type)
      <4>1. At(u, x) \in Referring(a, t, c) /\ a.tables[u][x].type = Base(d, U, u)[x].type
        BY <1>2, <3>2, ReferringSettled
      <4>2. At(u, x).table = u /\ At(u, x).column = x
        BY SameAt
      <4> DEFINE b == At(u, x)
      <4>3. b \in Referring(a, t, c) /\ ~ Comparable(a.tables[b.table][b.column].type, s.type)
        BY <3>2, <4>1, <4>2
      <4> HIDE DEF by, a, b
      <4> QED BY <4>3
    <3> HIDE DEF by, a
    <3> QED BY <3>1, <3>2
  <2>5. KeyRefuses(a, s) <=>
           \/ /\ r \notin {None, At(t, c)}
              /\ ~ Comparable(s.type, IF r.column = Key THEN "Int"
                                      ELSE a.tables[r.table][r.column].type)
           \/ \E b \in Referring(a, t, c) : ~ Comparable(a.tables[b.table][b.column].type, s.type)
    <3> HIDE DEF a, r
    <3> QED BY <1>2, <2>2 DEF KeyRefuses, BadType
  <2>6. KeyRefusedIn(d, U, s) <=>
           \/ /\ r \notin {None, At(t, c)}
              /\ ~ Comparable(s.type, IF r.column = Key THEN "Int"
                                      ELSE Found1st(d, U, r.table, r.column).type)
           \/ \E u, x : by(u, x) /\ ~ Comparable(Base(d, U, u)[x].type, s.type)
    BY <1>2 DEF KeyRefusedIn
  <2> HIDE DEF a, r, by
  <2> QED BY <2>3, <2>4, <2>5, <2>6 DEF a
<1>3. CASE s.kind \notin {"dropColumn", "setType"}
  BY <1>3 DEF KeyRefuses, KeyRefusedIn
<1> QED BY <1>1, <1>2, <1>3

\* No new table refers to another that is not there yet.
Settled(d, U) ==
    \A x, y \in U :
       /\ x.kind = "createTable" /\ x.table \notin DOMAIN d.tables
       /\ y.kind = "createTable" /\ y.table \notin DOMAIN d.tables /\ x # y
       => \A c \in DOMAIN x.columns : \/ x.columns[c].ref = None
                                       \/ x.columns[c].ref.table # y.table

LEMMA CreationSettled ==
    ASSUME NEW d, IsDb(d), NEW U, NEW E, NEW s, Amid(E, U, s), Distinct(U), Settled(d, U),
           s.kind = "createTable"
    PROVE  Refused(After(d, E), s) <=> RefusedIn(d, U, s)
<1> DEFINE t == s.table
           a == After(d, E)
<1>1. s \notin E /\ Distinct(E \cup {s}) /\ E \subseteq U /\ s \in U
  BY DEF Amid, Distinct
<1>2. \A x \in E : x.kind = "createTable"
  BY Preceding DEF Amid
<1>3. \A u : On(E, "dropTable", u) = {}
  BY <1>2 DEF On
<1>4. {r \in E : r.kind = "createTable"} = E
  BY <1>2
<1>5. TablesAfter(d, E) = DOMAIN d.tables \cup {x.table : x \in E}
  BY <1>3, <1>4 DEF TablesAfter
<1>6. \A x \in E : x.table # t
  BY <1>1, <1>2 DEF Distinct
<1>7. /\ t \in DOMAIN a.tables <=> t \in DOMAIN d.tables
      /\ DOMAIN a.tables = DOMAIN d.tables \cup {x.table : x \in E}
      /\ \A u \in DOMAIN d.tables : a.tables[u] = d.tables[u]
  <2>1. DOMAIN a.tables = TablesAfter(d, E)
    BY AfterIsDb
  <2>2. \A u \in DOMAIN d.tables : a.tables[u] = d.tables[u]
    <3>1. \A u \in DOMAIN d.tables : a.tables[u] = TableAfter(d, E, u)
      BY <1>5, AfterIsDb
    <3>2. \A u \in DOMAIN d.tables : TableAfter(d, E, u) = d.tables[u]
      BY <1>2, Untouched
    <3> QED BY <3>1, <3>2
  <2> HIDE DEF a
  <2> QED BY <1>5, <1>6, <2>1, <2>2
<1> HIDE DEF a
<1>8. ASSUME t \notin DOMAIN d.tables, NEW c \in DOMAIN s.columns
      PROVE  BadReference(a, s, s.columns[c]) <=> BadReference(d, s, s.columns[c])
  <2> DEFINE r == s.columns[c].ref
  <2>1. CASE r = None
    BY <2>1 DEF BadReference
  <2>2. CASE r # None
    <3>1. r.table = t \/ (r.table \in DOMAIN a.tables <=> r.table \in DOMAIN d.tables)
      <4>1. \A x \in E : x.table \in DOMAIN d.tables \/ r.table # x.table
        BY <1>1, <1>2, <1>8, <2>2 DEF Settled
      <4> HIDE DEF r
      <4> QED BY <1>7, <4>1
    <3>2. r.table = t \/ r.table \notin DOMAIN d.tables \/ a.tables[r.table] = d.tables[r.table]
      BY <1>7
    <3> QED BY <2>2, <3>1, <3>2 DEF BadReference
  <2> QED BY <2>1, <2>2
<1>9. Refused(a, s) <=>
         t \notin DOMAIN a.tables /\ \E c \in DOMAIN s.columns : BadReference(a, s, s.columns[c])
  BY Accepted
<1>10. RefusedIn(d, U, s) <=>
         t \notin DOMAIN d.tables /\ \E c \in DOMAIN s.columns : BadReference(d, s, s.columns[c])
  BY DEF RefusedIn
<1> QED BY <1>7, <1>8, <1>9, <1>10 DEF a

\* The first i statements of a text, and the next.
FirstOf(sql, i) == {sql[j] : j \in 1 .. i}

LEMMA TextAmid ==
    ASSUME NEW U, NEW sql, IsText(sql, U), NEW n \in Nat, n = Len(sql),
           NEW i \in 0 .. n, i < n
    PROVE  /\ i + 1 \in 1 .. n
           /\ FirstOf(sql, i + 1) = FirstOf(sql, i) \cup {sql[i + 1]}
           /\ Amid(FirstOf(sql, i), U, sql[i + 1])
<1>1. sql \in Seq(U) /\ DOMAIN sql = 1 .. n /\ ToSet(sql) = U /\ InOrder(sql)
  BY DEF IsText
<1>2. i + 1 \in 1 .. n /\ 1 .. (i + 1) = (1 .. i) \cup {i + 1}
  OBVIOUS
<1>3. FirstOf(sql, i + 1) = FirstOf(sql, i) \cup {sql[i + 1]}
  BY <1>2 DEF FirstOf
<1>4. FirstOf(sql, i) \cup {sql[i + 1]} \subseteq U
  BY <1>1, <1>2 DEF FirstOf
<1>5. \A x \in FirstOf(sql, i) : MayPrecede(x, sql[i + 1])
  <2> SUFFICES ASSUME NEW j \in 1 .. i PROVE MayPrecede(sql[j], sql[i + 1])
    BY DEF FirstOf
  <2>1. j \in DOMAIN sql /\ i + 1 \in DOMAIN sql /\ j < i + 1
    BY <1>1, <1>2
  <2> QED BY <1>1, <2>1 DEF InOrder
<1>6. sql[i + 1] \notin FirstOf(sql, i)
  BY <1>5 DEF MayPrecede
<1>7. ASSUME NEW x \in U
      PROVE  x \in FirstOf(sql, i) \/ x = sql[i + 1] \/ MayPrecede(sql[i + 1], x)
  <2>1. PICK j \in 1 .. n : sql[j] = x
    BY <1>1 DEF ToSet
  <2>2. CASE j <= i
    <3>1. j \in 1 .. i
      BY <2>2
    <3> QED BY <2>1, <3>1 DEF FirstOf
  <2>3. CASE j = i + 1
    BY <2>1, <2>3
  <2>4. CASE j > i + 1
    <3>1. j \in DOMAIN sql /\ i + 1 \in DOMAIN sql /\ i + 1 < j
      BY <1>1, <1>2, <2>4
    <3> QED BY <1>1, <2>1, <3>1 DEF InOrder
  <2> QED BY <2>2, <2>3, <2>4
<1> QED BY <1>2, <1>3, <1>4, <1>5, <1>6, <1>7 DEF Amid

LEMMA AmidNext ==
    ASSUME NEW d, IsDb(d), NEW U, Distinct(U), NEW E, NEW s, Amid(E, U, s), StatementOK(s)
    PROVE  Next1(d, E, s)
BY DEF Next1, Amid, Distinct

\* acc[i] is what the first i statements of a text leave.
Runs(acc, d, sql, n) ==
    /\ acc[0] = d
    /\ \A i \in 1 .. n : acc[i] = Execute(acc[i - 1], sql[i])
    /\ Executed(d, sql) = acc[n]

LEMMA TextRuns ==
    ASSUME NEW d, NEW U, NEW sql, IsText(sql, U)
    PROVE  /\ Len(sql) \in Nat /\ DOMAIN sql = 1 .. Len(sql) /\ ToSet(sql) = U
           /\ \E acc : Runs(acc, d, sql, Len(sql))
<1> DEFINE n == Len(sql)
<1>1. n \in Nat /\ DOMAIN sql = 1 .. n /\ ToSet(sql) = U
  BY DEF IsText
<1> HIDE DEF n
<1>2. PICK acc : /\ acc[0] = d
                 /\ \A i \in 1 .. n : acc[i] = Execute(acc[i - 1], sql[i])
                 /\ Executed(d, sql) = acc[n]
  BY <1>1, Execution
<1>3. Runs(acc, d, sql, n)
  BY <1>2 DEF Runs
<1> QED BY <1>1, <1>3 DEF n

\* A text that is not refused leaves what its statements do.
LEMMA TextLeaves ==
    ASSUME NEW d, IsDb(d), NEW U, Distinct(U), \A s \in U : StatementOK(s),
           NEW sql, IsText(sql, U), Executed(d, sql) # None
    PROVE  /\ Executed(d, sql) = After(d, U)
           /\ \A s \in U : s.kind # "createTable" => ~ RefusedIn(d, U, s)
<1> DEFINE n == Len(sql)
<1>1. n \in Nat /\ DOMAIN sql = 1 .. n /\ ToSet(sql) = U
  BY TextRuns
<1>2. FirstOf(sql, n) = U /\ FirstOf(sql, 0) = {}
  BY <1>1 DEF FirstOf, ToSet
<1>8. PICK acc : Runs(acc, d, sql, n)
  BY TextRuns
<1>3. /\ acc[0] = d
      /\ \A i \in 1 .. n : acc[i] = Execute(acc[i - 1], sql[i])
      /\ Executed(d, sql) = acc[n]
  BY <1>8 DEF Runs
<1> DEFINE Accepts(E) == \A s \in E : s.kind # "createTable" => ~ RefusedIn(d, U, s)
           T == {i \in 0 .. n : acc[i] = None
                    \/ (acc[i] = After(d, FirstOf(sql, i)) /\ Accepts(FirstOf(sql, i)))}
<1>4. 0 \in T
  BY <1>1, <1>2, <1>3, AfterNothing
<1>5. ASSUME NEW i \in 0 .. n, i \in T, i < n
      PROVE  i + 1 \in T
  <2> DEFINE E == FirstOf(sql, i)
             s == sql[i + 1]
  <2>1. i + 1 \in 1 .. n /\ FirstOf(sql, i + 1) = E \cup {s} /\ Amid(E, U, s)
    BY <1>1, <1>5, TextAmid
  <2>2. acc[i + 1] = Execute(acc[i], s)
    <3>1. (i + 1) - 1 = i
      BY <1>1
    <3> QED BY <1>3, <2>1, <3>1
  <2>3. StatementOK(s)
    BY <2>1 DEF Amid
  <2>4. i + 1 \in 0 .. n
    BY <1>1, <2>1
  <2>5. CASE acc[i + 1] = None
    BY <2>4, <2>5
  <2>6. CASE acc[i + 1] # None
    <3>1. acc[i] # None /\ ~ Refused(acc[i], s) /\ acc[i + 1] = Effect(acc[i], s)
      BY <2>2, <2>6 DEF Execute
    <3>2. acc[i] = After(d, E) /\ Accepts(E)
      BY <1>5, <3>1
    <3> HIDE DEF E, s
    <3>3. Next1(d, E, s)
      BY <2>1, <2>3, AmidNext
    <3>4. acc[i + 1] = After(d, E \cup {s})
      BY <3>1, <3>2, <3>3, AfterStep
    <3>5. s.kind # "createTable" => ~ RefusedIn(d, U, s)
      BY <2>1, <2>3, <3>1, <3>2, RefusalSettled
    <3>6. Accepts(E \cup {s})
      BY <3>2, <3>5
    <3> HIDE DEF Accepts
    <3> QED BY <2>1, <2>4, <3>4, <3>6
  <2> QED BY <2>5, <2>6
<1>6. n \in T
  <2>1. \A i \in 0 .. n : i \in T /\ i < n => i + 1 \in T
    BY <1>5
  <2> HIDE DEF T, n
  <2>2. \A i \in 0 .. n : i \in T
    BY <1>1, <1>4, <2>1, UpTo
  <2> QED BY <1>1, <2>2
<1>7. acc[n] = After(d, U) /\ Accepts(U)
  <2> HIDE DEF n, Accepts
  <2> QED BY <1>2, <1>3, <1>6
<1> QED BY <1>3, <1>7

\* When no new table refers to another, and no foreign key has both ends changed,
\* whether a text is refused is settled beforehand.
RefusedAtAll(d, U, s) == RefusedIn(d, U, s) \/ KeyRefusedIn(d, U, s)

LEMMA TextSettled ==
    ASSUME NoneApart, NEW d, DbOK(d), NEW U, Distinct(U), \A s \in U : StatementOK(s),
           Settled(d, U), Free(d, U), NEW sql, IsText(sql, U)
    PROVE  Executed(d, sql) = IF \E s \in U : RefusedAtAll(d, U, s) THEN None ELSE After(d, U)
<1> DEFINE n == Len(sql)
<1>1. n \in Nat /\ DOMAIN sql = 1 .. n /\ ToSet(sql) = U
  BY TextRuns
<1>2. FirstOf(sql, n) = U /\ FirstOf(sql, 0) = {}
  BY <1>1 DEF FirstOf, ToSet
<1>8. PICK acc : Runs(acc, d, sql, n)
  BY TextRuns
<1>3. /\ acc[0] = d
      /\ \A i \in 1 .. n : acc[i] = Execute(acc[i - 1], sql[i])
      /\ Executed(d, sql) = acc[n]
  BY <1>8 DEF Runs
<1> DEFINE Refuses(E) == \E s \in E : RefusedAtAll(d, U, s)
           Left(E) == IF Refuses(E) THEN None ELSE After(d, E)
           T == {i \in 0 .. n : /\ acc[i] = Left(FirstOf(sql, i))
                                /\ Refuses(FirstOf(sql, i)) \/ DbOK(acc[i])}
<1>9. IsDb(d)
  BY DEF DbOK
<1>4. 0 \in T
  <2>1. ~ Refuses({}) /\ After(d, {}) = d
    BY <1>9, AfterNothing
  <2>2. Left(FirstOf(sql, 0)) = d
    BY <1>2, <2>1
  <2>3. 0 \in 0 .. n
    BY <1>1
  <2>4. acc[0] = d
    BY <1>3
  <2> HIDE DEF Left, n
  <2> QED BY <2>2, <2>3, <2>4
<1>5. ASSUME NEW i \in 0 .. n, i \in T, i < n
      PROVE  i + 1 \in T
  <2> DEFINE E == FirstOf(sql, i)
             s == sql[i + 1]
  <2>1. i + 1 \in 1 .. n /\ FirstOf(sql, i + 1) = E \cup {s} /\ Amid(E, U, s)
    BY <1>1, <1>5, TextAmid
  <2>2. acc[i + 1] = Execute(acc[i], s)
    <3>1. (i + 1) - 1 = i
      BY <1>1
    <3> QED BY <1>3, <2>1, <3>1
  <2>3. StatementOK(s)
    BY <2>1 DEF Amid
  <2>4. i + 1 \in 0 .. n /\ acc[i] = Left(E) /\ (Refuses(E) \/ DbOK(acc[i]))
    BY <1>1, <1>5, <2>1
  <2> HIDE DEF E, s
  <2>5. Refuses(E \cup {s}) <=> Refuses(E) \/ RefusedAtAll(d, U, s)
    OBVIOUS
  <2>6. /\ acc[i + 1] = Left(E \cup {s})
        /\ Refuses(E \cup {s}) \/ DbOK(acc[i + 1])
    <3>1. CASE Refuses(E)
      BY <2>2, <2>4, <2>5, <3>1 DEF Execute
    <3>2. CASE ~ Refuses(E)
      <4>1. acc[i] = After(d, E) /\ acc[i] # None /\ DbOK(acc[i])
        BY <2>4, <3>2, AfterIsDb DEF NoneApart
      <4> HIDE DEF Refuses
      <4>2. Refused(acc[i], s) <=> RefusedAtAll(d, U, s)
        <5>1. CASE s.kind = "createTable"
          <6>1. ~ KeyRefusedIn(d, U, s)
            BY <5>1 DEF KeyRefusedIn
          <6>2. Refused(acc[i], s) <=> RefusedIn(d, U, s)
            BY <1>9, <2>1, <4>1, <5>1, CreationSettled
          <6> QED BY <6>1, <6>2 DEF RefusedAtAll
        <5>2. CASE s.kind # "createTable"
          <6>1. Refused(acc[i], s) <=> RefusedIn(d, U, s) \/ KeyRefuses(acc[i], s)
            BY <2>1, <2>3, <4>1, <5>2, RefusalSettled
          <6>2. ~ RefusedIn(d, U, s) => (KeyRefuses(acc[i], s) <=> KeyRefusedIn(d, U, s))
            BY <2>1, <4>1, KeysSettled
          <6> QED BY <6>1, <6>2 DEF RefusedAtAll
        <5> QED BY <5>1, <5>2
      <4>3. Next1(d, E, s)
        BY <1>9, <2>1, <2>3, AmidNext
      <4>4. CASE RefusedAtAll(d, U, s)
        BY <2>2, <2>5, <4>2, <4>4 DEF Execute
      <4>5. CASE ~ RefusedAtAll(d, U, s)
        <5>1. acc[i + 1] = Effect(acc[i], s)
          BY <2>2, <4>1, <4>2, <4>5 DEF Execute
        <5>2. acc[i + 1] = After(d, E \cup {s})
          BY <4>1, <4>2, <4>3, <4>5, <5>1, AfterStep
        <5>3. DbOK(acc[i + 1])
          BY <2>3, <4>1, <4>2, <4>5, <5>1, EffectOK
        <5> QED BY <2>5, <3>2, <4>5, <5>2, <5>3
      <4> QED BY <4>4, <4>5
    <3> QED BY <3>1, <3>2
  <2> HIDE DEF Left, Refuses
  <2> QED BY <2>1, <2>4, <2>6
<1>6. n \in T
  <2>1. \A i \in 0 .. n : i \in T /\ i < n => i + 1 \in T
    BY <1>5
  <2> HIDE DEF T, n
  <2>2. \A i \in 0 .. n : i \in T
    BY <1>1, <1>4, <2>1, UpTo
  <2> QED BY <1>1, <2>2
<1>7. Executed(d, sql) = Left(U)
  <2> HIDE DEF n, Left, Refuses
  <2> QED BY <1>2, <1>3, <1>6
<1> QED BY <1>7

\* The statements of a migration are such.
LEMMA StatementsDistinct ==
    ASSUME NEW from \in Schemas, NEW to \in Schemas
    PROVE  Distinct(Statements(from, to))
<1> DEFINE U == Statements(from, to)
<1>1. ASSUME NEW x \in U, NEW y \in U, x.kind = "createTable", y.kind = "createTable",
             x.table = y.table
      PROVE  x = y
  <2>1. x \in Creating(from, to) /\ y \in Creating(from, to)
    BY <1>1, StatementKinds DEF Statements
  <2>2. PICK n \in Names(to), k \in Names(to) :
           x = CreateTable(ModelOf(to, n)) /\ y = CreateTable(ModelOf(to, k))
    BY <2>1 DEF Creating
  <2>3. TableOf[n] = TableOf[k]
    BY <1>1, <2>2, TableStatements, ModelOfName
  <2> QED BY <2>2, <2>3, ModelOfName
<1>2. ASSUME NEW x \in U, x.kind \in {"addColumn", "setType", "setNull"}
      PROVE  \E n \in Both(from, to) : \E z \in DOMAIN FieldsOf(to, n) :
                /\ x.table = TableOf[n] /\ x.column = FieldsOf(to, n)[z].col
                /\ x.kind = "addColumn" => x = AddColumn(TableOf[n], FieldsOf(to, n)[z])
                /\ x.kind = "setType" => x = SetType(TableOf[n], FieldsOf(to, n)[z])
                /\ x.kind = "setNull" => x = SetNull(TableOf[n], FieldsOf(to, n)[z])
  <2>1. x \in Changing(from, to)
    BY <1>2, StatementKinds DEF Statements
  <2>2. PICK n \in Both(from, to) : x \in Adding(from, to, n) \/ x \in AlteringAll(from, to, n)
    BY <1>2, <2>1, FieldStatementKinds DEF Changing, FieldStatements
  <2>3. CASE x \in Adding(from, to, n)
    <3>1. PICK z \in DOMAIN FieldsOf(to, n) : x = AddColumn(TableOf[n], FieldsOf(to, n)[z])
      BY <2>3 DEF Adding, NewFields
    <3> QED BY <3>1, ColumnStatements
  <2>4. CASE x \in AlteringAll(from, to, n)
    <3>1. PICK z \in DOMAIN FieldsOf(to, n) : \/ x = SetType(TableOf[n], FieldsOf(to, n)[z])
                                              \/ x = SetNull(TableOf[n], FieldsOf(to, n)[z])
      BY <2>4 DEF AlteringAll, Altering, KeptFields
    <3> QED BY <3>1, ColumnStatements
  <2> QED BY <2>2, <2>3, <2>4
<1>3. ASSUME NEW x \in U, NEW y \in U, x.kind = y.kind,
             x.kind \in {"addColumn", "setType", "setNull"},
             x.table = y.table, x.column = y.column
      PROVE  x = y
  <2>1. PICK n \in Both(from, to) : \E z \in DOMAIN FieldsOf(to, n) :
                /\ x.table = TableOf[n] /\ x.column = FieldsOf(to, n)[z].col
                /\ x.kind = "addColumn" => x = AddColumn(TableOf[n], FieldsOf(to, n)[z])
                /\ x.kind = "setType" => x = SetType(TableOf[n], FieldsOf(to, n)[z])
                /\ x.kind = "setNull" => x = SetNull(TableOf[n], FieldsOf(to, n)[z])
    BY <1>2, <1>3
  <2>2. PICK k \in Both(from, to) : \E z \in DOMAIN FieldsOf(to, k) :
                /\ y.table = TableOf[k] /\ y.column = FieldsOf(to, k)[z].col
                /\ y.kind = "addColumn" => y = AddColumn(TableOf[k], FieldsOf(to, k)[z])
                /\ y.kind = "setType" => y = SetType(TableOf[k], FieldsOf(to, k)[z])
                /\ y.kind = "setNull" => y = SetNull(TableOf[k], FieldsOf(to, k)[z])
    BY <1>2, <1>3
  <2>3. n = k /\ n \in Names(to)
    BY <1>3, <2>1, <2>2, ModelOfName DEF Both
  <2>4. \A z, w \in DOMAIN FieldsOf(to, n) :
            FieldsOf(to, n)[z].col = FieldsOf(to, n)[w].col => z = w
    BY <2>3, FieldsOfName
  <2> QED BY <1>3, <2>1, <2>2, <2>3, <2>4
<1> HIDE DEF U
<1>4. Distinct(U)
  BY <1>1, <1>3 DEF Distinct
<1> QED BY <1>4 DEF U

-----------------------------------------------------------------------------
(* What migrations produce                                                  *)

\* A table has the columns of a model's fields.
Cols(F) == {F[x].col : x \in DOMAIN F}
Matches(T, F) ==
    /\ DOMAIN T = Cols(F)
    /\ \A x \in DOMAIN F : Fits(T[F[x].col], F[x])

\* The statements on the table of a model that both schemas have.
LEMMA OnKeptTable ==
    ASSUME NEW from \in Schemas, NEW to \in Schemas, NEW n \in Both(from, to),
           NEW U, U = Statements(from, to), NEW t, t = TableOf[n]
    PROVE  /\ On(U, "createTable", t) = {} /\ On(U, "dropTable", t) = {}
           /\ \A s : s \in U /\ s.kind = "addColumn" /\ s.table = t <=> s \in Adding(from, to, n)
           /\ \A s : s \in U /\ s.kind = "dropColumn" /\ s.table = t <=> s \in Removing(from, to, n)
           /\ \A s : s \in U /\ s.kind \in {"setType", "setNull"} /\ s.table = t
                        <=> s \in AlteringAll(from, to, n)
<1>1. n \in Names(from) /\ n \in Names(to)
  BY DEF Both
<1>2. \A s \in Creating(from, to) : s.table # t
  <2> SUFFICES ASSUME NEW k \in Names(to) \ Names(from) PROVE CreateTable(ModelOf(to, k)).table # t
    BY DEF Creating
  <2>1. CreateTable(ModelOf(to, k)).table = TableOf[k]
    BY TableStatements, ModelOfName
  <2> QED BY <1>1, <2>1, ModelOfName
<1>3. \A s \in Dropping(from, to) : s.table # t
  <2> SUFFICES ASSUME NEW k \in Names(from) \ Names(to) PROVE DropTable(TableOf[k]).table # t
    BY DEF Dropping
  <2>1. DropTable(TableOf[k]).table = TableOf[k]
    BY TableStatements
  <2> QED BY <1>1, <2>1, ModelOfName
<1>4. On(U, "createTable", t) = {} /\ On(U, "dropTable", t) = {}
  BY <1>2, <1>3, StatementKinds DEF On, Statements
<1>5. ASSUME NEW s \in U, s.kind \in {"addColumn", "dropColumn", "setType", "setNull"},
             s.table = t
      PROVE  s \in FieldStatements(from, to, n)
  <2>1. s \in Changing(from, to)
    BY <1>5, StatementKinds DEF Statements
  <2>2. PICK k \in Both(from, to) : s \in FieldStatements(from, to, k)
    BY <2>1 DEF Changing
  <2>3. s.table = TableOf[k]
    BY <2>2, FieldStatementKinds DEF FieldStatements
  <2>4. k = n
    BY <1>1, <1>5, <2>3, ModelOfName DEF Both
  <2> QED BY <2>2, <2>4
<1>6. FieldStatements(from, to, n) \subseteq U
  BY DEF Statements, Changing
<1>7. Adding(from, to, n) \cup Removing(from, to, n) \cup AlteringAll(from, to, n) \subseteq U
  BY <1>6 DEF FieldStatements
<1>8. \A s : s \in U /\ s.kind = "addColumn" /\ s.table = t <=> s \in Adding(from, to, n)
  BY <1>5, <1>7, FieldStatementKinds DEF FieldStatements
<1>9. \A s : s \in U /\ s.kind = "dropColumn" /\ s.table = t <=> s \in Removing(from, to, n)
  BY <1>5, <1>7, FieldStatementKinds DEF FieldStatements
<1>10. \A s : s \in U /\ s.kind \in {"setType", "setNull"} /\ s.table = t
                 <=> s \in AlteringAll(from, to, n)
  BY <1>5, <1>7, FieldStatementKinds DEF FieldStatements
<1> QED BY <1>4, <1>8, <1>9, <1>10

\* The statements on the table of a model that is new.
LEMMA OnNewTable ==
    ASSUME NEW from \in Schemas, NEW to \in Schemas, NEW n \in Names(to) \ Names(from),
           NEW U, U = Statements(from, to), NEW t, t = TableOf[n], t \notin Drops(from, to),
           from # None
    PROVE  /\ On(U, "createTable", t) = {CreateTable(ModelOf(to, n))}
           /\ On(U, "dropTable", t) = {}
           /\ \A s \in U : s.kind \in {"addColumn", "dropColumn", "setType", "setNull"} =>
                             s.table # t
<1>1. ASSUME NEW k \in Names(to)
      PROVE  /\ CreateTable(ModelOf(to, k)).table = TableOf[k]
             /\ CreateTable(ModelOf(to, k)).kind = "createTable"
             /\ TableOf[k] = t => k = n
  BY TableStatements, ModelOfName
<1>2. \A s \in Creating(from, to) : s.table = t <=> s = CreateTable(ModelOf(to, n))
  <2> SUFFICES ASSUME NEW k \in Names(to) \ Names(from)
               PROVE  CreateTable(ModelOf(to, k)).table = t
                         <=> CreateTable(ModelOf(to, k)) = CreateTable(ModelOf(to, n))
    BY DEF Creating
  <2> QED BY <1>1
<1>3. CreateTable(ModelOf(to, n)) \in Creating(from, to)
  BY DEF Creating
<1>4. On(U, "createTable", t) = {CreateTable(ModelOf(to, n))}
  <2>1. \A s \in U : s.kind = "createTable" <=> s \in Creating(from, to)
    BY StatementKinds DEF Statements
  <2>2. Creating(from, to) \subseteq U
    BY DEF Statements
  <2> QED BY <1>2, <1>3, <2>1, <2>2 DEF On
<1>5. \A s \in Dropping(from, to) : s.table # t
  <2> SUFFICES ASSUME NEW k \in Names(from) \ Names(to) PROVE DropTable(TableOf[k]).table # t
    BY DEF Dropping
  <2>1. DropTable(TableOf[k]).table = TableOf[k]
    BY TableStatements
  <2>2. TableOf[k] \in Drops(from, to)
    BY DEF Drops, Known
  <2> QED BY <2>1, <2>2
<1>6. On(U, "dropTable", t) = {}
  BY <1>5, StatementKinds DEF On, Statements
<1>7. ASSUME NEW s \in U, s.kind \in {"addColumn", "dropColumn", "setType", "setNull"}
      PROVE  s.table # t
  <2>1. s \in Changing(from, to)
    BY <1>7, StatementKinds DEF Statements
  <2>2. PICK k \in Both(from, to) : s \in FieldStatements(from, to, k)
    BY <2>1 DEF Changing
  <2>3. s.table = TableOf[k] /\ k \in Names(to) /\ k # n
    BY <2>2, FieldStatementKinds DEF FieldStatements, Both
  <2> QED BY <1>1, <2>3
<1> QED BY <1>4, <1>6, <1>7

\* A column as CREATE TABLE and ADD COLUMN make it.
LEMMA MadeFits ==
    ASSUME NEW f, NEW c, c.type = SqlType(f), c.notNull = NotNull(f)
    PROVE  Fits(c, f)
BY DEF Fits, NotNull

\* A table that a migration creates.
LEMMA NewTableMatches ==
    ASSUME NEW from \in Schemas, NEW to \in Schemas, NEW n \in Names(to) \ Names(from),
           NEW U, U = Statements(from, to), NEW t, t = TableOf[n], t \notin Drops(from, to),
           from # None, NEW d, IsDb(d), t \notin DOMAIN d.tables
    PROVE  t \in DOMAIN After(d, U).tables /\ Matches(After(d, U).tables[t], FieldsOf(to, n))
<1> DEFINE m == ModelOf(to, n)
           F == FieldsOf(to, n)
           T == After(d, U).tables[t]
<1>1. /\ On(U, "createTable", t) = {CreateTable(m)} /\ On(U, "dropTable", t) = {}
      /\ \A s \in U : s.kind \in {"addColumn", "dropColumn", "setType", "setNull"} => s.table # t
  BY OnNewTable
<1>2. /\ CreateTable(m).kind = "createTable" /\ CreateTable(m).table = t
      /\ CreateTable(m).columns = Columns(m)
  BY TableStatements, ModelOfName
<1>3. /\ DOMAIN Columns(m) = {F[x].col : x \in DOMAIN F}
      /\ \A x \in DOMAIN F : Columns(m)[F[x].col] = Column(F[x])
  <2>1. m \in ToSet(to.models) /\ F = m.fields
    BY ModelOfName DEF FieldsOf
  <2> HIDE DEF m, F
  <2>2. /\ DOMAIN Columns(m) = {m.fields[x].col : x \in DOMAIN m.fields}
        /\ \A x \in DOMAIN m.fields : Columns(m)[m.fields[x].col] = Column(m.fields[x])
    BY <2>1, ColumnsOfModel
  <2> QED BY <2>1, <2>2
<1> HIDE DEF m, F
<1>4. t \in TablesAfter(d, U)
  <2>1. CreateTable(m) \in U
    BY <1>1 DEF On
  <2> QED BY <1>1, <1>2, <2>1 DEF TablesAfter
<1>5. Base(d, U, t) = Columns(m)
  BY <1>1, <1>2, TheOnly DEF Base
<1>6. \A k \in {"addColumn", "dropColumn", "setType", "setNull"} :
         On(U, k, t) = {} /\ \A c : OnColumn(U, k, t, c) = {}
  BY <1>1 DEF On, OnColumn
<1>7. ColumnsAfter(d, U, t) = DOMAIN Columns(m)
  BY <1>5, <1>6 DEF ColumnsAfter
<1>8. T = TableAfter(d, U, t) /\ t \in DOMAIN After(d, U).tables
  BY <1>4, AfterIsDb
<1> HIDE DEF T
<1>9. DOMAIN T = Cols(F)
  BY <1>3, <1>7, <1>8, TableIs DEF Cols
<1>10. ASSUME NEW x \in DOMAIN F
       PROVE  Fits(T[F[x].col], F[x])
  <2> DEFINE c == F[x].col
             g == Found1st(d, U, t, c)
  <2>1. c \in DOMAIN Columns(m) /\ g = Column(F[x])
    BY <1>3, <1>5, <1>10 DEF Found1st
  <2>2. T[c] = ColumnAfter(U, t, c, g)
    BY <1>7, <1>8, <2>1, TableIs
  <2>3. g.type = SqlType(F[x]) /\ g.notNull = NotNull(F[x])
    BY <2>1 DEF Column
  <2> HIDE DEF g, c
  <2>4. T[c].type = g.type /\ T[c].notNull = g.notNull
    BY <1>6, <2>2 DEF ColumnAfter, TypeAfter, NullAfter
  <2> QED BY <2>3, <2>4, MadeFits DEF c
<1>11. Matches(T, F)
  BY <1>9, <1>10 DEF Matches
<1> QED BY <1>8, <1>11 DEF T, F

\* The fields of a model that DiffSchemas compares in all that matters.
Compared(F, G) ==
    \A x \in DOMAIN F \cap DOMAIN G : F[x].col = G[x].col /\ F[x].default = G[x].default

\* The columns of a table whose model both schemas have.
LEMMA KeptColumns ==
    ASSUME NEW from \in Schemas, NEW to \in Schemas, NEW n \in Both(from, to),
           NEW U, U = Statements(from, to), NEW t, t = TableOf[n],
           NEW F, F = FieldsOf(from, n), NEW G, G = FieldsOf(to, n), Compared(F, G),
           NEW d, t \in DOMAIN d.tables, DOMAIN d.tables[t] = Cols(F),
           \A s \in U : s.kind = "addColumn" => ~ RefusedIn(d, U, s)
    PROVE  /\ \A x \in DOMAIN G \ DOMAIN F : G[x].col \notin DOMAIN d.tables[t]
           /\ ColumnsAfter(d, U, t) = Cols(G)
<1> DEFINE base == DOMAIN d.tables[t]
<1>1. /\ \A s : s \in U /\ s.kind = "addColumn" /\ s.table = t <=> s \in Adding(from, to, n)
      /\ \A s : s \in U /\ s.kind = "dropColumn" /\ s.table = t <=> s \in Removing(from, to, n)
  BY OnKeptTable
<1>2. Base(d, U, t) = d.tables[t]
  BY DEF Base
<1>3. /\ Adding(from, to, n) = {AddColumn(t, G[x]) : x \in DOMAIN G \ DOMAIN F}
      /\ Removing(from, to, n) = {DropColumn(t, F[x]) : x \in DOMAIN F \ DOMAIN G}
  BY DEF Adding, Removing, NewFields, OldFields
<1>4. \A x, y \in DOMAIN F : F[x].col = F[y].col => x = y
  BY FieldsOfName DEF Both
<1>5. ASSUME NEW x \in DOMAIN G \ DOMAIN F
      PROVE  G[x].col \notin base
  <2>1. AddColumn(t, G[x]) \in U
    BY <1>1, <1>3
  <2>2. /\ AddColumn(t, G[x]).kind = "addColumn" /\ AddColumn(t, G[x]).table = t
        /\ AddColumn(t, G[x]).column = G[x].col
    BY ColumnStatements
  <2>3. ~ RefusedIn(d, U, AddColumn(t, G[x]))
    BY <2>1, <2>2
  <2> QED BY <1>2, <2>2, <2>3 DEF RefusedIn
<1>6. \A c : c \in {s.column : s \in On(U, "addColumn", t)}
                <=> \E x \in DOMAIN G \ DOMAIN F : G[x].col = c
  <2>1. On(U, "addColumn", t) = {AddColumn(t, G[x]) : x \in DOMAIN G \ DOMAIN F}
    BY <1>1, <1>3 DEF On
  <2> QED BY <2>1, ColumnStatements
<1>7. \A c : OnColumn(U, "dropColumn", t, c) = {}
                <=> \A x \in DOMAIN F \ DOMAIN G : F[x].col # c
  <2> SUFFICES ASSUME NEW c
               PROVE  OnColumn(U, "dropColumn", t, c) = {}
                         <=> \A x \in DOMAIN F \ DOMAIN G : F[x].col # c
    OBVIOUS
  <2>1. OnColumn(U, "dropColumn", t, c)
           = {s \in {DropColumn(t, F[x]) : x \in DOMAIN F \ DOMAIN G} : s.column = c}
    BY <1>1, <1>3 DEF OnColumn
  <2> QED BY <2>1, ColumnStatements
<1>8. \A c : c \in ColumnsAfter(d, U, t)
                <=> /\ c \in base \/ \E x \in DOMAIN G \ DOMAIN F : G[x].col = c
                    /\ \A x \in DOMAIN F \ DOMAIN G : F[x].col # c
  BY <1>2, <1>6, <1>7 DEF ColumnsAfter
<1>9. \A c : c \in base <=> \E x \in DOMAIN F : F[x].col = c
  BY DEF Cols
<1>10. \A x \in DOMAIN F \cap DOMAIN G : F[x].col = G[x].col
  BY DEF Compared
<1>11. ASSUME NEW c
       PROVE  c \in ColumnsAfter(d, U, t) <=> \E x \in DOMAIN G : G[x].col = c
  <2>1. ASSUME c \in ColumnsAfter(d, U, t)
        PROVE  \E x \in DOMAIN G : G[x].col = c
    BY <1>8, <1>9, <1>10, <2>1
  <2>2. ASSUME NEW x \in DOMAIN G, G[x].col = c
        PROVE  c \in ColumnsAfter(d, U, t)
    <3>1. CASE x \in DOMAIN F
      BY <1>4, <1>8, <1>9, <1>10, <2>2, <3>1
    <3>2. CASE x \notin DOMAIN F
      BY <1>5, <1>8, <1>9, <2>2, <3>2
    <3> QED BY <3>1, <3>2
  <2> QED BY <2>1, <2>2
<1> QED BY <1>5, <1>11 DEF Cols

\* What DiffSchemas alters of a field: its type, and whether it may be null.
LEMMA AlteredField ==
    ASSUME NEW from \in Schemas, NEW to \in Schemas, NEW n \in Both(from, to),
           NEW U, U = Statements(from, to), NEW t, t = TableOf[n],
           NEW F, F = FieldsOf(from, n), NEW G, G = FieldsOf(to, n),
           NEW x \in DOMAIN G, NEW c, c = G[x].col
    PROVE  /\ OnColumn(U, "setType", t, c)
                 = {s \in {SetType(t, G[x])} : x \in DOMAIN F /\ OtherType(F[x], G[x])}
           /\ OnColumn(U, "setNull", t, c)
                 = {s \in {SetNull(t, G[x])} : x \in DOMAIN F /\ F[x].optional # G[x].optional}
<1>1. \A s : s \in U /\ s.kind \in {"setType", "setNull"} /\ s.table = t
                <=> s \in AlteringAll(from, to, n)
  BY OnKeptTable
<1>2. \A s : s \in AlteringAll(from, to, n) <=>
         \E y \in DOMAIN F \cap DOMAIN G :
            \/ s = SetType(t, G[y]) /\ OtherType(F[y], G[y])
            \/ s = SetNull(t, G[y]) /\ F[y].optional # G[y].optional
  BY DEF AlteringAll, Altering, KeptFields
<1>3. \A y \in DOMAIN G : G[y].col = c => y = x
  BY FieldsOfName DEF Both
<1>4. \A y : /\ SetType(t, G[y]).kind = "setType" /\ SetType(t, G[y]).column = G[y].col
             /\ SetType(t, G[y]).table = t /\ SetNull(t, G[y]).table = t
             /\ SetNull(t, G[y]).kind = "setNull" /\ SetNull(t, G[y]).column = G[y].col
  BY ColumnStatements
<1>5. \A s : s \in OnColumn(U, "setType", t, c)
                <=> s \in AlteringAll(from, to, n) /\ s.kind = "setType" /\ s.column = c
  BY <1>1 DEF OnColumn
<1>6. \A s : s \in OnColumn(U, "setNull", t, c)
                <=> s \in AlteringAll(from, to, n) /\ s.kind = "setNull" /\ s.column = c
  BY <1>1 DEF OnColumn
<1>7. ASSUME NEW s
      PROVE  s \in OnColumn(U, "setType", t, c)
                <=> s = SetType(t, G[x]) /\ x \in DOMAIN F /\ OtherType(F[x], G[x])
  BY <1>2, <1>3, <1>4, <1>5
<1>8. ASSUME NEW s
      PROVE  s \in OnColumn(U, "setNull", t, c)
                <=> s = SetNull(t, G[x]) /\ x \in DOMAIN F /\ F[x].optional # G[x].optional
  BY <1>2, <1>3, <1>4, <1>6
<1> QED BY <1>7, <1>8

\* A column that was as its field wanted it, after ALTER COLUMN where DiffSchemas finds
\* that the field differs.
LEMMA KeptFits ==
    ASSUME NEW f, NEW g, NEW b, NEW c, Fits(b, f), f.default = g.default,
           f.optional \in BOOLEAN, g.optional \in BOOLEAN,
           c.type = IF OtherType(f, g) THEN SqlType(g) ELSE b.type,
           c.notNull = IF f.optional # g.optional THEN ~ g.optional ELSE b.notNull
    PROVE  Fits(c, g)
<1>1. c.type = SqlType(g)
  BY DEF Fits, OtherType, SqlType
<1>2. c.notNull => ~ g.optional \/ g.default = "autoincrement"
  BY DEF Fits
<1>3. NotNull(g) /\ ~ g.optional => c.notNull
  BY DEF Fits, NotNull
<1> QED BY <1>1, <1>2, <1>3 DEF Fits

\* A table whose model both schemas have.
LEMMA KeptTableMatches ==
    ASSUME NEW from \in Schemas, NEW to \in Schemas, NEW n \in Both(from, to),
           NEW U, U = Statements(from, to), NEW t, t = TableOf[n],
           NEW F, F = FieldsOf(from, n), NEW G, G = FieldsOf(to, n), Compared(F, G),
           NEW d, IsDb(d), t \in DOMAIN d.tables, Matches(d.tables[t], F),
           \A s \in U : s.kind = "addColumn" => ~ RefusedIn(d, U, s)
    PROVE  t \in DOMAIN After(d, U).tables /\ Matches(After(d, U).tables[t], G)
<1>2. /\ \A x \in DOMAIN G \ DOMAIN F : G[x].col \notin DOMAIN d.tables[t]
      /\ ColumnsAfter(d, U, t) = Cols(G)
  <2>1. DOMAIN d.tables[t] = Cols(F)
    BY DEF Matches
  <2> QED BY <2>1, KeptColumns
<1>3. t \in TablesAfter(d, U)
  BY OnKeptTable DEF TablesAfter
<1> DEFINE T == After(d, U).tables[t]
           base == d.tables[t]
<1>1. /\ DOMAIN base = Cols(F)
      /\ \A x \in DOMAIN F : Fits(base[F[x].col], F[x])
      /\ \A x \in DOMAIN F : F[x].col \in DOMAIN base
      /\ \A x \in DOMAIN G \ DOMAIN F : G[x].col \notin DOMAIN base
  BY <1>2 DEF Matches, Cols
<1>4. T = TableAfter(d, U, t) /\ t \in DOMAIN After(d, U).tables
  <2>1. DOMAIN After(d, U).tables = TablesAfter(d, U)
    BY AfterIsDb
  <2>2. After(d, U).tables[t] = TableAfter(d, U, t)
    BY <1>3, AfterIsDb
  <2> QED BY <1>3, <2>1, <2>2
<1>5. Base(d, U, t) = base
  BY DEF Base
<1> HIDE DEF T, base
<1>6. DOMAIN T = Cols(G) /\ \A x \in DOMAIN G : G[x].col \in Cols(G)
  BY <1>2, <1>4, TableIs DEF Cols
<1>7. ASSUME NEW x \in DOMAIN G
      PROVE  Fits(T[G[x].col], G[x])
  <2> DEFINE c == G[x].col
             b == Found1st(d, U, t, c)
  <2>1. T[c] = ColumnAfter(U, t, c, b)
    BY <1>2, <1>4, <1>6, <1>7, TableIs
  <2>2. /\ OnColumn(U, "setType", t, c)
              = {s \in {SetType(t, G[x])} : x \in DOMAIN F /\ OtherType(F[x], G[x])}
        /\ OnColumn(U, "setNull", t, c)
              = {s \in {SetNull(t, G[x])} : x \in DOMAIN F /\ F[x].optional # G[x].optional}
    BY <1>7, AlteredField
  <2>3. T[c].type = TypeAfter(U, t, c, b) /\ T[c].notNull = NullAfter(U, t, c, b)
    BY <2>1 DEF ColumnAfter
  <2>4. CASE x \in DOMAIN F
    <3>1. F[x].col = c /\ F[x].default = G[x].default
      BY <1>7, <2>4 DEF Compared
    <3>2. b = base[c] /\ Fits(b, F[x])
      BY <1>1, <1>5, <2>4, <3>1 DEF Found1st
    <3> HIDE DEF b, c
    <3>3. T[c].type = IF OtherType(F[x], G[x]) THEN SqlType(G[x]) ELSE b.type
      <4>1. CASE OtherType(F[x], G[x])
        <5>1. OnColumn(U, "setType", t, c) = {SetType(t, G[x])}
          BY <2>2, <2>4, <4>1
        <5>2. TypeAfter(U, t, c, b) = SetType(t, G[x]).type
          BY <5>1, TheOnly DEF TypeAfter
        <5> QED BY <2>3, <4>1, <5>2, ColumnStatements
      <4>2. CASE ~ OtherType(F[x], G[x])
        BY <2>2, <2>3, <4>2 DEF TypeAfter
      <4> QED BY <4>1, <4>2
    <3>4. T[c].notNull = IF F[x].optional # G[x].optional THEN ~ G[x].optional ELSE b.notNull
      <4>1. CASE F[x].optional # G[x].optional
        <5>1. OnColumn(U, "setNull", t, c) = {SetNull(t, G[x])}
          BY <2>2, <2>4, <4>1
        <5>2. NullAfter(U, t, c, b) = SetNull(t, G[x]).notNull
          BY <5>1, TheOnly DEF NullAfter
        <5>3. SetNull(t, G[x]).notNull = ~ G[x].optional
          BY ColumnStatements
        <5> QED BY <2>3, <4>1, <5>2, <5>3
      <4>2. CASE F[x].optional = G[x].optional
        <5>1. NullAfter(U, t, c, b) = b.notNull
          BY <2>2, <4>2 DEF NullAfter
        <5> QED BY <2>3, <4>2, <5>1
      <4> QED BY <4>1, <4>2
    <3>5. F[x].optional \in BOOLEAN /\ G[x].optional \in BOOLEAN
      BY <1>7, <2>4, FieldsOfName DEF Both
    <3>6. Fits(T[c], G[x])
      BY <3>1, <3>2, <3>3, <3>4, <3>5, KeptFits
    <3> QED BY <3>6 DEF c
  <2>5. CASE x \notin DOMAIN F
    <3>1. c \notin DOMAIN base
      BY <1>1, <1>7, <2>5
    <3>2. /\ AddColumn(t, G[x]) \in Adding(from, to, n)
          /\ \A s \in Adding(from, to, n) : s.column = c => s = AddColumn(t, G[x])
      <4>1. \A y \in DOMAIN G : G[y].col = c => y = x
        BY <1>7, FieldsOfName DEF Both
      <4>2. Adding(from, to, n) = {AddColumn(t, G[y]) : y \in DOMAIN G \ DOMAIN F}
        BY DEF Adding, NewFields
      <4>3. \A y : AddColumn(t, G[y]).column = G[y].col
        BY ColumnStatements
      <4> HIDE DEF c
      <4> QED BY <1>7, <2>5, <4>1, <4>2, <4>3
    <3>3. OnColumn(U, "addColumn", t, c) = {AddColumn(t, G[x])}
      <4>1. \A s : s \in U /\ s.kind = "addColumn" /\ s.table = t <=> s \in Adding(from, to, n)
        BY OnKeptTable
      <4>2. AddColumn(t, G[x]).column = c
        BY ColumnStatements
      <4> HIDE DEF c
      <4> QED BY <3>2, <4>1, <4>2 DEF OnColumn
    <3>4. b = Added(G[x])
      <4>1. AddColumn(t, G[x]).as = Added(G[x])
        BY ColumnStatements
      <4> HIDE DEF c
      <4> QED BY <1>5, <3>1, <3>3, <4>1, TheOnly DEF Found1st
    <3> HIDE DEF b, c
    <3>5. T[c].type = b.type /\ T[c].notNull = b.notNull
      BY <2>2, <2>3, <2>5 DEF TypeAfter, NullAfter
    <3>6. Fits(T[c], G[x])
      BY <3>4, <3>5, AddedColumn, MadeFits
    <3> QED BY <3>6 DEF c
  <2> QED BY <2>4, <2>5
<1>8. Matches(T, G)
  BY <1>6, <1>7 DEF Matches
<1> QED BY <1>4, <1>8 DEF T

Agrees(d, m) == TableOf[m.name] \in DOMAIN d.tables /\ Matches(d.tables[TableOf[m.name]], m.fields)

LEMMA MatchesEach ==
    MigratedMatches <=>
       (snapshot # None => \A m \in ToSet(snapshot.models) : TableOf[m.name] \notin astray => Agrees(db, m))
<1>1. ASSUME NEW T, NEW F
      PROVE  Matches(T, F) <=> /\ DOMAIN T = {f.col : f \in Range(F)}
                               /\ \A f \in Range(F) : Fits(T[f.col], f)
  <2>1. {f.col : f \in Range(F)} = Cols(F)
    BY DEF Range, Cols
  <2>2. (\A f \in Range(F) : Fits(T[f.col], f)) <=> \A x \in DOMAIN F : Fits(T[F[x].col], F[x])
    BY DEF Range
  <2> QED BY <2>1, <2>2 DEF Matches
<1> DEFINE Each(m) == /\ TableOf[m.name] \in DOMAIN db.tables
                      /\ DOMAIN db.tables[TableOf[m.name]] = {f.col : f \in Range(m.fields)}
                      /\ \A f \in Range(m.fields) : Fits(db.tables[TableOf[m.name]][f.col], f)
<1>2. MigratedMatches <=>
       (snapshot # None => \A m \in ToSet(snapshot.models) : TableOf[m.name] \notin astray => Each(m))
  BY DEF MigratedMatches
<1>3. \A m : Each(m) <=> Agrees(db, m)
  BY <1>1 DEF Agrees
<1> HIDE DEF Each
<1> QED BY <1>2, <1>3

\* The first migration, of a single table.
LEMMA FirstMigrated ==
    ASSUME NEW to \in Schemas, NEW d, IsDb(d), NEW sql, sql = FullSchema(to), Len(sql) <= 1,
           NEW m \in ToSet(to.models), TableOf[m.name] \notin DOMAIN d.tables,
           Executed(d, sql) # None
    PROVE  Agrees(Executed(d, sql), m)
<1> DEFINE s == CreateTable(m)
           t == TableOf[m.name]
<1>1. sql \in Seq(ToSet(sql)) /\ s \in ToSet(sql)
  BY FullSchemaStatements
<1>2. DOMAIN sql = 1 .. 1 /\ sql[1] = s
  <2>1. DOMAIN sql = 1 .. Len(sql) /\ Len(sql) \in Nat
    BY <1>1
  <2>2. PICK i \in 1 .. Len(sql) : sql[i] = s
    BY <1>1, <2>1 DEF ToSet
  <2>3. i = 1 /\ Len(sql) = 1
    BY <2>1, <2>2
  <2> QED BY <2>1, <2>2, <2>3
<1> HIDE DEF s
<1>3. Executed(d, sql) = Execute(d, s)
  <2> DEFINE n == 1
  <2>1. n \in Nat /\ DOMAIN sql = 1 .. n
    BY <1>2
  <2> HIDE DEF n
  <2>2. PICK acc : /\ acc[0] = d
                   /\ \A i \in 1 .. n : acc[i] = Execute(acc[i - 1], sql[i])
                   /\ Executed(d, sql) = acc[n]
    BY <2>1, Execution
  <2>3. n = 1
    BY DEF n
  <2> QED BY <1>2, <2>2, <2>3
<1>4. Executed(d, sql) = Effect(d, s)
  BY <1>3 DEF Execute
<1>5. s.kind = "createTable" /\ s.table = t /\ s.columns = Columns(m)
  BY TableStatements DEF s
<1> DEFINE e == Effect(d, s)
<1> HIDE DEF e
<1>6. t \in DOMAIN e.tables /\ e.tables[t] = Columns(m)
  <2>1. e = Effect(d, s) /\ s.kind \in {"createType", "createTable"}
    BY <1>5 DEF e
  <2>2. /\ \A u \in DOMAIN e.tables \ DOMAIN d.tables :
              s.kind = "createTable" /\ u = s.table /\ e.tables[u] = s.columns
        /\ InPlace(e, s)
    BY <2>1, CreateEffect
  <2> QED BY <1>5, <2>2 DEF InPlace
<1>7. Matches(Columns(m), m.fields)
  <2> DEFINE T == Columns(m)
             F == m.fields
  <2>1. /\ DOMAIN T = Cols(F)
        /\ \A x \in DOMAIN F : T[F[x].col] = Column(F[x])
    BY ColumnsOfModel DEF Cols
  <2> HIDE DEF T, F
  <2>2. \A f : Fits(Column(f), f)
    <3> SUFFICES ASSUME NEW f PROVE Fits(Column(f), f)
      OBVIOUS
    <3>1. Column(f).type = SqlType(f) /\ Column(f).notNull = NotNull(f)
      BY DEF Column
    <3> QED BY <3>1, MadeFits
  <2>3. Matches(T, F)
    BY <2>1, <2>2 DEF Matches
  <2> QED BY <2>3 DEF T, F
<1>8. Agrees(e, m)
  BY <1>6, <1>7 DEF Agrees
<1> QED BY <1>4, <1>8 DEF e

\* A later migration.
LEMMA LaterMigrated ==
    ASSUME NEW from \in Schemas, from # None, NEW to \in Schemas, NEW d, IsDb(d),
           NEW sql \in GenerateMigrationSQL(from, to), Executed(d, sql) # None,
           NEW m \in ToSet(to.models),
           m.name \in Names(from) =>
              /\ Agrees(d, ModelOf(from, m.name))
              /\ Compared(FieldsOf(from, m.name), m.fields),
           m.name \notin Names(from) => TableOf[m.name] \notin DOMAIN d.tables \cup Drops(from, to)
    PROVE  Agrees(Executed(d, sql), m)
<1> DEFINE U == Statements(from, to)
           n == m.name
           t == TableOf[n]
<1>1. n \in Names(to) /\ FieldsOf(to, n) = m.fields
  BY ModelOfName DEF FieldsOf
<1>2. /\ Executed(d, sql) = After(d, U)
      /\ \A s \in U : s.kind # "createTable" => ~ RefusedIn(d, U, s)
  <2>1. IsText(sql, U) /\ Distinct(U) /\ \A s \in U : StatementOK(s)
    BY MigrationText, StatementsDistinct, StatementsOK
  <2> HIDE DEF U
  <2> QED BY <2>1, TextLeaves
<1>3. \A s \in U : s.kind = "addColumn" => ~ RefusedIn(d, U, s)
  BY <1>2
<1>4. t \in DOMAIN After(d, U).tables /\ Matches(After(d, U).tables[t], m.fields)
  <2>1. CASE n \in Names(from)
    <3> DEFINE F == FieldsOf(from, n)
               G == FieldsOf(to, n)
    <3>1. n \in Both(from, to) /\ Compared(F, G)
      BY <1>1, <2>1 DEF Both
    <3>2. t \in DOMAIN d.tables /\ Matches(d.tables[t], F)
      <4>1. ModelOf(from, n).name = n
        BY <2>1, ModelOfName
      <4> QED BY <2>1, <4>1 DEF Agrees, FieldsOf
    <3>3. U = Statements(from, to) /\ t = TableOf[n] /\ F = FieldsOf(from, n) /\ G = FieldsOf(to, n)
      OBVIOUS
    <3> HIDE DEF U, t, F, G
    <3>4. t \in DOMAIN After(d, U).tables /\ Matches(After(d, U).tables[t], G)
      BY <1>3, <3>1, <3>2, <3>3, KeptTableMatches
    <3> QED BY <1>1, <3>3, <3>4
  <2>2. CASE n \notin Names(from)
    <3>1. /\ n \in Names(to) \ Names(from) /\ t \notin Drops(from, to) /\ t \notin DOMAIN d.tables
          /\ U = Statements(from, to) /\ t = TableOf[n]
      BY <1>1, <2>2
    <3> HIDE DEF U, t, n
    <3>2. t \in DOMAIN After(d, U).tables /\ Matches(After(d, U).tables[t], FieldsOf(to, n))
      BY <3>1, NewTableMatches
    <3> QED BY <1>1, <3>2
  <2> QED BY <2>1, <2>2
<1> HIDE DEF U
<1> QED BY <1>2, <1>4 DEF Agrees

\* What a text does to tables that it does not name: only their foreign keys can go.
Keeps(d, e, t) ==
    t \in DOMAIN d.tables =>
       /\ t \in DOMAIN e.tables /\ DOMAIN e.tables[t] = DOMAIN d.tables[t]
       /\ \A c \in DOMAIN d.tables[t] : /\ e.tables[t][c].type = d.tables[t][c].type
                                        /\ e.tables[t][c].notNull = d.tables[t][c].notNull

LEMMA OtherKeeps ==
    ASSUME NEW d, DbOK(d), NEW s, StatementOK(s), ~ Refused(d, s),
           NEW t, s.table # t \/ s.kind \in {"createType", "dropType", "garbled"}
    PROVE  Keeps(d, Effect(d, s), t)
<1> DEFINE e == Effect(d, s)
<1>0. IsDb(d) /\ s.kind # "garbled"
  BY Accepted DEF DbOK
<1>1. CASE s.kind \in {"createType", "createTable"}
  <2> HIDE DEF e
  <2>1. e = Effect(d, s)
    BY DEF e
  <2>2. /\ DOMAIN d.tables \subseteq DOMAIN e.tables
        /\ \A u \in DOMAIN d.tables : e.tables[u] = d.tables[u]
    BY <1>0, <1>1, <2>1, CreateEffect
  <2>3. Keeps(d, e, t)
    BY <2>2 DEF Keeps
  <2> QED BY <2>3 DEF e
<1>2. CASE s.kind = "dropType"
  <2>1. e.tables = d.tables
    BY <1>0, <1>2, TypeEffect
  <2> HIDE DEF e
  <2>2. Keeps(d, e, t)
    BY <2>1 DEF Keeps
  <2> QED BY <2>2 DEF e
<1>3. CASE s.kind = "dropTable"
  <2>1. e.tables = Dropped(d.tables, s.table)
    BY <1>0, <1>3, TableEffect
  <2> HIDE DEF e
  <2>2. ASSUME t \in DOMAIN d.tables
        PROVE  /\ t \in DOMAIN e.tables
               /\ e.tables[t] = [c \in DOMAIN d.tables[t] |->
                     IF d.tables[t][c].ref # None /\ d.tables[t][c].ref.table = s.table
                     THEN [d.tables[t][c] EXCEPT !.ref = None] ELSE d.tables[t][c]]
    BY <1>3, <2>1, <2>2 DEF Dropped
  <2>3. ASSUME t \in DOMAIN d.tables, NEW c \in DOMAIN d.tables[t]
        PROVE  /\ e.tables[t][c].type = d.tables[t][c].type
               /\ e.tables[t][c].notNull = d.tables[t][c].notNull
    <3> DEFINE v == d.tables[t][c]
    <3>1. v = [type |-> v.type, notNull |-> v.notNull, default |-> v.default,
               unique |-> v.unique, ref |-> v.ref]
      BY <1>0, <2>3 DEF IsDb, IsTable, IsColumn
    <3>2. e.tables[t][c] = v \/ e.tables[t][c] = [v EXCEPT !.ref = None]
      BY <2>2, <2>3
    <3> HIDE DEF v
    <3>3. [v EXCEPT !.ref = None].type = v.type /\ [v EXCEPT !.ref = None].notNull = v.notNull
      BY <3>1
    <3>4. e.tables[t][c].type = v.type /\ e.tables[t][c].notNull = v.notNull
      BY <3>2, <3>3
    <3> QED BY <3>4 DEF v
  <2>4. Keeps(d, e, t)
    BY <2>2, <2>3 DEF Keeps
  <2> QED BY <2>4 DEF e
<1>4. CASE s.kind \in {"addColumn", "dropColumn", "setType", "setNull"}
  <2>1. s.table \in DOMAIN d.tables
        /\ (s.kind \in {"setType", "setNull"} => s.column \in DOMAIN d.tables[s.table])
    BY <1>4, Accepted DEF Has
  <2>2. \E T : e.tables = Replaced(d.tables, s.table, T)
    <3>1. CASE s.kind \in {"addColumn", "dropColumn"}
      <4>1. \/ e.tables = Replaced(d.tables, s.table, With(d.tables[s.table], s.column, s.as))
            \/ e.tables = Replaced(d.tables, s.table,
                             [c \in DOMAIN d.tables[s.table] \ {s.column} |-> d.tables[s.table][c]])
        BY <1>0, <2>1, <3>1, ColumnEffect
      <4> QED BY <4>1
    <3>2. CASE s.kind = "setType"
      <4>1. e.tables = Replaced(d.tables, s.table, Replaced(d.tables[s.table], s.column,
                          Typed(d.tables[s.table][s.column], s.type)))
        BY <1>0, <2>1, <3>2, AlterEffect
      <4> QED BY <4>1
    <3>3. CASE s.kind = "setNull"
      <4>1. e.tables = Replaced(d.tables, s.table, Replaced(d.tables[s.table], s.column,
                          Nulled(d.tables[s.table][s.column], s.notNull)))
        BY <1>0, <2>1, <3>3, AlterEffect
      <4> QED BY <4>1
    <3> QED BY <1>4, <3>1, <3>2, <3>3
  <2> HIDE DEF e
  <2>3. Keeps(d, e, t)
    BY <1>4, <2>2 DEF Replaced, Keeps
  <2> QED BY <2>3 DEF e
<1> QED BY <1>0, <1>1, <1>2, <1>3, <1>4 DEF StatementOK

LEMMA TextKeeps ==
    ASSUME NEW d, DbOK(d), NEW sql \in Seq(AnyStatement), Executed(d, sql) # None,
           NEW t, t \notin TablesOf(sql)
    PROVE  Keeps(d, Executed(d, sql), t)
<1> DEFINE n == Len(sql)
<1>1. n \in Nat /\ DOMAIN sql = 1 .. n /\ \A i \in 1 .. n : sql[i] \in AnyStatement
  OBVIOUS
<1> HIDE DEF n
<1>2. PICK acc : /\ acc[0] = d
                 /\ \A i \in 1 .. n : acc[i] = Execute(acc[i - 1], sql[i])
                 /\ Executed(d, sql) = acc[n]
  BY <1>1, Execution
<1>3. ASSUME NEW i \in 1 .. n
      PROVE  /\ StatementOK(sql[i])
             /\ sql[i].table # t \/ sql[i].kind \in {"createType", "dropType", "garbled"}
  <2>1. sql[i] \in ToSet(sql)
    BY <1>1 DEF ToSet
  <2> QED BY <1>1, <2>1, AnyStatementOK DEF TablesOf
<1> DEFINE T == {i \in 0 .. n : acc[i] = None \/ (DbOK(acc[i]) /\ Keeps(d, acc[i], t))}
<1>4. 0 \in T
  BY <1>1, <1>2 DEF Keeps
<1>5. ASSUME NEW i \in 0 .. n, i \in T, i < n
      PROVE  i + 1 \in T
  <2>1. i + 1 \in 1 .. n /\ (i + 1) - 1 = i
    BY <1>1, <1>5
  <2>2. acc[i + 1] = Execute(acc[i], sql[i + 1])
    BY <1>2, <2>1
  <2>3. CASE acc[i + 1] = None
    BY <1>1, <2>1, <2>3
  <2>4. CASE acc[i + 1] # None
    <3>1. acc[i] # None /\ ~ Refused(acc[i], sql[i + 1]) /\ acc[i + 1] = Effect(acc[i], sql[i + 1])
      BY <2>2, <2>4 DEF Execute
    <3>2. DbOK(acc[i]) /\ Keeps(d, acc[i], t)
      BY <1>5, <3>1
    <3>3. DbOK(acc[i + 1]) /\ Keeps(acc[i], acc[i + 1], t)
      BY <1>3, <2>1, <3>1, <3>2, EffectOK, OtherKeeps
    <3>4. Keeps(d, acc[i + 1], t)
      BY <3>2, <3>3 DEF Keeps
    <3> QED BY <1>1, <2>1, <3>3, <3>4
  <2> QED BY <2>3, <2>4
<1>6. n \in T
  <2>1. \A i \in 0 .. n : i \in T /\ i < n => i + 1 \in T
    BY <1>5
  <2> HIDE DEF T
  <2>2. \A i \in 0 .. n : i \in T
    BY <1>1, <1>4, <2>1, UpTo
  <2> QED BY <1>1, <2>2
<1> QED BY <1>2, <1>6

LEMMA AgreesStill ==
    ASSUME NEW m, NEW d, NEW e, Agrees(d, m), Keeps(d, e, TableOf[m.name])
    PROVE  Agrees(e, m)
<1>1. \A x \in DOMAIN m.fields : m.fields[x].col \in Cols(m.fields)
  BY DEF Cols
<1> QED BY <1>1 DEF Agrees, Keeps, Matches, Fits

\* Two declarations are no text.
LEMMA GarbledFails == \A d : Executed(d, Garbled) = None
<1> SUFFICES ASSUME NEW d PROVE Executed(d, Garbled) = None
  OBVIOUS
<1> DEFINE n == 1
           sql == Garbled
<1>1. n \in Nat /\ DOMAIN sql = 1 .. n /\ sql[n].kind = "garbled"
  BY DEF Garbled
<1> HIDE DEF n, sql
<1>2. PICK acc : /\ acc[0] = d
                 /\ \A i \in 1 .. n : acc[i] = Execute(acc[i - 1], sql[i])
                 /\ Executed(d, sql) = acc[n]
  BY <1>1, Execution
<1>3. n = 1
  BY DEF n
<1>4. Executed(d, sql) = Execute(acc[0], sql[n])
  BY <1>2, <1>3
<1>5. Executed(d, sql) = None
  BY <1>1, <1>4, Accepted DEF Execute
<1> QED BY <1>5 DEF sql

LEMMA MigrateDevMatches ==
    ASSUME Types, MigratedMatches, NEW sql \in DevMigrationSQL(snapshot, file),
           Executed(db, sql) # None, Applied(Executed(db, sql)),
           UNCHANGED file
    PROVE  MigratedMatches'
<1> DEFINE d == Executed(db, sql)
<1>1. file \in Schemas /\ snapshot \in Schemas \cup {None} /\ IsDb(db)
  BY DEF Types, DbOK
<1>2. /\ db' = d /\ snapshot' = file
      /\ astray' = (astray \ Drops(snapshot, file))
                      \cup Found(snapshot, file) \cup Overlooked(snapshot, file)
  BY DEF Applied
<1> HIDE DEF d
<1>3. ASSUME NEW m \in ToSet(file.models), TableOf[m.name] \notin astray'
      PROVE  Agrees(d, m)
  <2> DEFINE t == TableOf[m.name]
  <2>1. m.name \in Names(file) /\ ModelOf(file, m.name) = m
    BY <1>1, <1>3, ModelOfName
  <2>2. /\ t \notin Found(snapshot, file) /\ t \notin Overlooked(snapshot, file)
        /\ t \in astray => t \in Drops(snapshot, file)
    BY <1>2, <1>3
  <2>3. m.name \notin Known(snapshot) => t \notin DOMAIN db.tables \cup Drops(snapshot, file)
    BY <2>1, <2>2 DEF Found, Creates
  <2>4. CASE snapshot = None
    <3>1. sql = FullSchema(file) /\ Len(sql) <= 1
      <4>1. sql = FirstMigrationSQL(file) /\ sql # Garbled
        BY <2>4, GarbledFails DEF DevMigrationSQL
      <4> QED BY <4>1 DEF FirstMigrationSQL
    <3>2. t \notin DOMAIN db.tables
      BY <2>3, <2>4 DEF Known
    <3> QED BY <1>1, <1>3, <3>1, <3>2, FirstMigrated DEF d
  <2>5. CASE snapshot # None
    <3>1. Known(snapshot) = Names(snapshot) /\ snapshot \in Schemas
          /\ sql \in GenerateMigrationSQL(snapshot, file)
      BY <1>1, <2>5 DEF Known, DevMigrationSQL
    <3>2. ASSUME m.name \in Names(snapshot)
          PROVE  /\ Agrees(db, ModelOf(snapshot, m.name))
                 /\ Compared(FieldsOf(snapshot, m.name), m.fields)
      <4>1. t \notin Drops(snapshot, file)
        <5> SUFFICES ASSUME NEW k \in Names(snapshot) \ Names(file) PROVE TableOf[k] # t
          BY <3>1 DEF Drops
        <5> QED BY <2>1, <3>1, <3>2, ModelOfName
      <4>2. /\ ModelOf(snapshot, m.name) \in ToSet(snapshot.models)
            /\ ModelOf(snapshot, m.name).name = m.name
        BY <3>1, <3>2, ModelOfName
      <4>3. Agrees(db, ModelOf(snapshot, m.name))
        BY <2>2, <2>5, <4>1, <4>2, MatchesEach
      <4>4. Compared(FieldsOf(snapshot, m.name), m.fields)
        <5>1. m.name \in Known(snapshot) \cap Names(file) /\ FieldsOf(file, m.name) = m.fields
          BY <2>1, <3>1, <3>2 DEF FieldsOf
        <5> QED BY <2>2, <5>1 DEF Overlooked, Compared
      <4> QED BY <4>3, <4>4
    <3> QED BY <1>1, <1>3, <2>3, <2>5, <3>1, <3>2, LaterMigrated DEF d
  <2> QED BY <2>4, <2>5
<1>4. (\A m \in ToSet(snapshot.models) : TableOf[m.name] \notin astray => Agrees(db, m))'
  BY <1>2, <1>3 DEF Agrees
<1>5. (MigratedMatches <=>
          (snapshot # None =>
             \A m \in ToSet(snapshot.models) : TableOf[m.name] \notin astray => Agrees(db, m)))'
  BY MatchesEach, PTL
<1> QED BY <1>4, <1>5

\* SQL that belongs to no snapshot.
LEMMA StraysMatch ==
    ASSUME Types, MigratedMatches, NEW sql \in Seq(AnyStatement), Executed(db, sql) # None,
           Strays(Executed(db, sql), sql), UNCHANGED snapshot
    PROVE  MigratedMatches'
<1>1. db' = Executed(db, sql) /\ astray' = astray \cup TablesOf(sql) /\ DbOK(db)
  BY DEF Strays, Types
<1>2. ASSUME snapshot # None, NEW m \in ToSet(snapshot.models), TableOf[m.name] \notin astray'
      PROVE  Agrees(db', m)
  <2>1. Agrees(db, m)
    BY <1>1, <1>2, MatchesEach
  <2>2. Keeps(db, db', TableOf[m.name])
    BY <1>1, <1>2, TextKeeps
  <2> QED BY <2>1, <2>2, AgreesStill
<1>3. (MigratedMatches <=>
          (snapshot # None =>
             \A m \in ToSet(snapshot.models) : TableOf[m.name] \notin astray => Agrees(db, m)))'
  BY MatchesEach, PTL
<1> QED BY <1>2, <1>3

\* A snapshot whose SQL was not executed.
LEMMA UnexecutedMatches ==
    ASSUME Types, MigratedMatches, UNCHANGED db, snapshot' \in Schemas,
           astray' = astray \cup NewlyDeclared(snapshot, snapshot')
    PROVE  MigratedMatches'
<1>1. ASSUME NEW m \in ToSet(snapshot'.models), TableOf[m.name] \notin astray'
      PROVE  Agrees(db, m)
  <2> DEFINE n == m.name
             k == ModelOf(snapshot, n)
  <2>1. n \in Names(snapshot') /\ ModelOf(snapshot', n) = m
    BY ModelOfName
  <2>2. TableOf[n] \notin astray /\ n \in Known(snapshot)
        /\ FieldsOf(snapshot, n) = FieldsOf(snapshot', n)
    BY <1>1, <2>1 DEF NewlyDeclared
  <2>3. snapshot # None /\ snapshot \in Schemas /\ n \in Names(snapshot)
    BY <2>2 DEF Known, Types
  <2>4. k \in ToSet(snapshot.models) /\ k.name = n
    BY <2>3, ModelOfName
  <2>5. k.fields = m.fields
    BY <2>1, <2>2 DEF FieldsOf
  <2>6. Agrees(db, k)
    BY <2>2, <2>3, <2>4, MatchesEach
  <2> HIDE DEF k
  <2> QED BY <2>4, <2>5, <2>6 DEF Agrees
<1>2. (MigratedMatches <=>
          (snapshot # None =>
             \A m \in ToSet(snapshot.models) : TableOf[m.name] \notin astray => Agrees(db, m)))'
  BY MatchesEach, PTL
<1> QED BY <1>1, <1>2

LEMMA MatchesKept == Types /\ MigratedMatches /\ [Next]_vars => MigratedMatches'
<1> SUFFICES ASSUME Types, MigratedMatches, [Next]_vars PROVE MigratedMatches'
  OBVIOUS
<1>1. CASE UNCHANGED <<snapshot, db, astray>>
  BY <1>1 DEF MigratedMatches
<1>2. CASE Edit \/ StartPush \/ PushDone \/ UNCHANGED vars
  BY <1>1, <1>2 DEF Edit, StartPush, PushDone, vars
<1>3. CASE MigrateDev
  <2>1. ASSUME UNCHANGED file, NEW sql \in DevMigrationSQL(snapshot, file), Interrupted(sql)
        PROVE  MigratedMatches'
    <3>1. sql \in Seq(AnyStatement)
      BY <2>1, MigrationSQL DEF Types
    <3>2. /\ UNCHANGED db
          /\ \/ UNCHANGED <<snapshot, astray>>
             \/ /\ snapshot' \in Schemas
                /\ astray' = astray \cup NewlyDeclared(snapshot, snapshot')
      BY <2>1, <3>1, InterruptedLeaves
    <3> QED BY <1>1, <3>2, UnexecutedMatches
  <2>2. ASSUME NEW sql \in DevMigrationSQL(snapshot, file), Executed(db, sql) # None,
               CommitLost(Executed(db, sql), sql)
        PROVE  MigratedMatches'
    <3>1. sql \in Seq(AnyStatement)
      BY MigrationSQL DEF Types
    <3> QED BY <2>2, <3>1, StraysMatch DEF CommitLost
  <2> QED BY <1>1, <1>3, <2>1, <2>2, Migrated, MigrateDevMatches
<1>5. CASE Deploy
  <2>1. /\ unapplied # <<>> /\ Executed(db, Head(unapplied)) # None /\ UNCHANGED snapshot
        /\ Strays(Executed(db, Head(unapplied)), Head(unapplied))
    BY <1>5 DEF Deploy
  <2>2. Head(unapplied) \in Seq(AnyStatement)
    BY <2>1 DEF Types
  <2> QED BY <2>1, <2>2, StraysMatch
<1>4. CASE PushStep
  <2> DEFINE s == Head(push.sql)
  <2>1. /\ UNCHANGED <<snapshot, astray>> /\ push.sql # <<>>
        /\ db' = db \/ db' = Effect(db, s)
    BY <1>4 DEF PushStep
  <2>2. CASE db' = db
    BY <1>1, <2>1, <2>2
  <2>3. CASE db' = Effect(db, s)
    <3>1. s.kind \in {"createType", "createTable"}
      <4>1. push.sql \in Seq(AllStatements)
        BY DEF Types
      <4>2. s \in AllStatements
        BY <2>1, <4>1
      <4> QED BY <4>2, CreateKinds DEF AllStatements
    <3>2. /\ DOMAIN db.tables \subseteq DOMAIN db'.tables
          /\ \A t \in DOMAIN db.tables : db'.tables[t] = db.tables[t]
      <4>1. IsDb(db)
        BY DEF Types, DbOK
      <4> HIDE DEF s
      <4> QED BY <2>3, <3>1, <4>1, CreateEffect
    <3> QED BY <2>1, <3>2 DEF MigratedMatches
  <2> QED BY <2>1, <2>2, <2>3
<1> QED BY <1>2, <1>3, <1>4, <1>5 DEF Next

\* What migrations produce, in every order of the generated statements and after every
\* sequence of edits, pushes and migrations that are applied, refused, killed or left half
\* written: a table of the snapshot has exactly the columns of its model, but for those that
\* went astray.
THEOREM MigrationsMatch == Spec => []MigratedMatches
<1>1. Init => MigratedMatches
  BY DEF Init, MigratedMatches
<1> QED BY <1>1, MatchesKept, TypesInvariant, PTL DEF Spec

-----------------------------------------------------------------------------
(* The order of the statements                                              *)

\* There is a text.
LEMMA SomeOrder ==
    ASSUME NEW K, IsFiniteSet(K), NEW f, DOMAIN f = K
    PROVE  InAnyOrder({f[x] : x \in K}) # {}
<1> DEFINE S == {f[x] : x \in K}
<1>1. IsFiniteSet(S)
  BY FiniteImage
<1> HIDE DEF S
<1>2. SetToSeqs(S) # {}
  BY <1>1, Enumerable
<1>3. InAnyOrder(S) # {}
  BY <1>2 DEF InAnyOrder
<1> QED BY <1>3 DEF S

LEMMA SomeFollowed ==
    ASSUME NEW A, A # {}, NEW B, B # {}
    PROVE  Followed(A, B) # {}
<1>1. PICK a \in A, b \in B : TRUE
  OBVIOUS
<1>2. a \o b \in Followed(A, B)
  BY DEF Followed
<1> QED BY <1>2

LEMMA SomeFieldText ==
    ASSUME NEW from \in Schemas, NEW to \in Schemas, NEW n \in Both(from, to)
    PROVE  FieldSql(from, to, n) # {}
<1> DEFINE F == FieldsOf(from, n)
           G == FieldsOf(to, n)
           t == TableOf[n]
           adds == {<<AddColumn(t, G[x])>> : x \in DOMAIN G \ DOMAIN F}
           drops == {<<DropColumn(t, F[x])>> : x \in DOMAIN F \ DOMAIN G}
           alters == {AlterColumn(t, F[x], G[x]) : x \in Alterations(F, G)}
<1>1. IsFiniteSet(DOMAIN F) /\ IsFiniteSet(DOMAIN G)
  BY FiniteSchema DEF Both
<1>2. FieldSql(from, to, n) = Followed(InAnyOrder(adds), Followed(InAnyOrder(drops), InAnyOrder(alters)))
  BY DEF FieldSql
<1> HIDE DEF F, G
<1>3. InAnyOrder(adds) # {}
  <2> DEFINE K == DOMAIN G \ DOMAIN F
             f == [x \in K |-> <<AddColumn(t, G[x])>>]
  <2>1. IsFiniteSet(K) /\ DOMAIN f = K
    BY <1>1, FS_Difference
  <2>2. {f[x] : x \in K} = adds
    OBVIOUS
  <2> HIDE DEF K, f, adds
  <2> QED BY <2>1, <2>2, SomeOrder
<1>4. InAnyOrder(drops) # {}
  <2> DEFINE K == DOMAIN F \ DOMAIN G
             f == [x \in K |-> <<DropColumn(t, F[x])>>]
  <2>1. IsFiniteSet(K) /\ DOMAIN f = K
    BY <1>1, FS_Difference
  <2>2. {f[x] : x \in K} = drops
    OBVIOUS
  <2> HIDE DEF K, f, drops
  <2> QED BY <2>1, <2>2, SomeOrder
<1>5. InAnyOrder(alters) # {}
  <2> DEFINE K == Alterations(F, G)
             f == [x \in K |-> AlterColumn(t, F[x], G[x])]
  <2>1. IsFiniteSet(K) /\ DOMAIN f = K
    BY <1>1, FS_Subset DEF Alterations
  <2>2. {f[x] : x \in K} = alters
    OBVIOUS
  <2> HIDE DEF K, f, alters
  <2> QED BY <2>1, <2>2, SomeOrder
<1> HIDE DEF adds, drops, alters
<1> QED BY <1>2, <1>3, <1>4, <1>5, SomeFollowed

LEMMA SomeText ==
    ASSUME NEW from \in Schemas, NEW to \in Schemas
    PROVE  GenerateMigrationSQL(from, to) # {}
<1> DEFINE creates == {<<CreateTable(ModelOf(to, n))>> : n \in Names(to) \ Names(from)}
           drops == {<<DropTable(TableOf[n])>> : n \in Names(from) \ Names(to)}
           newTypes == {<<CreateType(e)>> : e \in ToSet(to.enums) \ ToSet(from.enums)}
           oldTypes == {<<DropType(e)>> : e \in ToSet(from.enums) \ ToSet(to.enums)}
<1>1. GenerateMigrationSQL(from, to) =
         Followed(Followed(InAnyOrder(creates), InAnyOrder(drops)),
            Followed(FieldChanges(from, to), Followed(InAnyOrder(newTypes), InAnyOrder(oldTypes))))
  BY DEF GenerateMigrationSQL
<1>2. InAnyOrder(creates) # {}
  <2> DEFINE K == Names(to) \ Names(from)
             f == [n \in K |-> <<CreateTable(ModelOf(to, n))>>]
  <2>1. IsFiniteSet(K) /\ DOMAIN f = K /\ {f[n] : n \in K} = creates
    BY FiniteStatements
  <2> HIDE DEF K, f, creates
  <2> QED BY <2>1, SomeOrder
<1>3. InAnyOrder(drops) # {}
  <2> DEFINE K == Names(from) \ Names(to)
             f == [n \in K |-> <<DropTable(TableOf[n])>>]
  <2>1. IsFiniteSet(K) /\ DOMAIN f = K /\ {f[n] : n \in K} = drops
    BY FiniteStatements
  <2> HIDE DEF K, f, drops
  <2> QED BY <2>1, SomeOrder
<1>4. InAnyOrder(newTypes) # {}
  <2> DEFINE K == ToSet(to.enums) \ ToSet(from.enums)
             f == [e \in K |-> <<CreateType(e)>>]
  <2>1. IsFiniteSet(K) /\ DOMAIN f = K /\ {f[e] : e \in K} = newTypes
    BY FiniteStatements
  <2> HIDE DEF K, f, newTypes
  <2> QED BY <2>1, SomeOrder
<1>5. InAnyOrder(oldTypes) # {}
  <2> DEFINE K == ToSet(from.enums) \ ToSet(to.enums)
             f == [e \in K |-> <<DropType(e)>>]
  <2>1. IsFiniteSet(K) /\ DOMAIN f = K /\ {f[e] : e \in K} = oldTypes
    BY FiniteStatements
  <2> HIDE DEF K, f, oldTypes
  <2> QED BY <2>1, SomeOrder
<1>6. FieldChanges(from, to) # {}
  <2> DEFINE both == Both(from, to)
             texts == UNION {FieldSql(from, to, n) : n \in both}
             c == [n \in both |-> CHOOSE sql \in FieldSql(from, to, n) : TRUE]
  <2>1. \A n \in both : c[n] \in FieldSql(from, to, n)
    BY SomeFieldText
  <2>2. c \in [both -> texts] /\ DOMAIN c = both
    BY <2>1
  <2>3. IsFiniteSet(both)
    BY FiniteSchema, FS_Intersection DEF Both
  <2>4. FieldChanges(from, to) =
           UNION {InAnyOrder({g[n] : n \in both}) :
                     g \in {g \in [both -> texts] : \A n \in both : g[n] \in FieldSql(from, to, n)}}
    BY DEF FieldChanges
  <2> HIDE DEF c, both, texts
  <2> DEFINE S == {c[n] : n \in both}
             All == {g \in [both -> texts] : \A n \in both : g[n] \in FieldSql(from, to, n)}
  <2>5. InAnyOrder(S) # {}
    <3>1. S = {c[n] : n \in both}
      OBVIOUS
    <3> HIDE DEF S
    <3> QED BY <2>2, <2>3, <3>1, SomeOrder
  <2>6. InAnyOrder(S) \subseteq FieldChanges(from, to)
    <3>1. c \in All
      BY <2>1, <2>2
    <3>2. InAnyOrder(S) \in {InAnyOrder({g[n] : n \in both}) : g \in All}
      BY <3>1
    <3>3. FieldChanges(from, to) = UNION {InAnyOrder({g[n] : n \in both}) : g \in All}
      BY <2>4
    <3> HIDE DEF S, All
    <3> QED BY <3>2, <3>3
  <2> QED BY <2>5, <2>6
<1> HIDE DEF creates, drops, newTypes, oldTypes
<1> QED BY <1>1, <1>2, <1>3, <1>4, <1>5, <1>6, SomeFollowed

\* NewReference says of models what Settled says of statements.
LEMMA NoNewReference ==
    ASSUME NEW from \in Schemas, NEW to \in Schemas, ~ NewReference(from, to)
    PROVE  Settled(db, Statements(from, to))
<1> DEFINE U == Statements(from, to)
<1>1. ASSUME NEW x \in U, x.kind = "createTable", x.table \notin DOMAIN db.tables
      PROVE  \E m \in ToSet(to.models) :
                /\ m.name \notin Names(from) /\ TableOf[m.name] \notin DOMAIN db.tables
                /\ x = CreateTable(m) /\ x.table = TableOf[m.name] /\ x.columns = Columns(m)
  <2>1. x \in Creating(from, to)
    BY <1>1, StatementKinds DEF Statements
  <2>2. PICK n \in Names(to) \ Names(from) : x = CreateTable(ModelOf(to, n))
    BY <2>1 DEF Creating
  <2>3. ModelOf(to, n) \in ToSet(to.models) /\ ModelOf(to, n).name = n
    BY ModelOfName
  <2>4. x.table = TableOf[n] /\ x.columns = Columns(ModelOf(to, n))
    BY <2>2, <2>3, TableStatements
  <2> QED BY <1>1, <2>2, <2>3, <2>4
<1>2. ASSUME NEW x \in U, x.kind = "createTable", x.table \notin DOMAIN db.tables,
             NEW y \in U, y.kind = "createTable", y.table \notin DOMAIN db.tables, x # y,
             NEW c \in DOMAIN x.columns, x.columns[c].ref # None
      PROVE  x.columns[c].ref.table # y.table
  <2>1. PICK m \in ToSet(to.models) :
                /\ m.name \notin Names(from) /\ TableOf[m.name] \notin DOMAIN db.tables
                /\ x = CreateTable(m) /\ x.table = TableOf[m.name] /\ x.columns = Columns(m)
    BY <1>1, <1>2
  <2>2. PICK k \in ToSet(to.models) :
                /\ k.name \notin Names(from) /\ TableOf[k.name] \notin DOMAIN db.tables
                /\ y = CreateTable(k) /\ y.table = TableOf[k.name] /\ y.columns = Columns(k)
    BY <1>1, <1>2
  <2>3. PICK z \in DOMAIN m.fields : x.columns[c] = Column(m.fields[z])
    <3> DEFINE C == Columns(m)
               F == m.fields
    <3>1. /\ DOMAIN C = {F[w].col : w \in DOMAIN F}
          /\ \A w \in DOMAIN F : C[F[w].col] = Column(F[w])
      BY <2>1, ColumnsOfModel
    <3>2. x.columns = C
      BY <2>1
    <3> HIDE DEF C, F
    <3>3. \E w \in DOMAIN F : C[c] = Column(F[w])
      BY <1>2, <3>1, <3>2
    <3> QED BY <3>2, <3>3 DEF F
  <2> DEFINE f == m.fields[z]
  <2>4. f \in Range(m.fields)
    BY <2>3 DEF Range
  <2> HIDE DEF f
  <2>5. Column(f).ref = IF f.ref = None THEN None ELSE At(TableOf[f.ref.model], f.ref.column)
    BY DEF Column
  <2>6. f.ref # None /\ x.columns[c].ref.table = TableOf[f.ref.model]
    BY <1>2, <2>3, <2>5, SameAt DEF f
  <2>7. f.ref.model \in Names(to) /\ k.name \in Names(to)
    <3>1. f.ref # None => \E n \in ToSet(to.models) : f.ref.model = n.name
      BY <2>4, <2>1, SchemaAssumption
    <3> QED BY <2>6, <3>1, ModelOfName DEF Names
  <2>8. m # k
    BY <1>2, <2>1, <2>2
  <2>9. f.ref.model # k.name
    BY <2>1, <2>2, <2>4, <2>6, <2>8 DEF NewReference
  <2> QED BY <2>2, <2>6, <2>7, <2>9, ModelOfName
<1> HIDE DEF U
<1>3. Settled(db, U)
  BY <1>2 DEF Settled
<1> QED BY <1>3 DEF U

\* The columns that a migration drops, or gives another type.
LEMMA ReshapedColumns ==
    ASSUME NEW from \in Schemas, NEW to \in Schemas, NEW t, NEW c,
           Reshapes(Statements(from, to), t, c)
    PROVE  At(t, c) \in Reshaped(from, to) /\ \E n \in Both(from, to) : t = TableOf[n]
<1>1. PICK s \in Statements(from, to) :
          s.kind \in {"dropColumn", "setType"} /\ s.table = t /\ s.column = c
  BY DEF Reshapes, OnColumn
<1>2. PICK n \in Both(from, to) : s \in FieldStatements(from, to, n)
  BY <1>1, StatementKinds DEF Statements, Changing
<1> DEFINE F == FieldsOf(from, n)
           G == FieldsOf(to, n)
           dropped == {At(TableOf[n], F[x].col) : x \in DOMAIN F \ DOMAIN G}
           retyped == {At(TableOf[n], G[x].col) :
                          x \in {y \in DOMAIN F \cap DOMAIN G : OtherType(F[y], G[y])}}
<1>3. t = TableOf[n]
  BY <1>1, <1>2, FieldStatementKinds DEF FieldStatements
<1>4. dropped \cup retyped \subseteq Reshaped(from, to)
  BY DEF Reshaped
<1>5. At(t, c) \in dropped \cup retyped
  <2>1. CASE s.kind = "dropColumn"
    <3>1. s \in Removing(from, to, n)
      BY <1>2, <2>1, FieldStatementKinds DEF FieldStatements
    <3>2. PICK x \in DOMAIN F \ DOMAIN G : s = DropColumn(TableOf[n], F[x])
      BY <3>1 DEF Removing, OldFields
    <3>3. c = F[x].col
      BY <1>1, <3>2, ColumnStatements
    <3> QED BY <1>3, <3>2, <3>3
  <2>2. CASE s.kind = "setType"
    <3>1. s \in AlteringAll(from, to, n)
      BY <1>2, <2>2, FieldStatementKinds DEF FieldStatements
    <3>2. PICK x \in DOMAIN F \cap DOMAIN G : s \in Altering(TableOf[n], F[x], G[x])
      BY <3>1 DEF AlteringAll, KeptFields
    <3>3. s = SetType(TableOf[n], G[x]) /\ OtherType(F[x], G[x])
      BY <2>2, <3>2, ColumnStatements DEF Altering
    <3>4. c = G[x].col
      BY <1>1, <3>3, ColumnStatements
    <3> QED BY <1>3, <3>2, <3>3, <3>4
  <2> QED BY <1>1, <2>1, <2>2
<1> HIDE DEF dropped, retyped
<1> QED BY <1>3, <1>4, <1>5

\* BothEnds says of schemas what Free says of statements.
LEMMA NotBothEnds ==
    ASSUME NEW from \in Schemas, NEW to \in Schemas, DbOK(db), ~ BothEnds(from, to)
    PROVE  Free(db, Statements(from, to))
<1> DEFINE U == Statements(from, to)
<1>1. SUFFICES ASSUME NEW u \in TablesAfter(db, U), NEW x \in DOMAIN Base(db, U, u),
                      KeyAfter(db, U, u, x) # None, Reshapes(U, u, x),
                      KeyAfter(db, U, u, x) # At(u, x),
                      Reshapes(U, KeyAfter(db, U, u, x).table, KeyAfter(db, U, u, x).column)
               PROVE  FALSE
  BY DEF Free
<1> DEFINE r == KeyAfter(db, U, u, x)
<1>2. At(u, x) \in Reshaped(from, to) /\ At(r.table, r.column) \in Reshaped(from, to)
  BY <1>1, ReshapedColumns
<1>3. CASE u \in DOMAIN db.tables
  <2>1. Base(db, U, u) = db.tables[u]
    BY <1>3 DEF Base
  <2>2. r = db.tables[u][x].ref
    BY <1>1, <2>1 DEF KeyAfter, RefAfter
  <2> HIDE DEF r
  <2>3. r # None /\ r # At(u, x)
    BY <1>1 DEF r
  <2>4. r = At(r.table, r.column) /\ r.table \in DOMAIN db.tables
    <3>1. IsRef(r) /\ Points(db.tables, r)
      BY <1>1, <1>3, <2>1, <2>2 DEF DbOK, SoundTable, Sound, Closed
    <3> QED BY <2>3, <3>1 DEF IsRef, Points
  <2>5. At(u, x) \in Referring(db, r.table, r.column)
    BY <1>1, <1>3, <2>1, <2>2, <2>3, <2>4, InReferring
  <2>6. r \in Reshaped(from, to)
    BY <1>2, <2>4
  <2> QED BY <1>2, <2>4, <2>5, <2>6 DEF BothEnds
<1>4. CASE u \notin DOMAIN db.tables
  <2>1. PICK n \in Both(from, to) : u = TableOf[n]
    BY <1>1, ReshapedColumns
  <2>2. PICK s \in U : s.kind = "createTable" /\ s.table = u
    BY <1>4 DEF TablesAfter
  <2>3. s \in Creating(from, to)
    BY <2>2, StatementKinds DEF Statements
  <2>4. PICK k \in Names(to) \ Names(from) : s = CreateTable(ModelOf(to, k))
    BY <2>3 DEF Creating
  <2>5. TableOf[k] = u
    BY <2>2, <2>4, ModelOfName, TableStatements
  <2> QED BY <2>1, <2>4, <2>5, ModelOfName DEF Both
<1> QED BY <1>3, <1>4

LEMMA OneOutcome ==
    ASSUME NoneApart, Types
    PROVE  OrderIrrelevant
<1> SUFFICES ASSUME snapshot # None, ~ NewReference(snapshot, file), ~ BothEnds(snapshot, file)
             PROVE  Cardinality({Executed(db, sql) : sql \in GenerateMigrationSQL(snapshot, file)}) = 1
  BY DEF OrderIrrelevant
<1> DEFINE U == Statements(snapshot, file)
           texts == GenerateMigrationSQL(snapshot, file)
           e == IF \E s \in U : RefusedAtAll(db, U, s) THEN None ELSE After(db, U)
<1>1. snapshot \in Schemas /\ file \in Schemas /\ DbOK(db)
  BY DEF Types
<1>2. Distinct(U) /\ Settled(db, U) /\ Free(db, U) /\ \A s \in U : StatementOK(s)
  BY <1>1, StatementsDistinct, StatementsOK, NoNewReference, NotBothEnds
<1>3. \A sql \in texts : IsText(sql, U)
  BY <1>1, MigrationText
<1>4. texts # {}
  BY <1>1, SomeText
<1> HIDE DEF U, texts
<1>5. \A sql \in texts : Executed(db, sql) = e
  BY <1>1, <1>2, <1>3, TextSettled
<1> HIDE DEF e
<1>6. {Executed(db, sql) : sql \in texts} = {e}
  BY <1>4, <1>5
<1>7. Cardinality({e}) = 1
  BY FS_Singleton
<1> QED BY <1>6, <1>7 DEF texts

\* DiffSchemas ranges over maps, so the order of the statements is random: it decides what
\* becomes of the database only when a new model refers to another, or when both columns of
\* a foreign key are dropped or get another type.
THEOREM OrderDoesNotMatter ==
    ASSUME NoneApart
    PROVE  Spec => []OrderIrrelevant
<1>1. Types => OrderIrrelevant
  BY OneOutcome
<1> QED BY <1>1, TypesInvariant, PTL

=============================================================================
