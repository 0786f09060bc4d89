--------------------------- MODULE Catalog_proofs ---------------------------
(***************************************************************************)
(* Proofs about module Catalog, for any rows, requests and bounds: the     *)
(* constraints of the database, that a sorted scan is complete and its way *)
(* back leads back, that what a device was given stays listed, and that    *)
(* the checks of the requests cover what the database would refuse.        *)
(***************************************************************************)
EXTENDS Catalog, Tables_proofs, FiniteSetTheorems

-----------------------------------------------------------------------------
(* Finite sets of ids in their order *)

Below(S, i) == {j \in S : j < i}
Above(S, i) == {j \in S : i < j}

\* There are fewer rows before an earlier row.
LEMMA BelowFacts ==
  ASSUME NEW S \in SUBSET Nat, IsFiniteSet(S)
  PROVE  /\ \A i \in S : Cardinality(Below(S, i)) \in Nat
         /\ \A i \in S : Cardinality(Below(S, i)) < Cardinality(S)
         /\ \A i, k \in S : i < k => Cardinality(Below(S, i)) < Cardinality(Below(S, k))
<1>0. \A T \in SUBSET S : IsFiniteSet(T) /\ Cardinality(T) \in Nat
  BY FS_Subset, FS_CardinalityType
<1>1. ASSUME NEW T \in SUBSET S, NEW U \in SUBSET T, NEW x \in T, x \notin U
      PROVE  Cardinality(U) < Cardinality(T)
  <2>1. IsFiniteSet(T) /\ U # T  BY <1>0, <1>1
  <2>2. Cardinality(U) <= Cardinality(T) /\ Cardinality(U) # Cardinality(T)
    BY <2>1, FS_Subset
  <2>3. Cardinality(U) \in Nat /\ Cardinality(T) \in Nat  BY <1>0
  <2>. QED  BY <2>2, <2>3
<1>2. ASSUME NEW i \in S
      PROVE  Cardinality(Below(S, i)) \in Nat /\ Cardinality(Below(S, i)) < Cardinality(S)
  <2>1. Below(S, i) \in SUBSET S /\ i \notin Below(S, i)  BY DEF Below
  <2>. QED  BY <1>0, <1>1, <2>1
<1>3. ASSUME NEW i \in S, NEW k \in S, i < k
      PROVE  Cardinality(Below(S, i)) < Cardinality(Below(S, k))
  <2>1. Below(S, k) \in SUBSET S  BY DEF Below
  <2>2. \A j \in S : j < i => j < k  BY <1>3
  <2>3. Below(S, i) \in SUBSET Below(S, k)  BY <2>2 DEF Below
  <2>4. i \in Below(S, k) /\ i \notin Below(S, i)  BY <1>3 DEF Below
  <2>. QED  BY <1>1, <2>1, <2>3, <2>4
<1>. QED  BY <1>2, <1>3

\* A finite set of ids has a last one.
LEMMA Greatest ==
  ASSUME NEW S \in SUBSET Nat, IsFiniteSet(S), S # {}
  PROVE  \E m \in S : \A n \in S : n <= m
<1> DEFINE T == {Cardinality(S) - Cardinality(Below(S, i)) : i \in S}
<1>1. Cardinality(S) \in Nat  BY FS_CardinalityType
<1>2. T \in SUBSET Nat /\ T # {}
  <2>1. ASSUME NEW i \in S  PROVE Cardinality(S) - Cardinality(Below(S, i)) \in Nat
    <3>1. Cardinality(Below(S, i)) \in Nat /\ Cardinality(Below(S, i)) < Cardinality(S)
      BY BelowFacts
    <3>. QED  BY <1>1, <3>1
  <2>. QED  BY <2>1
<1>3. PICK k \in T : \A n \in T : k <= n  BY <1>2, First
<1>4. PICK m \in S : k = Cardinality(S) - Cardinality(Below(S, m))  OBVIOUS
<1>5. ASSUME NEW n \in S  PROVE n <= m
  <2>1. k <= Cardinality(S) - Cardinality(Below(S, n))  BY <1>3
  <2>2. Cardinality(Below(S, n)) <= Cardinality(Below(S, m))
    BY <1>1, <1>4, <2>1, BelowFacts
  <2>3. ~ (m < n)  BY <2>2, BelowFacts
  <2>. QED  BY <2>3
<1>. QED  BY <1>5

\* The first n rows are n rows.
FirstRows(S, n) == {i \in S : Cardinality(Below(S, i)) < n}

LEMMA FirstRowsCount ==
  ASSUME NEW S \in SUBSET Nat, IsFiniteSet(S), NEW n \in Nat, n <= Cardinality(S)
  PROVE  Cardinality(FirstRows(S, n)) = n
<1> DEFINE Wrong == {k \in Nat : k <= Cardinality(S) /\ Cardinality(FirstRows(S, k)) # k}
<1>0. /\ Cardinality(S) \in Nat
      /\ \A T \in SUBSET S : IsFiniteSet(T) /\ Cardinality(T) \in Nat
  BY FS_Subset, FS_CardinalityType
<1>1. SUFFICES ASSUME Wrong # {}  PROVE FALSE
  OBVIOUS
<1>2. PICK k \in Wrong : \A m \in Wrong : k <= m
  <2>1. Wrong \in SUBSET Nat  OBVIOUS
  <2>. QED  BY <1>1, <2>1, First
<1>3. k # 0
  <2>0. \A i \in S : Cardinality(Below(S, i)) \in Nat  BY BelowFacts
  <2>1. \A i \in S : ~ (Cardinality(Below(S, i)) < 0)  BY <2>0
  <2>2. FirstRows(S, 0) = {}  BY <2>1 DEF FirstRows
  <2>3. 0 \notin Wrong  BY <2>2, FS_EmptySet
  <2>. QED  BY <1>2, <2>3
<1> DEFINE m == k - 1
           A == FirstRows(S, m)
<1>4. m \in Nat /\ m <= Cardinality(S) /\ m < k /\ m < Cardinality(S)
  BY <1>0, <1>2, <1>3
<1>5. Cardinality(A) = m
  <2>1. m \notin Wrong  BY <1>2, <1>4
  <2>. QED  BY <1>4, <2>1
<1>6. A \in SUBSET S  BY DEF FirstRows
<1>7. PICK r \in S \ A : \A s \in S \ A : r <= s
  <2>1. S \ A # {}  BY <1>4, <1>5, <1>6
  <2>2. S \ A \in SUBSET Nat  OBVIOUS
  <2>. QED  BY <2>1, <2>2, First
<1>8. Below(S, r) = A
  <2>1. ASSUME NEW j \in Below(S, r)  PROVE j \in A
    BY <1>7, <2>1 DEF Below
  <2>2. ASSUME NEW j \in A  PROVE j \in Below(S, r)
    <3>1. Cardinality(Below(S, j)) < m /\ ~ (Cardinality(Below(S, r)) < m)
      BY <1>6, <1>7 DEF FirstRows
    <3>2. j \in S /\ j # r  BY <1>6, <1>7
    <3>3. ~ (r < j)  BY <1>4, <1>7, <3>1, <3>2, BelowFacts
    <3>. QED  BY <1>7, <3>2, <3>3 DEF Below
  <2>. QED  BY <2>1, <2>2
<1>9. FirstRows(S, k) = A \cup {r}
  <2>1. ASSUME NEW j \in FirstRows(S, k)  PROVE j \in A \cup {r}
    <3>1. j \in S /\ Cardinality(Below(S, j)) < k  BY DEF FirstRows
    <3>2. CASE j \notin A /\ j # r
      <4>1. r < j  BY <1>7, <3>1, <3>2
      <4>2. m < Cardinality(Below(S, j))  BY <1>5, <1>8, <3>1, <4>1, BelowFacts
      <4>. QED  BY <1>4, <3>1, <4>2, BelowFacts
    <3>. QED  BY <3>2
  <2>2. ASSUME NEW j \in A \cup {r}  PROVE j \in FirstRows(S, k)
    <3>1. j \in S  BY <1>6, <1>7
    <3>2. Cardinality(Below(S, j)) <= m
      <4>1. CASE j = r  BY <1>4, <1>5, <1>8, <4>1
      <4>2. CASE j \in A
        <5>1. Cardinality(Below(S, j)) < m  BY <4>2 DEF FirstRows
        <5>2. Cardinality(Below(S, j)) \in Nat  BY <3>1, BelowFacts
        <5>. QED  BY <1>4, <5>1, <5>2
      <4>. QED  BY <4>1, <4>2
    <3>. QED  BY <1>4, <3>1, <3>2, BelowFacts DEF FirstRows
  <2>. QED  BY <2>1, <2>2
<1>10. Cardinality(FirstRows(S, k)) = m + 1
  BY <1>0, <1>5, <1>6, <1>7, <1>9, FS_AddElement
<1>. QED  BY <1>2, <1>4, <1>10

\* A row that is not among the first n comes after each of them.
LEMMA FirstRowsClosed ==
  ASSUME NEW S \in SUBSET Nat, IsFiniteSet(S), NEW n \in Nat,
         NEW i \in FirstRows(S, n), NEW j \in S, j \notin FirstRows(S, n)
  PROVE  i < j
<1>1. i \in S /\ Cardinality(Below(S, i)) < n /\ ~ (Cardinality(Below(S, j)) < n)
  BY DEF FirstRows
<1>2. Cardinality(Below(S, i)) \in Nat /\ Cardinality(Below(S, j)) \in Nat  BY <1>1, BelowFacts
<1>3. ~ (j < i)
  <2>1. j < i => Cardinality(Below(S, j)) < Cardinality(Below(S, i))  BY <1>1, BelowFacts
  <2>. QED  BY <1>1, <1>2, <2>1
<1>. QED  BY <1>1, <1>3

\* Fewer rows than the limit are all of them.
LEMMA FirstRowsAll ==
  ASSUME NEW S \in SUBSET Nat, IsFiniteSet(S), NEW n \in Nat, Cardinality(S) <= n
  PROVE  FirstRows(S, n) = S
<1>1. Cardinality(S) \in Nat  BY FS_CardinalityType
<1>2. \A i \in S : Cardinality(Below(S, i)) \in Nat /\ Cardinality(Below(S, i)) < Cardinality(S)
  BY BelowFacts
<1>3. \A i \in S : Cardinality(Below(S, i)) < n  BY <1>1, <1>2
<1>. QED  BY <1>3 DEF FirstRows

-----------------------------------------------------------------------------
(* Pages *)

\* The limit of the client's pages.
PageLimit == GetLimitOrDefault({Limit})

LEMMA LimitType == PageLimit \in Nat /\ PageLimit > 0
<1>1. (CHOOSE n \in {Limit} : TRUE) = Limit  OBVIOUS
<1>2. Limit \in Int  BY NumbersAssumption
<1>. QED  BY <1>1, <1>2 DEF PageLimit, GetLimitOrDefault, DefaultLimit, MaximumLimit

\* A request of the client: sorted, with its limit and without an offset.
Sorted(q) == q.sorts # {} /\ q.offset = {} /\ q.limit = {Limit}

\* A page read forwards, for rows in any number: the first rows beyond the
\* cursor, all of them when there is no next cursor, and otherwise as many as
\* the limit, the last of which is the next cursor.
LEMMA ForwardPage ==
  ASSUME NEW R \in SUBSET Nat, IsFiniteSet(R), NEW default, NEW q, Sorted(q), ~ IsPrev(q)
  PROVE  LET p == Page(R, default, q)
             S == Selected(R, q)
         IN  /\ p.items = FirstRows(S, PageLimit)
             /\ p.next = {} => p.items = S
             /\ p.next # {} =>
                  /\ Cardinality(p.items) = PageLimit
                  /\ \E m \in p.items : p.next = {m} /\ (\A i \in p.items : i <= m)
             /\ p.prev = IF q.next = {} THEN {} ELSE {i \in p.items : \A j \in p.items : i <= j}
<1> DEFINE S == Selected(R, q)
           key == BuildOrderByClause(q.sorts, S, default)
           items == Returned(S, key, q, PageLimit)
           more == Cardinality(S) > GetOffset(q.offset) + PageLimit
           p == Page(R, default, q)
<1>0. S \in SUBSET Nat /\ IsFiniteSet(S) /\ Cardinality(S) \in Nat
  <2>1. S \in SUBSET R  BY DEF Selected
  <2>. QED  BY <2>1, FS_Subset, FS_CardinalityType
<1>1. GetOffset(q.offset) = 0  BY DEF Sorted, GetOffset
<1>2. IsPrev(q) = FALSE  BY DEF IsPrev
<1>3. key = [i \in S |-> 0]  BY DEF BuildOrderByClause, Sorted
<1>4. \A i, j \in S : Precedes(key, FALSE, i, j) <=> i < j
  <2>1. \A i \in S : key[i] = 0 /\ i \in Nat  BY <1>0, <1>3
  <2> HIDE DEF key, S
  <2>. QED  BY <2>1 DEF Precedes
<1>5. items = FirstRows(S, PageLimit)
  <2>1. \A i \in S : {j \in S : Precedes(key, FALSE, j, i)} = Below(S, i)
    <3> HIDE DEF key, S
    <3>. QED  BY <1>4 DEF Below
  <2>2. \A i \in S : Cardinality(Below(S, i)) \in Nat  BY <1>0, BelowFacts
  <2>3. \A c \in Nat : c \in 0..(0 + PageLimit - 1) <=> c < PageLimit  BY LimitType
  <2>4. items = {i \in S : Cardinality({j \in S : Precedes(key, FALSE, j, i)})
                             \in 0..(0 + PageLimit - 1)}
    BY <1>1, <1>2 DEF Returned, Places
  <2> HIDE DEF key, S, items
  <2>. QED  BY <2>1, <2>2, <2>3, <2>4 DEF FirstRows
<1>6. /\ p.items = items
      /\ p.next = IF more THEN LastOf(items, key, FALSE) ELSE {}
      /\ p.prev = IF q.next # {} THEN FirstOf(items, key, FALSE) ELSE {}
  <2>1. GetLimitOrDefault(q.limit) = PageLimit  BY DEF Sorted, PageLimit
  <2>. QED  BY <1>2, <2>1 DEF Page
<1>7. items \in SUBSET S /\ items \in SUBSET Nat
  <2> HIDE DEF key, S, items
  <2>. QED  BY <1>0, <1>5 DEF FirstRows
<1>8. /\ LastOf(items, key, FALSE) = {i \in items : \A j \in items : j <= i}
      /\ FirstOf(items, key, FALSE) = {i \in items : \A j \in items : i <= j}
  <2> HIDE DEF key, S, items
  <2>1. \A i, j \in items : j # i => /\ (~FALSE = Precedes(key, FALSE, i, j)) <=> i <= j
                                     /\ (~FALSE = Precedes(key, FALSE, j, i)) <=> j <= i
    <3>1. SUFFICES ASSUME NEW i \in items, NEW j \in items, j # i
          PROVE  /\ (~FALSE = Precedes(key, FALSE, i, j)) <=> i <= j
                 /\ (~FALSE = Precedes(key, FALSE, j, i)) <=> j <= i
      OBVIOUS
    <3>2. Precedes(key, FALSE, i, j) \in BOOLEAN /\ Precedes(key, FALSE, j, i) \in BOOLEAN
      BY DEF Precedes
    <3>3. /\ (~FALSE = Precedes(key, FALSE, i, j)) <=> Precedes(key, FALSE, i, j)
          /\ (~FALSE = Precedes(key, FALSE, j, i)) <=> Precedes(key, FALSE, j, i)
      BY <3>2
    <3>4. /\ Precedes(key, FALSE, i, j) <=> i < j
          /\ Precedes(key, FALSE, j, i) <=> j < i
      BY <1>4, <1>7
    <3>5. (i < j <=> i <= j) /\ (j < i <=> j <= i)  BY <1>7, <3>1
    <3>. QED  BY <3>3, <3>4, <3>5
  <2>2. \A i \in items : i <= i  BY <1>7
  <2>3. \A i \in items :
          /\ (\A j \in items \ {i} : ~FALSE = Precedes(key, FALSE, j, i))
               <=> \A j \in items : j <= i
          /\ (\A j \in items \ {i} : ~FALSE = Precedes(key, FALSE, i, j))
               <=> \A j \in items : i <= j
    BY <2>1, <2>2
  <2>. QED  BY <2>3 DEF LastOf, FirstOf
<1>9. CASE ~ more
  <2>1. Cardinality(S) <= PageLimit
    <3> HIDE DEF S
    <3>. QED  BY <1>0, <1>1, <1>9, LimitType
  <2>2. items = S
    <3> HIDE DEF key, S, items
    <3>. QED  BY <1>0, <1>5, <2>1, LimitType, FirstRowsAll
  <2>3. p.next = {} /\ p.items = S  BY <1>6, <1>9, <2>2
  <2>4. p.prev = IF q.next = {} THEN {} ELSE {i \in p.items : \A j \in p.items : i <= j}
    <3> HIDE DEF key, S, items, p, more
    <3>. QED  BY <1>6, <1>8
  <2>5. p.items = FirstRows(S, PageLimit)  BY <1>5, <1>6
  <2> HIDE DEF key, items, more
  <2>. QED  BY <2>3, <2>4, <2>5
<1>10. CASE more
  <2> HIDE DEF key, S, items, p
  <2>0. p.prev = IF q.next = {} THEN {} ELSE {i \in p.items : \A j \in p.items : i <= j}
    BY <1>6, <1>8
  <2>1. Cardinality(items) = PageLimit
    BY <1>0, <1>1, <1>5, <1>10, LimitType, FirstRowsCount
  <2>2. IsFiniteSet(items)  BY <1>0, <1>7, FS_Subset
  <2>3. items # {}  BY <2>1, FS_EmptySet, LimitType
  <2>4. PICK m \in items : \A n \in items : n <= m  BY <1>7, <2>2, <2>3, Greatest
  <2>5. {i \in items : \A j \in items : j <= i} = {m}
    <3>1. \A i \in items : i <= m /\ m <= i => i = m  BY <1>7
    <3>. QED  BY <2>4, <3>1
  <2>6. /\ p.items = FirstRows(S, PageLimit) /\ Cardinality(p.items) = PageLimit
        /\ m \in p.items /\ p.next = {m} /\ \A i \in p.items : i <= m
    <3> HIDE DEF more
    <3>. QED  BY <1>5, <1>6, <1>8, <1>10, <2>1, <2>4, <2>5
  <2>. QED  BY <2>0, <2>6 DEF p, S
<1>. QED  BY <1>9, <1>10

\* The last n rows: those with fewer than n rows above them.
LastRows(S, n) == {i \in S : Cardinality(Above(S, i)) < n}

\* A page read backwards: the last rows before the cursor.
LEMMA BackwardPage ==
  ASSUME NEW R \in SUBSET Nat, IsFiniteSet(R), NEW default, NEW b \in Nat,
         NEW q, Sorted(q), q.next = {}, q.prev = {b}
  PROVE  Page(R, default, q).items = LastRows(Below(R, b), PageLimit)
<1> DEFINE S == Selected(R, q)
           key == BuildOrderByClause(q.sorts, S, default)
           items == Returned(S, key, q, PageLimit)
<1>1. GetOffset(q.offset) = 0  BY DEF Sorted, GetOffset
<1>2. IsPrev(q) = TRUE  BY DEF IsPrev
<1>3. S = Below(R, b)  BY <1>2 DEF Selected, Below
<1>4. S \in SUBSET Nat /\ IsFiniteSet(S)
  <2>1. S \in SUBSET R  BY DEF Selected
  <2>. QED  BY <2>1, FS_Subset
<1>5. key = [i \in S |-> 0]  BY DEF BuildOrderByClause, Sorted
<1>6. \A i \in S : {j \in S : Precedes(key, TRUE, j, i)} = Above(S, i)
  <2>1. \A i \in S : key[i] = 0 /\ i \in Nat  BY <1>4, <1>5
  <2> HIDE DEF key, S
  <2>2. \A i, j \in S : Precedes(key, TRUE, j, i) <=> i < j  BY <2>1 DEF Precedes
  <2>. QED  BY <2>2 DEF Above
<1>7. items = LastRows(S, PageLimit)
  <2>1. \A i \in S : Cardinality(Above(S, i)) \in Nat
    <3>1. ASSUME NEW i \in S  PROVE Cardinality(Above(S, i)) \in Nat
      <4>1. Above(S, i) \in SUBSET S  BY DEF Above
      <4>. QED  BY <1>4, <4>1, FS_Subset, FS_CardinalityType
    <3>. QED  BY <3>1
  <2>2. \A c \in Nat : c \in 0..(0 + PageLimit - 1) <=> c < PageLimit  BY LimitType
  <2>3. items = {i \in S : Cardinality({j \in S : Precedes(key, TRUE, j, i)})
                             \in 0..(0 + PageLimit - 1)}
    BY <1>1, <1>2 DEF Returned, Places
  <2> HIDE DEF key, S, items
  <2>. QED  BY <1>6, <2>1, <2>2, <2>3 DEF LastRows
<1>8. Page(R, default, q).items = items
  <2>1. GetLimitOrDefault(q.limit) = PageLimit  BY DEF Sorted, PageLimit
  <2>. QED  BY <2>1 DEF Page
<1>. QED  BY <1>3, <1>7, <1>8

\* W is a full page at the end of the rows T.
Window(W, T) ==
  /\ W \subseteq T /\ Cardinality(W) = PageLimit
  /\ \A i \in T \ W, w \in W : i < w

\* The last rows are the full page at the end.
LEMMA WindowIsLast ==
  ASSUME NEW T \in SUBSET Nat, IsFiniteSet(T), NEW W, Window(W, T)
  PROVE  LastRows(T, PageLimit) = W
<1>1. W \in SUBSET T /\ IsFiniteSet(W) /\ Cardinality(W) = PageLimit
  BY FS_Subset DEF Window
<1>2. \A i \in T : IsFiniteSet(Above(T, i)) /\ Cardinality(Above(T, i)) \in Nat
  <2>1. \A i \in T : Above(T, i) \in SUBSET T  BY DEF Above
  <2>. QED  BY <2>1, FS_Subset, FS_CardinalityType
<1>3. ASSUME NEW i \in W  PROVE Cardinality(Above(T, i)) < PageLimit
  <2>1. Above(T, i) \in SUBSET W \ {i}
    <3>1. \A j \in T : i < j => j \in W /\ j # i
      <4>1. \A j \in T \ W : j < i  BY DEF Window
      <4>2. \A j \in T : j \in Nat /\ i \in Nat  BY <1>1
      <4>. QED  BY <4>1, <4>2
    <3>. QED  BY <3>1 DEF Above
  <2>2. Cardinality(W \ {i}) = PageLimit - 1 /\ IsFiniteSet(W \ {i})
    BY <1>1, FS_RemoveElement
  <2>3. Cardinality(Above(T, i)) <= Cardinality(W \ {i})  BY <2>1, <2>2, FS_Subset
  <2>. QED  BY <1>1, <1>2, <2>2, <2>3, LimitType
<1>4. ASSUME NEW i \in T \ W  PROVE ~ (Cardinality(Above(T, i)) < PageLimit)
  <2>1. W \in SUBSET Above(T, i)
    <3>1. \A w \in W : i < w  BY DEF Window
    <3>. QED  BY <1>1, <3>1 DEF Above
  <2>2. Cardinality(W) <= Cardinality(Above(T, i))  BY <1>2, <2>1, FS_Subset
  <2>. QED  BY <1>1, <1>2, <2>2, LimitType
<1>. QED  BY <1>1, <1>3, <1>4 DEF LastRows

-----------------------------------------------------------------------------
(* The overlap warnings *)

\* Two schedules fire close to each other.
Close(rows, i, j) ==
  \E m \in Occurrences[rows[i].cron], n \in Occurrences[rows[j].cron] :
    m - n \in (1 - MinDistance)..(MinDistance - 1)

\* Of any two schedules that fire too close there are two that are neighbours in
\* time: the closest two, and of those the one with the first id behind.
LEMMA NeighboursFound ==
  ASSUME NEW rows, DOMAIN rows \subseteq Nat,
         \A i \in DOMAIN rows : rows[i].cron \in DOMAIN Occurrences
  PROVE  SourceWarnings(rows) # {} <=>
           \E i, j \in DOMAIN rows : i # j /\ Close(rows, i, j)
<1> DEFINE all == AllOccurrences(rows)
           Pair(o, p) == Before(o, p) /\ o.id # p.id /\ p.at - o.at < MinDistance
<1>1. /\ \A o \in all : /\ o.at \in Nat /\ o.id \in DOMAIN rows /\ o.id \in Nat
                        /\ o.at \in Occurrences[rows[o.id].cron]
      /\ \A i \in DOMAIN rows : \A m \in Occurrences[rows[i].cron] :
           [at |-> m, id |-> i] \in all
  BY OccurrencesAssumption DEF AllOccurrences
<1>2. ASSUME NEW w \in SourceWarnings(rows)
      PROVE  \E i, j \in DOMAIN rows : i # j /\ Close(rows, i, j)
  <2>1. /\ w[1] \in all /\ w[2] \in all /\ Before(w[1], w[2])
        /\ w[1].id # w[2].id /\ w[2].at - w[1].at < MinDistance
    BY DEF SourceWarnings
  <2> HIDE DEF all
  <2>2. w[1].at - w[2].at \in (1 - MinDistance)..(MinDistance - 1)
    BY <1>1, <2>1 DEF Before, MinDistance
  <2>3. Close(rows, w[1].id, w[2].id)  BY <1>1, <2>1, <2>2 DEF Close
  <2>. QED  BY <1>1, <2>1, <2>3
<1>3. ASSUME NEW i \in DOMAIN rows, NEW j \in DOMAIN rows, i # j, Close(rows, i, j)
      PROVE  SourceWarnings(rows) # {}
  <2> DEFINE Gaps == {n \in Nat : \E o, p \in all : Pair(o, p) /\ n = p.at - o.at}
  <2>1. \E o, p \in all : Pair(o, p)
    <3>1. PICK m \in Occurrences[rows[i].cron], n \in Occurrences[rows[j].cron] :
                 m - n \in (1 - MinDistance)..(MinDistance - 1)
      BY <1>3 DEF Close
    <3> DEFINE o == [at |-> m, id |-> i]
               p == [at |-> n, id |-> j]
    <3>2. o \in all /\ p \in all /\ o.at = m /\ p.at = n /\ o.id = i /\ p.id = j
      BY <1>1
    <3>3. m \in Nat /\ n \in Nat /\ i \in Nat /\ j \in Nat  BY <1>1, <3>2
    <3> HIDE DEF o, p, all
    <3>4. Pair(o, p) \/ Pair(p, o)
      BY <1>3, <3>1, <3>2, <3>3 DEF Before, MinDistance
    <3>. QED  BY <3>2, <3>4
  <2> HIDE DEF all
  <2>2. \A o, p \in all : Before(o, p) => p.at - o.at \in Nat
    BY <1>1 DEF Before
  <2>3. PICK d \in Gaps : \A n \in Gaps : d <= n
    <3>1. Gaps \in SUBSET Nat /\ Gaps # {}  BY <2>1, <2>2
    <3>. QED  BY <3>1, First
  <2> DEFINE Ends == {p.id : p \in {q \in all : \E o \in all : Pair(o, q) /\ d = q.at - o.at}}
  <2>4. PICK k \in Ends : \A n \in Ends : k <= n
    <3>1. Ends \in SUBSET Nat /\ Ends # {}  BY <1>1, <2>3
    <3>. QED  BY <3>1, First
  <2>5. PICK o \in all, p \in all : Pair(o, p) /\ d = p.at - o.at /\ k = p.id
    BY <2>4
  <2>6. ASSUME NEW q \in all, Before(o, q), Before(q, p)  PROVE FALSE
    <3>1. /\ o.at \in Nat /\ p.at \in Nat /\ q.at \in Nat
          /\ o.id \in Nat /\ p.id \in Nat /\ q.id \in Nat
      BY <1>1
    <3>2. o.at <= q.at /\ q.at <= p.at  BY <2>6, <3>1 DEF Before
    <3>3. CASE q.id # o.id
      <4>1. Pair(o, q)  BY <2>5, <2>6, <3>1, <3>2, <3>3 DEF MinDistance
      <4>2. d <= q.at - o.at
        <5>1. q.at - o.at \in Gaps  BY <2>2, <4>1
        <5>. QED  BY <2>3, <5>1
      <4>3. q.at = p.at  BY <2>5, <3>1, <3>2, <4>2
      <4>4. q.id \in Ends  BY <2>5, <4>1, <4>3
      <4>5. k <= q.id  BY <2>4, <4>4
      <4>6. q.id < p.id  BY <2>6, <3>1, <4>3 DEF Before
      <4>. QED  BY <2>5, <3>1, <4>5, <4>6
    <3>4. CASE q.id = o.id
      <4>1. Pair(q, p)  BY <2>5, <2>6, <3>1, <3>2, <3>4 DEF MinDistance
      <4>2. d <= p.at - q.at
        <5>1. p.at - q.at \in Gaps  BY <2>2, <4>1
        <5>. QED  BY <2>3, <5>1
      <4>3. q.at = o.at  BY <2>5, <3>1, <3>2, <4>2
      <4>. QED  BY <2>6, <3>1, <3>4, <4>3 DEF Before
    <3>. QED  BY <3>3, <3>4
  <2>7. <<o, p>> \in SourceWarnings(rows)
    <3>1. <<o, p>> \in all \X all /\ <<o, p>>[1] = o /\ <<o, p>>[2] = p  OBVIOUS
    <3>. QED  BY <2>5, <2>6, <3>1 DEF SourceWarnings, all
  <2>. QED  BY <2>7
<1>. QED  BY <1>2, <1>3

\* The warnings are there exactly when two schedules of one source fire close.
LEMMA WarningsFound ==
  ASSUME NEW rows, DOMAIN rows \subseteq Nat,
         \A i \in DOMAIN rows : rows[i].cron \in DOMAIN Occurrences
  PROVE  CheckOverlapWarnings(rows) # {} <=>
           \E i, j \in DOMAIN rows :
             i # j /\ rows[i].source = rows[j].source /\ Close(rows, i, j)
<1> DEFINE RowsOf(s) == [i \in {i \in DOMAIN rows : rows[i].source = s} |-> rows[i]]
           Sources == {rows[i].source : i \in DOMAIN rows}
<1>1. CheckOverlapWarnings(rows) # {} <=> \E s \in Sources : SourceWarnings(RowsOf(s)) # {}
  BY DEF CheckOverlapWarnings
<1>2. ASSUME NEW s \in Sources
      PROVE  SourceWarnings(RowsOf(s)) # {} <=>
               \E i, j \in DOMAIN rows : /\ i # j /\ rows[i].source = s /\ rows[j].source = s
                                         /\ Close(rows, i, j)
  <2>1. /\ DOMAIN RowsOf(s) = {i \in DOMAIN rows : rows[i].source = s}
        /\ \A i \in DOMAIN RowsOf(s) : RowsOf(s)[i] = rows[i]
    OBVIOUS
  <2> HIDE DEF RowsOf
  <2>2. DOMAIN RowsOf(s) \subseteq Nat  BY <2>1
  <2>3. \A i \in DOMAIN RowsOf(s) : RowsOf(s)[i].cron \in DOMAIN Occurrences  BY <2>1
  <2>4. SourceWarnings(RowsOf(s)) # {} <=>
          \E i, j \in DOMAIN RowsOf(s) : i # j /\ Close(RowsOf(s), i, j)
    BY <2>2, <2>3, NeighboursFound
  <2>5. \A i, j \in DOMAIN RowsOf(s) : Close(RowsOf(s), i, j) <=> Close(rows, i, j)
    BY <2>1 DEF Close
  <2>. QED  BY <2>1, <2>4, <2>5
<1> HIDE DEF RowsOf
<1>. QED  BY <1>1, <1>2

-----------------------------------------------------------------------------
(* The invariants *)

\* The rows have their types and meet the constraints, and their ids are given.
DatabaseOK ==
  /\ used \subseteq Ids /\ IsFiniteSet(used) /\ clock \in Nat
  /\ devices \in Table(used, Specs) /\ \A d \in DOMAIN devices : ValidDevice(devices[d])
  /\ sources \in Table(used, Nat)
  /\ subscriptions \in Table(used, Subscription)
  /\ schedules \in Table(used, Schedule)
  /\ jobs \in Table(used, Job)
  /\ images \in Table(used, Image)
  /\ Schema

SubscriptionOps == {"create subscription", "update subscription"}
ScheduleOps     == {"create schedule", "update schedule"}
DeviceOps       == {"create device", "update device"}
Creates         == {"create subscription", "create schedule", "create device"}

\* A request under way has what its steps need: the id of its row, but for one
\* still to be created, and a valid row to write.
Shaped(r) ==
  /\ r \in RequestType
  /\ r.step = "idle" => r = NoRequest
  /\ r.step # "idle" => r.op \in Ops
  /\ r.step # "answered" => r.answer = "none"
  /\ r.step \in {"device", "duplicate"} => r.op \in SubscriptionOps
  /\ r.step = "source" => r.op \in SubscriptionOps \cup ScheduleOps
  /\ r.step = "slug" => r.op \in DeviceOps
  /\ r.step = "warn" => r.op \in ScheduleOps
  /\ r.step = "existing" => r.op \notin Creates
  /\ r.step \notin {"idle", "answered"} =>
       /\ IF r.op \in Creates /\ r.step \notin {"read", "warn"}
          THEN r.id = {} ELSE \E i \in Ids : r.id = {i}
       /\ r.op \in SubscriptionOps => \E s \in r.row : r.row = {s} /\ s \in Subscription
       /\ r.op \in ScheduleOps => \E s \in r.row : r.row = {s} /\ s \in Schedule
       /\ r.op \in DeviceOps => \E x \in r.row : r.row = {x} /\ x \in Specs /\ ValidDevice(x)

RequestsOK ==
  /\ requests \in [Threads -> RequestType] /\ overtaken \in [Threads -> BOOLEAN]
  /\ \A t \in Threads : Shaped(requests[t])

Overlapping(scheds) ==
  \E i, j \in DOMAIN scheds :
    i # j /\ scheds[i].source = scheds[j].source /\ Close(scheds, i, j)

\* What the checks of a request have found in the tables.
Found(r, devs, srcs, subs, scheds) ==
  /\ r.op \in SubscriptionOps /\ r.step \in {"source", "duplicate", "write"} =>
       \A s \in r.row : s.device \in DOMAIN devs
  /\ r.op \in SubscriptionOps /\ r.step \in {"duplicate", "write"} =>
       \A s \in r.row : s.source \in DOMAIN srcs
  /\ r.op \in ScheduleOps /\ r.step = "write" => \A s \in r.row : s.source \in DOMAIN srcs
  /\ r.op \in SubscriptionOps /\ r.step = "write" =>
       \A s \in r.row, i \in DOMAIN subs \ r.id :
         ~ (subs[i].device = s.device /\ subs[i].source = s.source)
  /\ r.op \in DeviceOps /\ r.step = "write" =>
       \A x \in r.row, d \in DOMAIN devs \ r.id : devs[d].slug # x.slug
  /\ r.step \in {"read", "warn"} =>
       /\ r.op = "create subscription" => r.id \subseteq DOMAIN subs
       /\ r.op = "create schedule" => r.id \subseteq DOMAIN scheds
       /\ r.op = "create device" => r.id \subseteq DOMAIN devs
  /\ r.step = "answered" =>
       /\ r.answer # "server error"
       /\ r.op \in Creates => r.answer # "not found"
       /\ r.op \in ScheduleOps /\ r.answer = "ok" => r.warned = Overlapping(scheds)

\* It holds as long as nobody else writes.
ChecksOK ==
  \A t \in Threads :
    ~ overtaken[t] => Found(requests[t], devices, sources, subscriptions, schedules)

\* The scan is of one of the listings.
ScanOK ==
  /\ DOMAIN scan = {"at", "listing", "device", "filter", "sorts", "cursor", "back", "seen", "twice",
                    "last", "before", "turned"}
  /\ scan.at \in {"idle", "reading", "done", "turned", "failed"}
  /\ scan.listing \in {"images", "device images", "subscriptions", "schedules", "jobs", "devices",
                       "sources"}
  /\ scan.listing = "device images" => \E d \in Ids : scan.device = {d}
  /\ scan.at # "idle" =>
       {"adult", "favorite", "minWidth", "maxWidth", "minHeight", "maxHeight", "minSize",
        "maxSize", "words"} \subseteq DOMAIN scan.filter
  /\ scan.seen \subseteq used

\* Beyond the cursor nothing is read; before it nothing that stayed is missed.
Followed ==
  /\ steady \subseteq Listed
  /\ scan.at = "reading" =>
       IF scan.cursor = {} THEN scan.seen = {}
       ELSE \E c \in used : /\ scan.cursor = {c}
                            /\ \A r \in scan.seen : r <= c
                            /\ \A r \in steady : r \in scan.seen \/ c < r
  /\ scan.at = "done" => steady \subseteq scan.seen

\* While the listing stays as it is, the last page ends at the cursor and the one
\* before it ends where the last one begins.
Windows ==
  /\ scan.at = "reading" => \A c \in scan.cursor : Window(scan.last, {i \in Listed : i <= c})
  /\ scan.at \in {"reading", "done"} /\ scan.back # {} =>
       \E b \in Listed : scan.back = {b} /\ Window(scan.before, Below(Listed, b))
  /\ scan.at = "turned" => scan.turned = scan.before

\* The scan with a sort, which makes the order that of the ids.
ScanInv ==
  /\ ~ scan.twice
  /\ scan.at # "idle" => /\ scan.sorts # {}
                         /\ Followed
                         /\ calm => Windows
                         /\ scan.listing = "device images" /\ NoFilter(scan.filter)
                              => delivered \subseteq steady

IInv == DatabaseOK /\ RequestsOK /\ ChecksOK /\ ScanOK

-----------------------------------------------------------------------------
(* The database *)

\* The one member of a set.
LEMMA OnlyOne == ASSUME NEW x  PROVE Only({x}) = x
BY DEF Only

\* What a request is about, where its step needs it.
LEMMA RequestFacts ==
  ASSUME RequestsOK, NEW t \in Threads, requests[t].step \notin {"idle", "answered"}
  PROVE  /\ requests[t].op \in Ops /\ requests[t].id \subseteq Ids
         /\ requests[t].op \notin Creates =>
              OneOf(t, "id") \in Ids /\ requests[t].id = {OneOf(t, "id")}
         /\ requests[t].op \in SubscriptionOps =>
              OneOf(t, "row") \in Subscription /\ requests[t].row = {OneOf(t, "row")}
         /\ requests[t].op \in ScheduleOps =>
              OneOf(t, "row") \in Schedule /\ requests[t].row = {OneOf(t, "row")}
         /\ requests[t].op \in DeviceOps =>
              /\ OneOf(t, "row") \in Specs /\ ValidDevice(OneOf(t, "row"))
              /\ requests[t].row = {OneOf(t, "row")}
<1>1. Shaped(requests[t])  BY DEF RequestsOK
<1>2. requests[t] \in RequestType  BY <1>1 DEF Shaped
<1>3. OneOf(t, "id") = Only(requests[t].id) /\ OneOf(t, "row") = Only(requests[t].row)
  BY DEF OneOf
<1>4. requests[t].op \notin Creates => \E i \in Ids : requests[t].id = {i}
  BY <1>1 DEF Shaped
<1>5. requests[t].op \in Ops /\ requests[t].id \subseteq Ids
  BY <1>1, <1>2 DEF Shaped, RequestType
<1>6. \A x : requests[t].row = {x} => OneOf(t, "row") = x  BY <1>3, OnlyOne
<1>7. requests[t].op \in SubscriptionOps =>
        \E s \in requests[t].row : requests[t].row = {s} /\ s \in Subscription
  BY <1>1 DEF Shaped
<1>8. requests[t].op \in ScheduleOps =>
        \E s \in requests[t].row : requests[t].row = {s} /\ s \in Schedule
  BY <1>1 DEF Shaped
<1>9. requests[t].op \in DeviceOps =>
        \E x \in requests[t].row : requests[t].row = {x} /\ x \in Specs /\ ValidDevice(x)
  BY <1>1 DEF Shaped
<1>10. requests[t].op \notin Creates =>
         OneOf(t, "id") \in Ids /\ requests[t].id = {OneOf(t, "id")}
  BY <1>3, <1>4, OnlyOne
<1>. QED  BY <1>5, <1>6, <1>7, <1>8, <1>9, <1>10

\* Some rows of a table are a table.
LEMMA KeepingType ==
  ASSUME NEW I, NEW R, NEW table \in Table(I, R), NEW S \in SUBSET DOMAIN table
  PROVE  Keeping(table, S) \in Table(I, R)
BY TableFacts DEF Keeping

LEMMA DatabaseInit == Init => DatabaseOK
<1>1. SUFFICES ASSUME Init  PROVE DatabaseOK
  OBVIOUS
<1>2. used \subseteq Ids /\ IsFiniteSet(used) /\ clock \in Nat
  BY <1>1, StartAssumption, FS_CardinalityType DEF Init
<1>3. /\ DOMAIN devices \subseteq used /\ DOMAIN sources \subseteq used
      /\ DOMAIN subscriptions \subseteq used /\ DOMAIN schedules \subseteq used
      /\ DOMAIN jobs \subseteq used /\ DOMAIN images \subseteq used
  BY <1>1 DEF Init, StartIds
<1>4. /\ devices \in [DOMAIN devices -> Specs] /\ sources \in [DOMAIN sources -> Nat]
      /\ subscriptions \in [DOMAIN subscriptions -> Subscription]
      /\ schedules \in [DOMAIN schedules -> Schedule]
      /\ jobs \in [DOMAIN jobs -> Job] /\ images \in [DOMAIN images -> Image]
      /\ \A d \in DOMAIN devices : ValidDevice(devices[d])
  BY <1>1, StartAssumption DEF Init
<1>5. \A R, table : DOMAIN table \subseteq used /\ table \in [DOMAIN table -> R]
                      => table \in Table(used, R)
  BY DEF Table
<1>6. Schema
  BY <1>1, StartAssumption DEF Init, Schema, SubscriptionsFit
<1>. QED  BY <1>2, <1>3, <1>4, <1>5, <1>6 DEF DatabaseOK

\* More ids make no difference to the tables.
LEMMA MoreUsed ==
  ASSUME DatabaseOK, used \subseteq used'
  PROVE  /\ devices \in Table(used', Specs) /\ sources \in Table(used', Nat)
         /\ subscriptions \in Table(used', Subscription) /\ schedules \in Table(used', Schedule)
         /\ jobs \in Table(used', Job) /\ images \in Table(used', Image)
BY TableGrows DEF DatabaseOK

LEMMA NewId ==
  ASSUME DatabaseOK, NEW i \in Ids \ used, used' = used \cup {i}, clock' = clock + 1
  PROVE  used' \subseteq Ids /\ IsFiniteSet(used') /\ clock' \in Nat /\ used \subseteq used'
BY FS_AddElement DEF DatabaseOK

\* A subscription is inserted as the constraints allow.
LEMMA InsertSubscriptionDatabase ==
  ASSUME DatabaseOK, RequestsOK, NEW t \in Threads, NEW i \in Ids \ used, InsertSubscription(t, i)
  PROVE  DatabaseOK'
<1> DEFINE s == OneOf(t, "row")
           row == [s EXCEPT !.created = clock]
           new == With(subscriptions, i, row)
<1>1. s \in Subscription  BY RequestFacts DEF InsertSubscription, Writing, SubscriptionOps
<1>2. row \in Subscription  BY <1>1 DEF Subscription, DatabaseOK
<1>3. UNCHANGED <<devices, sources, schedules, jobs, images, assignments, locations>>
  BY DEF InsertSubscription
<1>4. CASE SubscriptionsFit(new, devices)
  <2>1. subscriptions' = new /\ used' = used \cup {i} /\ clock' = clock + 1
    BY <1>4 DEF InsertSubscription
  <2>2. used' \subseteq Ids /\ IsFiniteSet(used') /\ clock' \in Nat /\ used \subseteq used'
    BY <2>1, NewId
  <2>3. subscriptions' \in Table(used', Subscription)
    BY <1>2, <2>1, <2>2, MoreUsed, WithType
  <2>4. Schema'
    BY <1>3, <1>4, <2>1 DEF DatabaseOK, Schema, SubscriptionsFit, DevicesFit
  <2>. QED  BY <1>3, <2>2, <2>3, <2>4, MoreUsed DEF DatabaseOK
<1>5. CASE ~ SubscriptionsFit(new, devices)
  <2>1. UNCHANGED <<subscriptions, used, clock>>  BY <1>5 DEF InsertSubscription
  <2>. QED  BY <1>3, <2>1 DEF DatabaseOK, Schema, SubscriptionsFit, DevicesFit
<1>. QED  BY <1>4, <1>5

LEMMA InsertScheduleDatabase ==
  ASSUME DatabaseOK, RequestsOK, NEW t \in Threads, NEW i \in Ids \ used, InsertSchedule(t, i)
  PROVE  DatabaseOK'
<1> DEFINE s == OneOf(t, "row")
           row == [s EXCEPT !.created = clock]
           new == With(schedules, i, row)
<1>1. s \in Schedule  BY RequestFacts DEF InsertSchedule, Writing, ScheduleOps
<1>2. row \in Schedule /\ row.source = s.source  BY <1>1 DEF Schedule, DatabaseOK
<1>3. UNCHANGED <<devices, sources, subscriptions, jobs, images, assignments, locations>>
  BY DEF InsertSchedule
<1>4. CASE s.source \in DOMAIN sources
  <2>1. schedules' = new /\ used' = used \cup {i} /\ clock' = clock + 1
    BY <1>4 DEF InsertSchedule
  <2>2. used' \subseteq Ids /\ IsFiniteSet(used') /\ clock' \in Nat /\ used \subseteq used'
    BY <2>1, NewId
  <2>3. schedules' \in Table(used', Schedule)
    BY <1>2, <2>1, <2>2, MoreUsed, WithType
  <2>4. \A j \in DOMAIN schedules' : schedules'[j].source \in DOMAIN sources
    <3> HIDE DEF s, row
    <3>. QED  BY <1>2, <1>4, <2>1 DEF With, DatabaseOK, Schema
  <2>5. Schema'
    BY <1>3, <2>4 DEF DatabaseOK, Schema, SubscriptionsFit, DevicesFit
  <2>. QED  BY <1>3, <2>2, <2>3, <2>5, MoreUsed DEF DatabaseOK
<1>5. CASE s.source \notin DOMAIN sources
  <2>1. UNCHANGED <<schedules, used, clock>>  BY <1>5 DEF InsertSchedule
  <2>. QED  BY <1>3, <2>1 DEF DatabaseOK, Schema, SubscriptionsFit, DevicesFit
<1>. QED  BY <1>4, <1>5

LEMMA InsertDeviceDatabase ==
  ASSUME DatabaseOK, RequestsOK, NEW t \in Threads, NEW i \in Ids \ used, InsertDevice(t, i)
  PROVE  DatabaseOK'
<1> DEFINE x == OneOf(t, "row")
           new == With(devices, i, x)
<1>1. x \in Specs /\ ValidDevice(x)  BY RequestFacts DEF InsertDevice, Writing, DeviceOps
<1>2. UNCHANGED <<sources, subscriptions, schedules, jobs, images, assignments, locations>>
  BY DEF InsertDevice
<1>3. CASE DevicesFit(new)
  <2>1. devices' = new /\ used' = used \cup {i} /\ clock' = clock + 1
    BY <1>3 DEF InsertDevice
  <2>2. used' \subseteq Ids /\ IsFiniteSet(used') /\ clock' \in Nat /\ used \subseteq used'
    BY <2>1, NewId
  <2>3. devices' \in Table(used', Specs)
    BY <1>1, <2>1, <2>2, MoreUsed, WithType
  <2>4. \A d \in DOMAIN devices' : ValidDevice(devices'[d])
    <3> HIDE DEF x
    <3>. QED  BY <1>1, <2>1 DEF With, DatabaseOK
  <2>5. DOMAIN devices \subseteq DOMAIN devices'  BY <2>1 DEF With
  <2>6. DevicesFit(devices')  BY <1>3, <2>1
  <2>7. Schema'
    BY <1>2, <2>5, <2>6 DEF DatabaseOK, Schema, SubscriptionsFit, DevicesFit
  <2>. QED  BY <1>2, <2>2, <2>3, <2>4, <2>7, MoreUsed DEF DatabaseOK
<1>4. CASE ~ DevicesFit(new)
  <2>1. UNCHANGED <<devices, used, clock>>  BY <1>4 DEF InsertDevice
  <2>. QED  BY <1>2, <2>1 DEF DatabaseOK, Schema, SubscriptionsFit, DevicesFit
<1>. QED  BY <1>3, <1>4

\* An update keeps the constraints, or the row as it was.
LEMMA RewriteSubscriptionDatabase ==
  ASSUME DatabaseOK, RequestsOK, NEW t \in Threads, RewriteSubscription(t)
  PROVE  DatabaseOK'
<1> DEFINE i == OneOf(t, "id")
           row == [OneOf(t, "row") EXCEPT !.created = subscriptions[i].created]
           new == IF i \in DOMAIN subscriptions THEN With(subscriptions, i, row)
                                                ELSE subscriptions
<1>1. UNCHANGED <<devices, sources, schedules, jobs, images, assignments, locations, used, clock>>
  BY DEF RewriteSubscription
<1>2. subscriptions' = IF SubscriptionsFit(new, devices) THEN new ELSE subscriptions
  BY DEF RewriteSubscription
<1>3. SubscriptionsFit(subscriptions', devices)
  BY <1>2 DEF DatabaseOK, Schema
<1>4. new \in Table(used, Subscription)
  <2>1. OneOf(t, "row") \in Subscription
    BY RequestFacts DEF RewriteSubscription, Writing, SubscriptionOps
  <2>2. CASE i \in DOMAIN subscriptions
    <3>1. subscriptions[i] \in Subscription /\ i \in used /\ subscriptions \in Table(used, Subscription)
      BY <2>2, TableFacts DEF DatabaseOK
    <3>2. row \in Subscription  BY <2>1, <3>1 DEF Subscription
    <3>3. With(subscriptions, i, row) \in Table(used, Subscription)
      <4> HIDE DEF row, i
      <4>. QED  BY <3>1, <3>2, WithType
    <3>. QED  BY <2>2, <3>3
  <2>. QED  BY <2>2 DEF DatabaseOK
<1>5. subscriptions' \in Table(used, Subscription)  BY <1>2, <1>4 DEF DatabaseOK
<1>6. Schema'
  <2>1. SubscriptionsFit(subscriptions, devices)'  BY <1>1, <1>3 DEF SubscriptionsFit
  <2>. QED  BY <1>1, <2>1 DEF DatabaseOK, Schema, DevicesFit
<1>. QED  BY <1>1, <1>5, <1>6 DEF DatabaseOK

LEMMA RewriteScheduleDatabase ==
  ASSUME DatabaseOK, RequestsOK, NEW t \in Threads, RewriteSchedule(t)
  PROVE  DatabaseOK'
<1> DEFINE i == OneOf(t, "id")
           row == [OneOf(t, "row") EXCEPT !.created = schedules[i].created]
           fit == i \in DOMAIN schedules => OneOf(t, "row").source \in DOMAIN sources
<1>1. UNCHANGED <<devices, sources, subscriptions, jobs, images, assignments, locations, used,
                  clock>>
  BY DEF RewriteSchedule
<1>2. schedules' = IF i \in DOMAIN schedules /\ fit THEN With(schedules, i, row) ELSE schedules
  BY DEF RewriteSchedule
<1>3. OneOf(t, "row") \in Schedule  BY RequestFacts DEF RewriteSchedule, Writing, ScheduleOps
<1>4. CASE i \in DOMAIN schedules /\ fit
  <2>1. schedules[i] \in Schedule /\ i \in used /\ schedules \in Table(used, Schedule)
    BY <1>4, TableFacts DEF DatabaseOK
  <2>2. row \in Schedule /\ row.source \in DOMAIN sources  BY <1>3, <1>4, <2>1 DEF Schedule
  <2>3. schedules' = With(schedules, i, row)  BY <1>2, <1>4
  <2> HIDE DEF row, i
  <2>4. schedules' \in Table(used, Schedule)  BY <2>1, <2>2, <2>3, WithType
  <2>5. \A j \in DOMAIN schedules' : schedules'[j].source \in DOMAIN sources
    BY <2>2, <2>3 DEF With, DatabaseOK, Schema
  <2>6. Schema'  BY <1>1, <2>5 DEF DatabaseOK, Schema, SubscriptionsFit, DevicesFit
  <2>. QED  BY <1>1, <2>4, <2>6 DEF DatabaseOK
<1>5. CASE ~ (i \in DOMAIN schedules /\ fit)
  <2>1. schedules' = schedules  BY <1>2, <1>5
  <2>. QED  BY <1>1, <2>1 DEF DatabaseOK, Schema, SubscriptionsFit, DevicesFit
<1>. QED  BY <1>4, <1>5

LEMMA RewriteDeviceDatabase ==
  ASSUME DatabaseOK, RequestsOK, NEW t \in Threads, RewriteDevice(t)
  PROVE  DatabaseOK'
<1> DEFINE i == OneOf(t, "id")
           x == OneOf(t, "row")
           new == IF i \in DOMAIN devices THEN With(devices, i, x) ELSE devices
<1>1. UNCHANGED <<sources, subscriptions, schedules, jobs, images, assignments, locations, used,
                  clock>>
  BY DEF RewriteDevice
<1>2. devices' = IF DevicesFit(new) THEN new ELSE devices  BY DEF RewriteDevice
<1>3. x \in Specs /\ ValidDevice(x)  BY RequestFacts DEF RewriteDevice, Writing, DeviceOps
<1>4. DevicesFit(devices')  BY <1>2 DEF DatabaseOK, Schema
<1>5. /\ new \in Table(used, Specs) /\ DOMAIN new = DOMAIN devices
      /\ \A d \in DOMAIN new : ValidDevice(new[d])
  <2>1. CASE i \in DOMAIN devices
    <3>1. i \in used /\ devices \in Table(used, Specs)  BY <2>1, TableFacts DEF DatabaseOK
    <3>2. new = With(devices, i, x)  BY <2>1
    <3> HIDE DEF x, i, new
    <3>3. DOMAIN new = DOMAIN devices  BY <2>1, <3>2 DEF With
    <3>4. \A d \in DOMAIN new : ValidDevice(new[d])  BY <1>3, <3>2 DEF With, DatabaseOK
    <3>. QED  BY <1>3, <3>1, <3>2, <3>3, <3>4, WithType
  <2>2. CASE i \notin DOMAIN devices  BY <2>2 DEF DatabaseOK
  <2>. QED  BY <2>1, <2>2
<1>6. /\ devices' \in Table(used, Specs) /\ DOMAIN devices' = DOMAIN devices
      /\ \A d \in DOMAIN devices' : ValidDevice(devices'[d])
  <2> HIDE DEF new
  <2>. QED  BY <1>2, <1>5 DEF DatabaseOK
<1>7. Schema'
  BY <1>1, <1>4, <1>6 DEF DatabaseOK, Schema, SubscriptionsFit, DevicesFit
<1>. QED  BY <1>1, <1>6, <1>7 DEF DatabaseOK

\* A deletion takes what depends on the row with it.
LEMMA RemovalDatabase ==
  ASSUME DatabaseOK, RequestsOK, NEW t \in Threads,
         \/ RemoveSubscription(t) \/ RemoveSchedule(t) \/ RemoveDevice(t) \/ RemoveImage(t)
  PROVE  DatabaseOK'
<1>1. CASE RemoveSubscription(t)
  <2>1. /\ UNCHANGED <<devices, sources, schedules, jobs, images, assignments, locations, used,
                       clock>>
        /\ subscriptions' = Without(subscriptions, OneOf(t, "id"))
    BY <1>1 DEF RemoveSubscription
  <2>2. subscriptions' \in Table(used, Subscription)  BY <2>1, WithoutType DEF DatabaseOK
  <2>3. SubscriptionsFit(subscriptions', devices)
    BY <2>1 DEF DatabaseOK, Schema, SubscriptionsFit, Without
  <2>4. Schema'  BY <2>1, <2>3 DEF DatabaseOK, Schema, SubscriptionsFit, DevicesFit
  <2>. QED  BY <2>1, <2>2, <2>4 DEF DatabaseOK
<1>2. CASE RemoveSchedule(t)
  <2>1. /\ UNCHANGED <<devices, sources, subscriptions, jobs, images, assignments, locations, used,
                       clock>>
        /\ schedules' = Without(schedules, OneOf(t, "id"))
    BY <1>2 DEF RemoveSchedule
  <2>2. schedules' \in Table(used, Schedule)  BY <2>1, WithoutType DEF DatabaseOK
  <2>3. \A i \in DOMAIN schedules' : schedules'[i].source \in DOMAIN sources
    BY <2>1 DEF DatabaseOK, Schema, Without
  <2>4. Schema'  BY <2>1, <2>3 DEF DatabaseOK, Schema, SubscriptionsFit, DevicesFit
  <2>. QED  BY <2>1, <2>2, <2>4 DEF DatabaseOK
<1>3. CASE RemoveDevice(t)
  <2> DEFINE d == OneOf(t, "id")
  <2>1. /\ UNCHANGED <<sources, schedules, jobs, images, used, clock>>
        /\ devices' = Without(devices, d)
        /\ subscriptions' = SubscriptionsAfter(d)
        /\ assignments' = {p \in assignments : p[2] # d}
        /\ locations' = {p \in locations : p[2] # d}
    BY <1>3 DEF RemoveDevice
  <2> HIDE DEF d
  <2>2. devices' \in Table(used, Specs)  BY <2>1, WithoutType DEF DatabaseOK
  <2>3. \A e \in DOMAIN devices' : ValidDevice(devices'[e])
    BY <2>1 DEF DatabaseOK, Without
  <2>4. subscriptions' \in Table(used, Subscription)
    BY <2>1, KeepingType DEF DatabaseOK, SubscriptionsAfter
  <2>5. DOMAIN devices' = DOMAIN devices \ {d}  BY <2>1 DEF Without
  <2>6. SubscriptionsFit(subscriptions', devices')
    BY <2>1, <2>5 DEF DatabaseOK, Schema, SubscriptionsFit, SubscriptionsAfter, Keeping
  <2>7. DevicesFit(devices')  BY <2>1 DEF DatabaseOK, Schema, DevicesFit, Without
  <2>8. assignments' \cup locations' \subseteq (DOMAIN images) \X (DOMAIN devices')
    BY <2>1, <2>5 DEF DatabaseOK, Schema
  <2>9. Schema'  BY <2>1, <2>6, <2>7, <2>8 DEF DatabaseOK, Schema, SubscriptionsFit
  <2>. QED  BY <2>1, <2>2, <2>3, <2>4, <2>9 DEF DatabaseOK
<1>4. CASE RemoveImage(t)
  <2> DEFINE i == OneOf(t, "id")
  <2>1. /\ UNCHANGED <<devices, sources, subscriptions, schedules, jobs, used, clock>>
        /\ images' = Without(images, i)
        /\ assignments' = {p \in assignments : p[1] # i}
        /\ locations' = {p \in locations : p[1] # i}
    BY <1>4 DEF RemoveImage
  <2> HIDE DEF i
  <2>2. images' \in Table(used, Image)  BY <2>1, WithoutType DEF DatabaseOK
  <2>3. DOMAIN images' = DOMAIN images \ {i} /\ \A j \in DOMAIN images' : images'[j] = images[j]
    BY <2>1 DEF Without
  <2>4. assignments' \cup locations' \subseteq (DOMAIN images') \X (DOMAIN devices)
    BY <2>1, <2>3 DEF DatabaseOK, Schema
  <2>5. Schema'  BY <2>1, <2>3, <2>4 DEF DatabaseOK, Schema, SubscriptionsFit, DevicesFit
  <2>. QED  BY <2>1, <2>2, <2>5 DEF DatabaseOK
<1>. QED  BY <1>1, <1>2, <1>3, <1>4

\* Images and jobs forget a source that is deleted, subscriptions and schedules go.
LEMMA RemoveSourceDatabase ==
  ASSUME DatabaseOK, NEW t \in Threads, RemoveSource(t)
  PROVE  DatabaseOK'
<1> DEFINE s == OneOf(t, "id")
<1>1. /\ UNCHANGED <<devices, assignments, locations, used, clock>>
      /\ sources' = Without(sources, s)
      /\ subscriptions' =
           Keeping(subscriptions, {i \in DOMAIN subscriptions : subscriptions[i].source # s})
      /\ schedules' = Keeping(schedules, {i \in DOMAIN schedules : schedules[i].source # s})
      /\ jobs' = [i \in DOMAIN jobs |-> [jobs[i] EXCEPT !.source = @ \ {s}]]
      /\ images' = [i \in DOMAIN images |-> [images[i] EXCEPT !.source = @ \ {s}]]
  BY DEF RemoveSource
<1> HIDE DEF s
<1>2. /\ sources' \in Table(used, Nat)
      /\ subscriptions' \in Table(used, Subscription) /\ schedules' \in Table(used, Schedule)
  BY <1>1, WithoutType, KeepingType DEF DatabaseOK
<1>3. DOMAIN sources' = DOMAIN sources \ {s}  BY <1>1 DEF Without
<1>4. /\ jobs' \in Table(used, Job)
      /\ \A i \in DOMAIN jobs' : jobs'[i].source \subseteq DOMAIN sources'
  <2>1. /\ DOMAIN jobs \subseteq used /\ \A i \in DOMAIN jobs : jobs[i] \in Job
        /\ \A i \in DOMAIN jobs : jobs[i].source \subseteq DOMAIN sources
    BY TableFacts DEF DatabaseOK, Schema
  <2>2. \A i \in DOMAIN jobs : LET j == [jobs[i] EXCEPT !.source = @ \ {s}]
                               IN  j \in Job /\ j.source = jobs[i].source \ {s}
    BY <2>1 DEF Job
  <2>3. /\ DOMAIN jobs' = DOMAIN jobs /\ jobs' = [i \in DOMAIN jobs' |-> jobs'[i]]
        /\ \A i \in DOMAIN jobs' : jobs'[i] \in Job /\ jobs'[i].source = jobs[i].source \ {s}
    BY <1>1, <2>2
  <2>. QED  BY <1>3, <2>1, <2>3, TableFacts
<1>5. /\ images' \in Table(used, Image) /\ DOMAIN images' = DOMAIN images
      /\ \A i \in DOMAIN images' : images'[i].source \subseteq DOMAIN sources'
  <2>1. /\ DOMAIN images \subseteq used /\ \A i \in DOMAIN images : images[i] \in Image
        /\ \A i \in DOMAIN images : images[i].source \subseteq DOMAIN sources
    BY TableFacts DEF DatabaseOK, Schema
  <2>2. \A i \in DOMAIN images : LET j == [images[i] EXCEPT !.source = @ \ {s}]
                                 IN  j \in Image /\ j.source = images[i].source \ {s}
    BY <2>1 DEF Image
  <2>3. /\ DOMAIN images' = DOMAIN images /\ images' = [i \in DOMAIN images' |-> images'[i]]
        /\ \A i \in DOMAIN images' : images'[i] \in Image /\ images'[i].source = images[i].source \ {s}
    BY <1>1, <2>2
  <2>. QED  BY <1>3, <2>1, <2>3, TableFacts
<1>6. SubscriptionsFit(subscriptions, devices)'
  <2>1. /\ DOMAIN subscriptions' \subseteq DOMAIN subscriptions
        /\ \A i \in DOMAIN subscriptions' :
             subscriptions'[i] = subscriptions[i] /\ subscriptions[i].source # s
    BY <1>1 DEF Keeping
  <2>2. SubscriptionsFit(subscriptions, devices)  BY DEF DatabaseOK, Schema
  <2>3. \A i \in DOMAIN subscriptions' :
          subscriptions'[i].device \in DOMAIN devices' /\ subscriptions'[i].source \in DOMAIN sources'
    BY <1>1, <1>3, <2>1, <2>2 DEF SubscriptionsFit
  <2>4. \A i, j \in DOMAIN subscriptions' :
          /\ subscriptions'[i].device = subscriptions'[j].device
          /\ subscriptions'[i].source = subscriptions'[j].source
          => i = j
    <3>1. SUFFICES ASSUME NEW i \in DOMAIN subscriptions', NEW j \in DOMAIN subscriptions',
                          subscriptions'[i].device = subscriptions'[j].device,
                          subscriptions'[i].source = subscriptions'[j].source
                   PROVE  i = j
      OBVIOUS
    <3>2. i \in DOMAIN subscriptions /\ j \in DOMAIN subscriptions  BY <2>1
    <3>3. subscriptions'[i] = subscriptions[i] /\ subscriptions'[j] = subscriptions[j]  BY <2>1
    <3>. QED  BY <2>2, <3>1, <3>2, <3>3 DEF SubscriptionsFit
  <2>. QED  BY <2>3, <2>4 DEF SubscriptionsFit
<1>8. \A i \in DOMAIN schedules' : schedules'[i].source \in DOMAIN sources'
  <2>1. /\ DOMAIN schedules' \subseteq DOMAIN schedules
        /\ \A i \in DOMAIN schedules' : schedules'[i] = schedules[i] /\ schedules[i].source # s
    BY <1>1 DEF Keeping
  <2>. QED  BY <1>3, <2>1 DEF DatabaseOK, Schema
<1>7. Schema'
  <2>1. DevicesFit(devices)'  BY <1>1 DEF DatabaseOK, Schema, DevicesFit
  <2>2. assignments' \cup locations' \subseteq (DOMAIN images') \X (DOMAIN devices')
    BY <1>1, <1>5 DEF DatabaseOK, Schema
  <2>. QED  BY <1>4, <1>5, <1>6, <1>8, <2>1, <2>2 DEF Schema
<1>. QED  BY <1>1, <1>2, <1>4, <1>5, <1>7 DEF DatabaseOK

LEMMA SetFavoriteDatabase ==
  ASSUME DatabaseOK, NEW t \in Threads, NEW flag \in BOOLEAN, SetFavorite(t, flag)
  PROVE  DatabaseOK'
<1>1. /\ UNCHANGED <<devices, sources, subscriptions, schedules, jobs, assignments, locations,
                     used, clock>>
      /\ images' = [i \in DOMAIN images |->
                      IF i \in requests[t].id THEN [images[i] EXCEPT !.favorite = flag]
                                              ELSE images[i]]
  BY DEF SetFavorite
<1>2. /\ DOMAIN images \subseteq used /\ \A i \in DOMAIN images : images[i] \in Image
      /\ \A i \in DOMAIN images : images[i].source \subseteq DOMAIN sources
  BY TableFacts DEF DatabaseOK, Schema
<1>3. \A i \in DOMAIN images : LET j == [images[i] EXCEPT !.favorite = flag]
                               IN  j \in Image /\ j.source = images[i].source
  BY <1>2 DEF Image
<1>4. /\ DOMAIN images' = DOMAIN images /\ images' = [i \in DOMAIN images' |-> images'[i]]
      /\ \A i \in DOMAIN images' : images'[i] \in Image /\ images'[i].source = images[i].source
  BY <1>1, <1>2, <1>3
<1>5. images' \in Table(used, Image)  BY <1>2, <1>4, TableFacts
<1>6. Schema'
  BY <1>1, <1>2, <1>4 DEF DatabaseOK, Schema, SubscriptionsFit, DevicesFit
<1>. QED  BY <1>1, <1>5, <1>6 DEF DatabaseOK

\* The status of a job is nothing a constraint is about.
LEMMA JobDatabase ==
  ASSUME DatabaseOK,
         \/ \E j \in DOMAIN jobs : StartSync(j)
         \/ \E status \in {"succeeded", "failed"} : EndSync(status)
  PROVE  DatabaseOK'
<1>1. UNCHANGED <<devices, sources, subscriptions, schedules, images, assignments, locations,
                  used, clock>>
  BY DEF StartSync, EndSync
<1>2. /\ DOMAIN jobs \subseteq used /\ \A j \in DOMAIN jobs : jobs[j] \in Job
      /\ \A j \in DOMAIN jobs : jobs[j].source \subseteq DOMAIN sources
  BY TableFacts DEF DatabaseOK, Schema
<1>3. \A j \in DOMAIN jobs, status \in {"running", "succeeded", "failed"} :
        LET row == [jobs[j] EXCEPT !.status = status]
        IN  row \in Job /\ row.source = jobs[j].source
  BY <1>2 DEF Job
<1>4. /\ DOMAIN jobs' = DOMAIN jobs /\ jobs' = [j \in DOMAIN jobs' |-> jobs'[j]]
      /\ \A j \in DOMAIN jobs' : jobs'[j] \in Job /\ jobs'[j].source = jobs[j].source
  <2> DEFINE Goal == /\ DOMAIN jobs' = DOMAIN jobs /\ jobs' = [j \in DOMAIN jobs' |-> jobs'[j]]
                     /\ \A j \in DOMAIN jobs' :
                          jobs'[j] \in Job /\ jobs'[j].source = jobs[j].source
  <2>1. ASSUME NEW k \in DOMAIN jobs, StartSync(k)  PROVE Goal
    <3>1. jobs' = [jobs EXCEPT ![k].status = "running"]  BY <2>1 DEF StartSync
    <3>2. \A j \in DOMAIN jobs : j # k => jobs'[j] = jobs[j]  BY <3>1
    <3>3. jobs'[k] = [jobs[k] EXCEPT !.status = "running"]  BY <3>1
    <3>4. jobs'[k] \in Job /\ jobs'[k].source = jobs[k].source  BY <1>3, <3>3
    <3>. QED  BY <1>2, <3>1, <3>2, <3>4
  <2>2. ASSUME NEW status \in {"succeeded", "failed"}, EndSync(status)  PROVE Goal
    <3>1. jobs' = [j \in DOMAIN jobs |->
                     IF j \in sync.job THEN [jobs[j] EXCEPT !.status = status] ELSE jobs[j]]
      BY <2>2 DEF EndSync
    <3>. QED  BY <1>2, <1>3, <3>1
  <2>. QED  BY <2>1, <2>2
<1>5. jobs' \in Table(used, Job)  BY <1>2, <1>4, TableFacts
<1>6. Schema'
  BY <1>1, <1>2, <1>4 DEF DatabaseOK, Schema, SubscriptionsFit, DevicesFit
<1>. QED  BY <1>1, <1>5, <1>6 DEF DatabaseOK

\* The worker inserts an image of a source, and pairs of rows that exist.
LEMMA WorkerDatabase ==
  ASSUME DatabaseOK,
         \/ \E s \in sync.source, i \in Ids \ used, x \in Pictures : Yield(s, x, i)
         \/ \E i \in sync.image, d \in sync.left : Deliver(i, d)
  PROVE  DatabaseOK'
<1>1. ASSUME NEW s \in sync.source, NEW i \in Ids \ used, NEW x \in Pictures, Yield(s, x, i)
      PROVE  DatabaseOK'
  <2> DEFINE row == [picture |-> x, source |-> {s}, favorite |-> FALSE, created |-> clock]
  <2>1. /\ UNCHANGED <<devices, sources, subscriptions, schedules, jobs, assignments, locations>>
        /\ images' = With(images, i, row)
        /\ used' = used \cup {i} /\ clock' = clock + 1 /\ s \in DOMAIN sources
    BY <1>1 DEF Yield
  <2>2. used' \subseteq Ids /\ IsFiniteSet(used') /\ clock' \in Nat /\ used \subseteq used'
    BY <2>1, NewId
  <2>3. row \in Image /\ row.source \subseteq DOMAIN sources
    <3>1. DOMAIN sources \subseteq Ids  BY TableFacts DEF DatabaseOK
    <3>. QED  BY <2>1, <3>1 DEF Image, DatabaseOK
  <2> HIDE DEF row
  <2>4. images' \in Table(used', Image)  BY <2>1, <2>2, <2>3, MoreUsed, WithType
  <2>5. /\ DOMAIN images \subseteq DOMAIN images'
        /\ \A j \in DOMAIN images' : images'[j].source \subseteq DOMAIN sources
    BY <2>1, <2>3 DEF With, DatabaseOK, Schema
  <2>6. Schema'  BY <2>1, <2>5 DEF DatabaseOK, Schema, SubscriptionsFit, DevicesFit
  <2>. QED  BY <2>1, <2>2, <2>4, <2>6, MoreUsed DEF DatabaseOK
<1>2. ASSUME NEW i \in sync.image, NEW d \in sync.left, Deliver(i, d)
      PROVE  DatabaseOK'
  <2> DEFINE new == IF i \in DOMAIN images /\ d \in DOMAIN devices THEN {<<i, d>>} ELSE {}
  <2>1. /\ UNCHANGED <<devices, sources, subscriptions, schedules, jobs, images, used, clock>>
        /\ assignments' = assignments \cup new /\ locations' = locations \cup new
    BY <1>2 DEF Deliver
  <2>2. new \subseteq (DOMAIN images) \X (DOMAIN devices)  OBVIOUS
  <2> HIDE DEF new
  <2>3. Schema'  BY <2>1, <2>2 DEF DatabaseOK, Schema, SubscriptionsFit, DevicesFit
  <2>. QED  BY <2>1, <2>3 DEF DatabaseOK
<1>. QED  BY <1>1, <1>2

\* The requests' steps that only read, and the receipt of a request.
Reading(t) == \/ GetExisting(t) \/ CheckDevice(t) \/ CheckSource(t) \/ CheckDuplicate(t)
              \/ CheckSlug(t) \/ ReadBack(t) \/ Warn(t)

LEMMA ReceiveIsAsk ==
  ASSUME NEW t \in Threads, Receive(t)
  PROVE  UNCHANGED <<tables, used, clock, sync, scan, deliveries, steady, delivered, calm>>
BY DEF Receive, Ask, CreateSubscription, UpdateSubscription, DeleteSubscription, CreateSchedule,
       UpdateSchedule, DeleteSchedule, CreateDevice, UpdateDevice, DeleteDevice, DeleteSource,
       SetImageFavorite, DeleteImage

LEMMA ReadingKeeps ==
  ASSUME NEW t \in Threads, Reading(t)
  PROVE  UNCHANGED <<tables, used, clock, sync, scan, asked, deliveries, overtaken>>
BY DEF Reading, Reads, GetExisting, CheckDevice, CheckSource, CheckDuplicate, CheckSlug, ReadBack,
       Warn

LEMMA ScanKeeps ==
  ASSUME Scan
  PROVE  UNCHANGED <<tables, used, clock, requests, sync, deliveries, overtaken>>
BY DEF Scan, BeginScan, ReadPage, TurnBack, ScanFails, Unchanged

\* Every step keeps the database in order.
LEMMA DatabaseStep ==
  ASSUME IInv, [Next]_vars
  PROVE  DatabaseOK'
<1>0. DatabaseOK /\ RequestsOK  BY DEF IInv
<1>1. CASE UNCHANGED <<tables, used, clock>>
  BY <1>0, <1>1 DEF DatabaseOK, tables, Schema, SubscriptionsFit, DevicesFit
<1>2. ASSUME NEW t \in Threads, Execute(t)  PROVE DatabaseOK'
  <2>1. CASE Reading(t)  BY <1>1, <2>1, ReadingKeeps
  <2>2. ASSUME NEW i \in Ids \ used,
               InsertSubscription(t, i) \/ InsertDevice(t, i) \/ InsertSchedule(t, i)
        PROVE  DatabaseOK'
    BY <1>0, <2>2, InsertSubscriptionDatabase, InsertDeviceDatabase, InsertScheduleDatabase
  <2>3. CASE RewriteSubscription(t) \/ RewriteDevice(t) \/ RewriteSchedule(t)
    BY <1>0, <2>3, RewriteSubscriptionDatabase, RewriteDeviceDatabase, RewriteScheduleDatabase
  <2>4. CASE RemoveSubscription(t) \/ RemoveSchedule(t) \/ RemoveDevice(t) \/ RemoveImage(t)
    BY <1>0, <2>4, RemovalDatabase
  <2>5. CASE RemoveSource(t)  BY <1>0, <2>5, RemoveSourceDatabase
  <2>6. ASSUME NEW flag \in BOOLEAN, SetFavorite(t, flag)  PROVE DatabaseOK'
    BY <1>0, <2>6, SetFavoriteDatabase
  <2>. QED  BY <1>2, <2>1, <2>2, <2>3, <2>4, <2>5, <2>6 DEF Execute, Reading
<1>3. CASE Sync  BY <1>0, <1>3, JobDatabase, WorkerDatabase DEF Sync
<1>4. CASE Scan  BY <1>1, <1>4, ScanKeeps
<1>5. ASSUME NEW t \in Threads, Receive(t)  PROVE DatabaseOK'
  BY <1>1, <1>5, ReceiveIsAsk
<1>6. CASE UNCHANGED vars  BY <1>1, <1>6 DEF vars
<1>. QED  BY <1>2, <1>3, <1>4, <1>5, <1>6 DEF Next

-----------------------------------------------------------------------------
(* The requests *)

\* What a step of t makes of its request.
Moves(t) ==
  /\ requests' = [u \in Threads |-> requests'[u]]
  /\ \A u \in Threads \ {t} : requests'[u] = requests[u]
  /\ Shaped(requests'[t])
  /\ ~ overtaken[t] => Found(requests'[t], devices', sources', subscriptions', schedules')

\* An answered request has its shape, and so has one that goes on.
LEMMA AnsweredShape ==
  ASSUME NEW op \in Ops, NEW warned \in BOOLEAN,
         NEW code \in {"ok", "bad request", "not found", "conflict", "server error"}
  PROVE  Shaped(Answered(op, code, warned))
<1> DEFINE r == Answered(op, code, warned)
<1>1. r.op = op /\ r.step = "answered" /\ r.answer = code /\ r.warned = warned
  BY DEF Answered, NoRequest
<1>2. r \in RequestType
  <2>1. NoRequest \in RequestType  BY DEF NoRequest, RequestType
  <2>. QED  BY <2>1 DEF Answered, RequestType
<1> HIDE DEF r
<1>3. Shaped(r)  BY <1>1, <1>2 DEF Shaped
<1>. QED  BY <1>3 DEF r

LEMMA AnswerShape ==
  ASSUME RequestsOK, NEW t \in Threads, requests[t].step # "idle", NEW warned \in BOOLEAN,
         NEW code \in {"ok", "bad request", "not found", "conflict", "server error"},
         requests' = [requests EXCEPT ![t] = Answered(@.op, code, warned)]
  PROVE  /\ requests' = [u \in Threads |-> requests'[u]]
         /\ \A u \in Threads \ {t} : requests'[u] = requests[u]
         /\ Shaped(requests'[t])
         /\ requests'[t].op = requests[t].op /\ requests'[t].step = "answered"
         /\ requests'[t].answer = code /\ requests'[t].warned = warned
<1>1. requests \in [Threads -> RequestType] /\ Shaped(requests[t])  BY DEF RequestsOK
<1>2. /\ requests' = [u \in Threads |-> requests'[u]]
      /\ \A u \in Threads \ {t} : requests'[u] = requests[u]
      /\ requests'[t] = Answered(requests[t].op, code, warned)
  BY <1>1
<1>3. requests[t].op \in Ops  BY <1>1 DEF Shaped
<1> DEFINE r == Answered(requests[t].op, code, warned)
<1>4. Shaped(r)  BY <1>3, AnsweredShape
<1>5. r.op = requests[t].op /\ r.step = "answered" /\ r.answer = code
  BY DEF Answered, NoRequest
<1>6. r.warned = warned  BY DEF Answered, NoRequest
<1> HIDE DEF r
<1>7. requests'[t] = r  BY <1>2 DEF r
<1>. QED  BY <1>2, <1>4, <1>5, <1>6, <1>7, Zenon

LEMMA GoShape ==
  ASSUME RequestsOK, NEW t \in Threads, requests[t].step \notin {"idle", "answered"},
         NEW step \in {"device", "source", "duplicate", "slug", "write", "read", "warn"},
         Go(t, step),
         step \in {"device", "duplicate"} => requests[t].op \in SubscriptionOps,
         step = "source" => requests[t].op \in SubscriptionOps \cup ScheduleOps,
         step = "slug" => requests[t].op \in DeviceOps,
         step = "warn" => requests[t].op \in ScheduleOps,
         requests[t].step \in {"read", "warn"} => step = "warn",
         step = "read" => requests[t].op \notin Creates,
         step = "warn" => requests[t].step = "read"
  PROVE  /\ requests' = [u \in Threads |-> requests'[u]]
         /\ \A u \in Threads \ {t} : requests'[u] = requests[u]
         /\ Shaped(requests'[t])
         /\ requests'[t].op = requests[t].op /\ requests'[t].step = step
         /\ requests'[t].id = requests[t].id /\ requests'[t].row = requests[t].row
<1>1. requests \in [Threads -> RequestType] /\ Shaped(requests[t])  BY DEF RequestsOK
<1>2. /\ requests' = [u \in Threads |-> requests'[u]]
      /\ \A u \in Threads \ {t} : requests'[u] = requests[u]
      /\ requests'[t] = [requests[t] EXCEPT !.step = step]
  BY <1>1 DEF Go
<1>3. /\ requests'[t].op = requests[t].op /\ requests'[t].step = step
      /\ requests'[t].id = requests[t].id /\ requests'[t].row = requests[t].row
      /\ requests'[t].answer = requests[t].answer /\ requests'[t] \in RequestType
  <2>1. requests[t] \in RequestType  BY <1>1
  <2>2. requests'[t] \in RequestType  BY <1>2, <2>1 DEF RequestType
  <2>3. DOMAIN requests[t] = {"op", "id", "row", "warned", "step", "answer"}
    BY <2>1 DEF RequestType
  <2>. QED  BY <1>2, <2>2, <2>3
<1>4. Shaped(requests'[t])
  <2>1. requests[t].answer = "none" /\ requests[t].op \in Ops  BY <1>1 DEF Shaped
  <2>2. IF requests[t].op \in Creates /\ step \notin {"read", "warn"}
        THEN requests[t].id = {} ELSE \E i \in Ids : requests[t].id = {i}
    BY <1>1 DEF Shaped
  <2>3. /\ requests[t].op \in SubscriptionOps =>
             \E s \in requests[t].row : requests[t].row = {s} /\ s \in Subscription
        /\ requests[t].op \in ScheduleOps =>
             \E s \in requests[t].row : requests[t].row = {s} /\ s \in Schedule
        /\ requests[t].op \in DeviceOps =>
             \E x \in requests[t].row : requests[t].row = {x} /\ x \in Specs /\ ValidDevice(x)
    BY <1>1 DEF Shaped
  <2>. QED  BY <1>3, <2>1, <2>2, <2>3 DEF Shaped
<1>. QED  BY <1>2, <1>3, <1>4

\* The kinds of requests are different.
LEMMA Kinds ==
  /\ Creates \subseteq Ops /\ SubscriptionOps \subseteq Ops /\ ScheduleOps \subseteq Ops
  /\ DeviceOps \subseteq Ops
  /\ \A op \in SubscriptionOps : op \notin ScheduleOps \cup DeviceOps
  /\ \A op \in ScheduleOps : op \notin DeviceOps
BY DEF Creates, Ops, SubscriptionOps, ScheduleOps, DeviceOps

\* The checks.
LEMMA GetExistingMoves ==
  ASSUME IInv, NEW t \in Threads, GetExisting(t)
  PROVE  Moves(t)
<1> DEFINE op == requests[t].op
           step == AfterExisting(op)
<1>0. RequestsOK /\ Shaped(requests[t])  BY DEF IInv, RequestsOK
<1>1. requests[t].step = "existing" /\ op \in Ops /\ op \notin Creates
  BY <1>0 DEF GetExisting, Shaped
<1>2. CASE Go(t, step)
  <2>1. /\ step \in {"device", "source", "slug", "write"}
        /\ step = "device" => op \in SubscriptionOps
        /\ step = "source" => op \in ScheduleOps
        /\ step = "slug" => op \in DeviceOps
        /\ step = "write" => op \notin SubscriptionOps \cup ScheduleOps \cup DeviceOps
    BY <1>1 DEF AfterExisting, Ops, Creates, SubscriptionOps, ScheduleOps, DeviceOps
  <2> HIDE DEF step
  <2>2. /\ requests' = [u \in Threads |-> requests'[u]]
        /\ \A u \in Threads \ {t} : requests'[u] = requests[u]
        /\ Shaped(requests'[t]) /\ requests'[t].op = op /\ requests'[t].step = step
    BY <1>0, <1>1, <1>2, <2>1, GoShape
  <2>. QED  BY <2>1, <2>2, Kinds DEF Moves, Found
<1>3. CASE Answer(t, "not found")
  BY <1>0, <1>1, <1>3, AnswerShape DEF Answer, Moves, Found
<1>. QED  BY <1>2, <1>3 DEF GetExisting

\* An answer that is no server error is what the checks may give, but for a
\* creation whose row is not found; the tables do not matter.
LEMMA AnswerMoves ==
  ASSUME RequestsOK, NEW t \in Threads, requests[t].step \notin {"idle", "answered"},
         NEW code \in {"ok", "bad request", "not found", "conflict", "server error"},
         Answer(t, code),
         ~ overtaken[t] => /\ code # "server error"
                           /\ requests[t].op \in Creates => code # "not found"
                           /\ requests[t].op \in ScheduleOps => code # "ok"
  PROVE  Moves(t)
<1>1. requests' = [requests EXCEPT ![t] = Answered(@.op, code, FALSE)]  BY DEF Answer
<1>2. /\ requests' = [u \in Threads |-> requests'[u]]
      /\ \A u \in Threads \ {t} : requests'[u] = requests[u]
      /\ Shaped(requests'[t])
      /\ requests'[t].op = requests[t].op /\ requests'[t].step = "answered"
      /\ requests'[t].answer = code
  BY <1>1, AnswerShape
<1>. QED  BY <1>2 DEF Moves, Found

LEMMA CheckDeviceMoves ==
  ASSUME IInv, NEW t \in Threads, CheckDevice(t)
  PROVE  Moves(t)
<1> DEFINE s == OneOf(t, "row")
<1>0. RequestsOK /\ Shaped(requests[t])  BY DEF IInv, RequestsOK
<1>1. requests[t].step = "device" /\ requests[t].op \in SubscriptionOps
  BY <1>0 DEF CheckDevice, Shaped
<1>2. requests[t].row = {s}  BY <1>0, <1>1, RequestFacts
<1>3. devices' = devices  BY DEF CheckDevice, Reads, tables
<1>4. CASE s.device \in DOMAIN devices
  <2>1. Go(t, "source")  BY <1>4 DEF CheckDevice
  <2>2. /\ requests' = [u \in Threads |-> requests'[u]]
        /\ \A u \in Threads \ {t} : requests'[u] = requests[u]
        /\ Shaped(requests'[t]) /\ requests'[t].op = requests[t].op
        /\ requests'[t].step = "source" /\ requests'[t].row = requests[t].row
    BY <1>0, <1>1, <2>1, GoShape
  <2>. QED  BY <1>1, <1>2, <1>3, <1>4, <2>2, Kinds DEF Moves, Found
<1>5. CASE s.device \notin DOMAIN devices
  <2>1. Answer(t, "bad request")  BY <1>5 DEF CheckDevice
  <2>. QED  BY <1>0, <1>1, <2>1, AnswerMoves
<1>. QED  BY <1>4, <1>5

LEMMA CheckSourceMoves ==
  ASSUME IInv, NEW t \in Threads, CheckSource(t)
  PROVE  Moves(t)
<1> DEFINE s == OneOf(t, "row")
           step == IF "device" \in DOMAIN s THEN "duplicate" ELSE "write"
<1>0. RequestsOK /\ Shaped(requests[t])  BY DEF IInv, RequestsOK
<1>1. requests[t].step = "source" /\ requests[t].op \in SubscriptionOps \cup ScheduleOps
  BY <1>0 DEF CheckSource, Shaped
<1>2. /\ requests[t].row = {s}
      /\ requests[t].op \in SubscriptionOps => s \in Subscription
      /\ requests[t].op \in ScheduleOps => s \in Schedule
  BY <1>0, <1>1, RequestFacts
<1>3. UNCHANGED <<devices, sources>>  BY DEF CheckSource, Reads, tables
<1>4. CASE s.source \in DOMAIN sources
  <2>1. Go(t, step)  BY <1>4 DEF CheckSource, SourceFound
  <2>2. /\ requests[t].op \in SubscriptionOps => step = "duplicate"
        /\ requests[t].op \in ScheduleOps => step = "write"
    BY <1>2 DEF Subscription, Schedule
  <2> HIDE DEF step
  <2>3. /\ requests' = [u \in Threads |-> requests'[u]]
        /\ \A u \in Threads \ {t} : requests'[u] = requests[u]
        /\ Shaped(requests'[t]) /\ requests'[t].op = requests[t].op
        /\ requests'[t].step = step /\ requests'[t].row = requests[t].row
    BY <1>0, <1>1, <2>1, <2>2, GoShape
  <2>4. IInv => ChecksOK  BY DEF IInv
  <2>5. ~ overtaken[t] /\ requests[t].op \in SubscriptionOps => s.device \in DOMAIN devices
    BY <1>1, <1>2, <2>4 DEF ChecksOK, Found
  <2>. QED  BY <1>1, <1>2, <1>3, <1>4, <2>2, <2>3, <2>5, Kinds DEF Moves, Found
<1>5. CASE s.source \notin DOMAIN sources
  <2>1. Answer(t, "bad request")  BY <1>5 DEF CheckSource, SourceFound
  <2>. QED  BY <1>0, <1>1, <2>1, AnswerMoves
<1>. QED  BY <1>4, <1>5

LEMMA CheckDuplicateMoves ==
  ASSUME IInv, NEW t \in Threads, CheckDuplicate(t)
  PROVE  Moves(t)
<1> DEFINE s == OneOf(t, "row")
           same == \E i \in DOMAIN subscriptions \ requests[t].id :
                     subscriptions[i].device = s.device /\ subscriptions[i].source = s.source
<1>0. RequestsOK /\ Shaped(requests[t]) /\ ChecksOK  BY DEF IInv, RequestsOK
<1>1. requests[t].step = "duplicate" /\ requests[t].op \in SubscriptionOps
  BY <1>0 DEF CheckDuplicate, Shaped
<1>2. requests[t].row = {s}  BY <1>0, <1>1, RequestFacts
<1>3. UNCHANGED <<devices, sources, subscriptions>>  BY DEF CheckDuplicate, Reads, tables
<1>4. CASE ~ same
  <2>1. Go(t, "write")  BY <1>4 DEF CheckDuplicate
  <2>2. /\ requests' = [u \in Threads |-> requests'[u]]
        /\ \A u \in Threads \ {t} : requests'[u] = requests[u]
        /\ Shaped(requests'[t]) /\ requests'[t].op = requests[t].op
        /\ requests'[t].step = "write" /\ requests'[t].row = requests[t].row
        /\ requests'[t].id = requests[t].id
    BY <1>0, <1>1, <2>1, GoShape
  <2>3. ~ overtaken[t] => s.device \in DOMAIN devices /\ s.source \in DOMAIN sources
    BY <1>0, <1>1, <1>2 DEF ChecksOK, Found
  <2>. QED  BY <1>1, <1>2, <1>3, <1>4, <2>2, <2>3, Kinds DEF Moves, Found
<1>5. CASE same
  <2>1. Answer(t, "conflict")  BY <1>5 DEF CheckDuplicate
  <2>. QED  BY <1>0, <1>1, <2>1, AnswerMoves
<1>. QED  BY <1>4, <1>5

LEMMA CheckSlugMoves ==
  ASSUME IInv, NEW t \in Threads, CheckSlug(t)
  PROVE  Moves(t)
<1> DEFINE x == OneOf(t, "row")
           same == \E d \in DOMAIN devices \ requests[t].id : devices[d].slug = x.slug
<1>0. RequestsOK /\ Shaped(requests[t])  BY DEF IInv, RequestsOK
<1>1. requests[t].step = "slug" /\ requests[t].op \in DeviceOps
  BY <1>0 DEF CheckSlug, Shaped
<1>2. requests[t].row = {x}  BY <1>0, <1>1, RequestFacts
<1>3. devices' = devices  BY DEF CheckSlug, Reads, tables
<1>4. CASE ~ same
  <2>1. Go(t, "write")  BY <1>4 DEF CheckSlug
  <2>2. /\ requests' = [u \in Threads |-> requests'[u]]
        /\ \A u \in Threads \ {t} : requests'[u] = requests[u]
        /\ Shaped(requests'[t]) /\ requests'[t].op = requests[t].op
        /\ requests'[t].step = "write" /\ requests'[t].row = requests[t].row
        /\ requests'[t].id = requests[t].id
    BY <1>0, <1>1, <2>1, GoShape
  <2>. QED  BY <1>1, <1>2, <1>3, <1>4, <2>2, Kinds DEF Moves, Found
<1>5. CASE same
  <2>1. Answer(t, "conflict")  BY <1>5 DEF CheckSlug
  <2>. QED  BY <1>0, <1>1, <2>1, AnswerMoves
<1>. QED  BY <1>4, <1>5

\* The row is read back where it was written.
LEMMA ReadBackMoves ==
  ASSUME IInv, NEW t \in Threads, ReadBack(t)
  PROVE  Moves(t)
<1> DEFINE op == requests[t].op
           ids == CASE op \in {"create subscription", "update subscription"} -> DOMAIN subscriptions
                    [] op \in {"create device", "update device"}             -> DOMAIN devices
                    [] op \in {"create schedule", "update schedule"}         -> DOMAIN schedules
                    [] OTHER                                                 -> DOMAIN images
<1>0. RequestsOK /\ Shaped(requests[t]) /\ ChecksOK  BY DEF IInv, RequestsOK
<1>1. requests[t].step = "read"  BY DEF ReadBack
<1>2. UNCHANGED <<devices, sources, subscriptions, schedules>>  BY DEF ReadBack, Reads, tables
<1>3. /\ op = "create subscription" => ids = DOMAIN subscriptions
      /\ op = "create device" => ids = DOMAIN devices
      /\ op \in ScheduleOps => ids = DOMAIN schedules
  BY DEF ScheduleOps
<1>4. \/ ~ requests[t].id \subseteq ids /\ Answer(t, "not found")
      \/ requests[t].id \subseteq ids /\ op \in ScheduleOps /\ Go(t, "warn")
      \/ op \notin ScheduleOps /\ Answer(t, "ok")
  BY DEF ReadBack, ScheduleOps
<1> HIDE DEF ids
<1>5. CASE ~ requests[t].id \subseteq ids /\ Answer(t, "not found")
  <2>1. ~ overtaken[t] => op \notin Creates
    BY <1>0, <1>1, <1>3, <1>5 DEF ChecksOK, Found, Creates, ScheduleOps
  <2>. QED  BY <1>0, <1>1, <1>5, <2>1, AnswerMoves
<1>6. CASE requests[t].id \subseteq ids /\ op \in ScheduleOps /\ Go(t, "warn")
  <2>1. /\ requests' = [u \in Threads |-> requests'[u]]
        /\ \A u \in Threads \ {t} : requests'[u] = requests[u]
        /\ Shaped(requests'[t]) /\ requests'[t].op = op
        /\ requests'[t].step = "warn" /\ requests'[t].id = requests[t].id
    BY <1>0, <1>1, <1>6, GoShape
  <2>. QED  BY <1>2, <1>3, <1>6, <2>1, Kinds DEF Moves, Found, ScheduleOps
<1>7. CASE op \notin ScheduleOps /\ Answer(t, "ok")
  BY <1>0, <1>1, <1>7, AnswerMoves
<1>. QED  BY <1>4, <1>5, <1>6, <1>7

\* The answer tells of overlaps as they are.
LEMMA WarnMoves ==
  ASSUME IInv, NEW t \in Threads, Warn(t)
  PROVE  Moves(t)
<1> DEFINE warned == CheckOverlapWarnings(schedules) # {}
<1>0. RequestsOK /\ DatabaseOK  BY DEF IInv
<1>1. requests[t].step = "warn"  BY DEF Warn
<1>2. schedules' = schedules  BY DEF Warn, Reads, tables
<1>3. /\ requests' = [u \in Threads |-> requests'[u]]
      /\ \A u \in Threads \ {t} : requests'[u] = requests[u]
      /\ Shaped(requests'[t]) /\ requests'[t].step = "answered"
      /\ requests'[t].answer = "ok" /\ requests'[t].warned = warned
  <2>1. requests' = [requests EXCEPT ![t] = Answered(@.op, "ok", warned)]  BY DEF Warn
  <2>2. warned \in BOOLEAN  OBVIOUS
  <2> HIDE DEF warned
  <2>. QED  BY <1>0, <1>1, <2>1, <2>2, AnswerShape
<1>4. warned <=> Overlapping(schedules)
  <2>1. schedules \in Table(used, Schedule) /\ used \subseteq Nat
    BY <1>0, NumbersAssumption DEF DatabaseOK
  <2>2. /\ DOMAIN schedules \subseteq Nat
        /\ \A i \in DOMAIN schedules : schedules[i].cron \in DOMAIN Occurrences
    <3>1. DOMAIN schedules \subseteq used /\ \A i \in DOMAIN schedules : schedules[i] \in Schedule
      BY <2>1, TableFacts
    <3>. QED  BY <2>1, <3>1 DEF Schedule
  <2>. QED  BY <2>2, WarningsFound DEF Overlapping
<1>5. requests'[t].warned = Overlapping(schedules')
  <2>1. Overlapping(schedules') = warned
    <3>1. Overlapping(schedules) \in BOOLEAN  BY DEF Overlapping
    <3>2. warned \in BOOLEAN  OBVIOUS
    <3> HIDE DEF warned
    <3>. QED  BY <1>2, <1>4, <3>1, <3>2
  <2> HIDE DEF warned
  <2>. QED  BY <1>3, <2>1
<1> HIDE DEF warned
<1>. QED  BY <1>3, <1>5 DEF Moves, Found

\* The statements that write: what the checks found the database does not refuse.
LEMMA InsertedMoves ==
  ASSUME IInv, NEW t \in Threads, NEW i \in Ids,
         requests[t].step = "write", requests[t].op \in Creates,
         requests' = [requests EXCEPT ![t].step = "read", ![t].id = {i}],
         requests[t].op = "create subscription" => i \in DOMAIN subscriptions',
         requests[t].op = "create schedule" => i \in DOMAIN schedules',
         requests[t].op = "create device" => i \in DOMAIN devices'
  PROVE  Moves(t)
<1>0. requests \in [Threads -> RequestType] /\ Shaped(requests[t])  BY DEF IInv, RequestsOK
<1>1. /\ requests' = [u \in Threads |-> requests'[u]]
      /\ \A u \in Threads \ {t} : requests'[u] = requests[u]
  BY <1>0
<1>2. /\ requests'[t].op = requests[t].op /\ requests'[t].step = "read"
      /\ requests'[t].id = {i} /\ requests'[t].row = requests[t].row
      /\ requests'[t].answer = requests[t].answer /\ requests'[t] \in RequestType
  BY <1>0, ZenonT(40) DEF RequestType
<1>3. Shaped(requests'[t])
  <2>1. requests[t].answer = "none" /\ requests[t].op \in Ops  BY <1>0 DEF Shaped
  <2>2. /\ requests[t].op \in SubscriptionOps =>
             \E s \in requests[t].row : requests[t].row = {s} /\ s \in Subscription
        /\ requests[t].op \in ScheduleOps =>
             \E s \in requests[t].row : requests[t].row = {s} /\ s \in Schedule
        /\ requests[t].op \in DeviceOps =>
             \E x \in requests[t].row : requests[t].row = {x} /\ x \in Specs /\ ValidDevice(x)
    BY <1>0 DEF Shaped
  <2>. QED  BY <1>2, <2>1, <2>2 DEF Shaped
<1>. QED  BY <1>1, <1>2, <1>3 DEF Moves, Found

LEMMA InsertSubscriptionMoves ==
  ASSUME IInv, NEW t \in Threads, NEW i \in Ids \ used, InsertSubscription(t, i)
  PROVE  Moves(t)
<1> DEFINE s == OneOf(t, "row")
           row == [s EXCEPT !.created = clock]
           new == With(subscriptions, i, row)
<1>0. RequestsOK /\ DatabaseOK /\ ChecksOK /\ Shaped(requests[t])  BY DEF IInv, RequestsOK
<1>1. requests[t].step = "write" /\ requests[t].op = "create subscription"
  BY DEF InsertSubscription, Writing
<1>2. s \in Subscription /\ requests[t].row = {s} /\ requests[t].id = {}
  BY <1>0, <1>1, RequestFacts DEF SubscriptionOps, Shaped, Creates
<1>3. row.device = s.device /\ row.source = s.source  BY <1>2 DEF Subscription
<1>4. CASE SubscriptionsFit(new, devices)
  <2>1. /\ subscriptions' = new
        /\ requests' = [requests EXCEPT ![t].step = "read", ![t].id = {i}]
    BY <1>4 DEF InsertSubscription
  <2>2. i \in DOMAIN subscriptions'  BY <2>1 DEF With
  <2>. QED  BY <1>1, <2>1, <2>2, InsertedMoves DEF Creates
<1>5. CASE ~ SubscriptionsFit(new, devices)
  <2>1. Answer(t, "server error")  BY <1>5 DEF InsertSubscription
  <2>2. ASSUME ~ overtaken[t]  PROVE FALSE
    <3>1. /\ s.device \in DOMAIN devices /\ s.source \in DOMAIN sources
          /\ \A j \in DOMAIN subscriptions :
               ~ (subscriptions[j].device = s.device /\ subscriptions[j].source = s.source)
      BY <1>0, <1>1, <1>2, <2>2 DEF ChecksOK, Found, SubscriptionOps
    <3>2. SubscriptionsFit(subscriptions, devices)  BY <1>0 DEF DatabaseOK, Schema
    <3> HIDE DEF s, row
    <3>3. SubscriptionsFit(new, devices)  BY <1>3, <3>1, <3>2 DEF SubscriptionsFit, With
    <3>. QED  BY <1>5, <3>3
  <2>. QED  BY <1>0, <1>1, <2>1, <2>2, AnswerMoves
<1>. QED  BY <1>4, <1>5

LEMMA InsertScheduleMoves ==
  ASSUME IInv, NEW t \in Threads, NEW i \in Ids \ used, InsertSchedule(t, i)
  PROVE  Moves(t)
<1> DEFINE s == OneOf(t, "row")
           new == With(schedules, i, [s EXCEPT !.created = clock])
<1>0. RequestsOK /\ ChecksOK  BY DEF IInv
<1>1. requests[t].step = "write" /\ requests[t].op = "create schedule"
  BY DEF InsertSchedule, Writing
<1>2. requests[t].row = {s}  BY <1>0, <1>1, RequestFacts DEF ScheduleOps
<1>3. CASE s.source \in DOMAIN sources
  <2>1. /\ schedules' = new
        /\ requests' = [requests EXCEPT ![t].step = "read", ![t].id = {i}]
    BY <1>3 DEF InsertSchedule
  <2>2. i \in DOMAIN schedules'  BY <2>1 DEF With
  <2>. QED  BY <1>1, <2>1, <2>2, InsertedMoves DEF Creates
<1>4. CASE s.source \notin DOMAIN sources
  <2>1. Answer(t, "server error")  BY <1>4 DEF InsertSchedule
  <2>2. ~ overtaken[t] => s.source \in DOMAIN sources
    BY <1>0, <1>1, <1>2 DEF ChecksOK, Found, ScheduleOps
  <2>. QED  BY <1>0, <1>1, <1>4, <2>1, <2>2, AnswerMoves
<1>. QED  BY <1>3, <1>4

LEMMA InsertDeviceMoves ==
  ASSUME IInv, NEW t \in Threads, NEW i \in Ids \ used, InsertDevice(t, i)
  PROVE  Moves(t)
<1> DEFINE x == OneOf(t, "row")
           new == With(devices, i, x)
<1>0. RequestsOK /\ DatabaseOK /\ ChecksOK /\ Shaped(requests[t])  BY DEF IInv, RequestsOK
<1>1. requests[t].step = "write" /\ requests[t].op = "create device"
  BY DEF InsertDevice, Writing
<1>2. requests[t].row = {x} /\ requests[t].id = {}
  BY <1>0, <1>1, RequestFacts DEF DeviceOps, Shaped, Creates
<1>3. CASE DevicesFit(new)
  <2>1. /\ devices' = new
        /\ requests' = [requests EXCEPT ![t].step = "read", ![t].id = {i}]
    BY <1>3 DEF InsertDevice
  <2>2. i \in DOMAIN devices'  BY <2>1 DEF With
  <2>. QED  BY <1>1, <2>1, <2>2, InsertedMoves DEF Creates
<1>4. CASE ~ DevicesFit(new)
  <2>1. Answer(t, "server error")  BY <1>4 DEF InsertDevice
  <2>2. ASSUME ~ overtaken[t]  PROVE FALSE
    <3>1. \A d \in DOMAIN devices : devices[d].slug # x.slug
      BY <1>0, <1>1, <1>2, <2>2 DEF ChecksOK, Found, DeviceOps
    <3>2. DevicesFit(devices)  BY <1>0 DEF DatabaseOK, Schema
    <3> HIDE DEF x
    <3>3. DevicesFit(new)  BY <3>1, <3>2 DEF DevicesFit, With
    <3>. QED  BY <1>4, <3>3
  <2>. QED  BY <1>0, <1>1, <2>1, <2>2, AnswerMoves
<1>. QED  BY <1>3, <1>4

\* An update or the favorite flag goes on to read the row back.
LEMMA WrittenMoves ==
  ASSUME RequestsOK, NEW t \in Threads, requests[t].step = "write", requests[t].op \notin Creates,
         Go(t, "read")
  PROVE  Moves(t)
<1>1. /\ requests' = [u \in Threads |-> requests'[u]]
      /\ \A u \in Threads \ {t} : requests'[u] = requests[u]
      /\ Shaped(requests'[t]) /\ requests'[t].op = requests[t].op /\ requests'[t].step = "read"
  BY GoShape
<1>. QED  BY <1>1 DEF Moves, Found, Creates

LEMMA RewriteSubscriptionMoves ==
  ASSUME IInv, NEW t \in Threads, RewriteSubscription(t)
  PROVE  Moves(t)
<1> DEFINE i == OneOf(t, "id")
           s == OneOf(t, "row")
           row == [s EXCEPT !.created = subscriptions[i].created]
           new == IF i \in DOMAIN subscriptions THEN With(subscriptions, i, row)
                                                ELSE subscriptions
           fit == SubscriptionsFit(new, devices)
<1>0. RequestsOK /\ DatabaseOK /\ ChecksOK  BY DEF IInv
<1>1. requests[t].step = "write" /\ requests[t].op = "update subscription"
  BY DEF RewriteSubscription, Writing
<1>2. s \in Subscription /\ requests[t].row = {s} /\ requests[t].id = {i}
  BY <1>0, <1>1, RequestFacts DEF SubscriptionOps, Creates
<1>3. row.device = s.device /\ row.source = s.source  BY <1>2 DEF Subscription
<1>4. IF fit THEN Go(t, "read") ELSE Answer(t, "server error")
  BY DEF RewriteSubscription, Refused
<1>5. ASSUME ~ overtaken[t]  PROVE fit
  <2>1. /\ s.device \in DOMAIN devices /\ s.source \in DOMAIN sources
        /\ \A j \in DOMAIN subscriptions \ {i} :
             ~ (subscriptions[j].device = s.device /\ subscriptions[j].source = s.source)
    BY <1>0, <1>1, <1>2, <1>5 DEF ChecksOK, Found, SubscriptionOps
  <2>2. SubscriptionsFit(subscriptions, devices)  BY <1>0 DEF DatabaseOK, Schema
  <2>3. CASE i \in DOMAIN subscriptions
    <3>1. new = With(subscriptions, i, row)  BY <2>3
    <3> HIDE DEF s, row, i, new
    <3>2. \A j \in DOMAIN new :
            /\ new[j].device = IF j = i THEN s.device ELSE subscriptions[j].device
            /\ new[j].source = IF j = i THEN s.source ELSE subscriptions[j].source
            /\ j # i => j \in DOMAIN subscriptions
      BY <1>3, <3>1 DEF With
    <3>. QED  BY <2>1, <2>2, <3>2 DEF SubscriptionsFit
  <2>4. CASE i \notin DOMAIN subscriptions  BY <2>2, <2>4
  <2>. QED  BY <2>3, <2>4
<1> HIDE DEF fit
<1>. QED  BY <1>0, <1>1, <1>4, <1>5, WrittenMoves, AnswerMoves DEF Creates

LEMMA RewriteScheduleMoves ==
  ASSUME IInv, NEW t \in Threads, RewriteSchedule(t)
  PROVE  Moves(t)
<1> DEFINE i == OneOf(t, "id")
           s == OneOf(t, "row")
           fit == i \in DOMAIN schedules => s.source \in DOMAIN sources
<1>0. RequestsOK /\ ChecksOK  BY DEF IInv
<1>1. requests[t].step = "write" /\ requests[t].op = "update schedule"
  BY DEF RewriteSchedule, Writing
<1>2. requests[t].row = {s}  BY <1>0, <1>1, RequestFacts DEF ScheduleOps
<1>3. IF fit THEN Go(t, "read") ELSE Answer(t, "server error")
  BY DEF RewriteSchedule, Refused
<1>4. ASSUME ~ overtaken[t]  PROVE fit
  BY <1>0, <1>1, <1>2, <1>4 DEF ChecksOK, Found, ScheduleOps
<1> HIDE DEF fit
<1>. QED  BY <1>0, <1>1, <1>3, <1>4, WrittenMoves, AnswerMoves DEF Creates

LEMMA RewriteDeviceMoves ==
  ASSUME IInv, NEW t \in Threads, RewriteDevice(t)
  PROVE  Moves(t)
<1> DEFINE i == OneOf(t, "id")
           x == OneOf(t, "row")
           new == IF i \in DOMAIN devices THEN With(devices, i, x) ELSE devices
           fit == DevicesFit(new)
<1>0. RequestsOK /\ DatabaseOK /\ ChecksOK  BY DEF IInv
<1>1. requests[t].step = "write" /\ requests[t].op = "update device"
  BY DEF RewriteDevice, Writing
<1>2. requests[t].row = {x} /\ requests[t].id = {i}
  BY <1>0, <1>1, RequestFacts DEF DeviceOps, Creates
<1>3. IF fit THEN Go(t, "read") ELSE Answer(t, "server error")
  BY DEF RewriteDevice, Refused
<1>4. ASSUME ~ overtaken[t]  PROVE fit
  <2>1. \A d \in DOMAIN devices \ {i} : devices[d].slug # x.slug
    BY <1>0, <1>1, <1>2, <1>4 DEF ChecksOK, Found, DeviceOps
  <2>2. DevicesFit(devices)  BY <1>0 DEF DatabaseOK, Schema
  <2>3. CASE i \in DOMAIN devices
    <3>1. new = With(devices, i, x)  BY <2>3
    <3> HIDE DEF x, i, new
    <3>. QED  BY <2>1, <2>2, <3>1 DEF DevicesFit, With
  <2>4. CASE i \notin DOMAIN devices  BY <2>2, <2>4
  <2>. QED  BY <2>3, <2>4
<1> HIDE DEF fit
<1>. QED  BY <1>0, <1>1, <1>3, <1>4, WrittenMoves, AnswerMoves DEF Creates

LEMMA RemoveMoves ==
  ASSUME IInv, NEW t \in Threads,
         \/ RemoveSubscription(t) \/ RemoveSchedule(t) \/ RemoveDevice(t) \/ RemoveSource(t)
         \/ RemoveImage(t)
  PROVE  Moves(t)
<1>1. /\ requests[t].step = "write" /\ Answer(t, "ok")
      /\ requests[t].op \in {"delete subscription", "delete schedule", "delete device",
                            "delete source", "delete image"}
  BY DEF RemoveSubscription, RemoveSchedule, RemoveDevice, RemoveSource, RemoveImage, Writing
<1>2. requests[t].op \notin Creates \cup ScheduleOps  BY <1>1 DEF Creates, ScheduleOps
<1>. QED  BY <1>1, <1>2, AnswerMoves DEF IInv

LEMMA SetFavoriteMoves ==
  ASSUME IInv, NEW t \in Threads, NEW flag \in BOOLEAN, SetFavorite(t, flag)
  PROVE  Moves(t)
<1>1. requests[t].step = "write" /\ requests[t].op = "favorite image" /\ Go(t, "read")
  BY DEF SetFavorite, Writing
<1>. QED  BY <1>1, WrittenMoves DEF IInv, Creates

LEMMA ExecuteMoves ==
  ASSUME IInv, NEW t \in Threads, Execute(t)
  PROVE  Moves(t)
<1>1. CASE Reading(t)
  BY <1>1, GetExistingMoves, CheckDeviceMoves, CheckSourceMoves, CheckDuplicateMoves,
     CheckSlugMoves, ReadBackMoves, WarnMoves DEF Reading
<1>2. ASSUME NEW i \in Ids \ used,
             InsertSubscription(t, i) \/ InsertDevice(t, i) \/ InsertSchedule(t, i)
      PROVE  Moves(t)
  BY <1>2, InsertSubscriptionMoves, InsertDeviceMoves, InsertScheduleMoves
<1>3. CASE RewriteSubscription(t) \/ RewriteDevice(t) \/ RewriteSchedule(t)
  BY <1>3, RewriteSubscriptionMoves, RewriteDeviceMoves, RewriteScheduleMoves
<1>4. CASE \/ RemoveSubscription(t) \/ RemoveSchedule(t) \/ RemoveDevice(t) \/ RemoveSource(t)
           \/ RemoveImage(t)
  BY <1>4, RemoveMoves
<1>5. ASSUME NEW flag \in BOOLEAN, SetFavorite(t, flag)  PROVE Moves(t)
  BY <1>5, SetFavoriteMoves
<1>. QED  BY <1>1, <1>2, <1>3, <1>4, <1>5 DEF Execute, Reading

\* A request received has its shape and has found nothing yet.
Starts(t) ==
  /\ requests' = [u \in Threads |-> requests'[u]]
  /\ \A u \in Threads \ {t} : requests'[u] = requests[u]
  /\ Shaped(requests'[t])
  /\ Found(requests'[t], devices, sources, subscriptions, schedules)

\* The rows a request can name.
RequestRows == Subscription \cup Specs \cup [source : Ids, cron : Crons, created : Nat]

LEMMA AskStarts ==
  ASSUME RequestsOK, NEW t \in Threads, NEW op \in Ops, NEW id \in SUBSET Ids,
         NEW row \in SUBSET RequestRows,
         NEW step \in {"answered", "existing", "device", "source", "slug"},
         Ask(t, op, id, row, step),
         step = "device" => op = "create subscription",
         step = "source" => op = "create schedule",
         step = "slug" => op = "create device",
         step = "existing" => op \notin Creates,
         step # "answered" =>
           /\ IF op \in Creates THEN id = {} ELSE \E i \in Ids : id = {i}
           /\ op \in SubscriptionOps => \E s \in row : row = {s} /\ s \in Subscription
           /\ op \in ScheduleOps => \E s \in row : row = {s} /\ s \in Schedule
           /\ op \in DeviceOps => \E x \in row : row = {x} /\ x \in Specs /\ ValidDevice(x)
  PROVE  Starts(t)
<1> DEFINE r == [NoRequest EXCEPT !.op = op, !.id = id, !.row = row, !.step = step]
<1>1. requests \in [Threads -> RequestType]  BY DEF RequestsOK
<1>2. /\ requests' = [u \in Threads |-> requests'[u]]
      /\ \A u \in Threads \ {t} : requests'[u] = requests[u]
      /\ requests'[t] = IF step = "answered" THEN Answered(op, "bad request", FALSE) ELSE r
  BY <1>1 DEF Ask
<1>3. CASE step = "answered"
  <2>1. Shaped(Answered(op, "bad request", FALSE))  BY AnsweredShape
  <2>2. /\ Answered(op, "bad request", FALSE).step = "answered"
        /\ Answered(op, "bad request", FALSE).answer = "bad request"
    BY DEF Answered, NoRequest
  <2>. QED  BY <1>2, <1>3, <2>1, <2>2 DEF Starts, Found
<1>4. CASE step # "answered"
  <2>1. r.op = op /\ r.id = id /\ r.row = row /\ r.step = step /\ r.answer = "none"
    BY DEF NoRequest
  <2>2. r \in RequestType
    <3>1. NoRequest \in RequestType  BY DEF NoRequest, RequestType
    <3>. QED  BY <3>1 DEF RequestType, RequestRows
  <2>3. requests'[t] = r  BY <1>2, <1>4
  <2> HIDE DEF r
  <2>4. Shaped(r)
    BY <1>4, <2>1, <2>2, Kinds DEF Shaped, Creates, SubscriptionOps, ScheduleOps, DeviceOps
  <2>. QED  BY <1>2, <1>4, <2>1, <2>3, <2>4 DEF Starts, Found, SubscriptionOps
<1>. QED  BY <1>3, <1>4

LEMMA ReceiveStarts ==
  ASSUME IInv, NEW t \in Threads, Receive(t)
  PROVE  Starts(t) /\ overtaken' = [overtaken EXCEPT ![t] = FALSE]
<1>0. RequestsOK /\ DatabaseOK  BY DEF IInv
<1>1. /\ DOMAIN devices \subseteq Ids /\ DOMAIN sources \subseteq Ids
      /\ DOMAIN subscriptions \subseteq Ids /\ DOMAIN schedules \subseteq Ids
      /\ DOMAIN images \subseteq Ids
  BY <1>0, TableFacts DEF DatabaseOK
<1>2. /\ DOMAIN StartDevices \subseteq Ids /\ DOMAIN StartSources \subseteq Ids
  BY StartAssumption DEF StartIds
<1>3. Wanted \subseteq Subscription  BY <1>2 DEF Wanted, Subscription
<1>4. \A s \in WantedSchedule : /\ s \in [source : Ids, cron : Crons, created : Nat]
                                /\ ValidateCronExpr(s.cron) => s \in Schedule
  BY <1>2 DEF WantedSchedule, Schedule, ValidateCronExpr
<1>5. /\ \A s \in Wanted : {s} \in SUBSET RequestRows
      /\ \A s \in WantedSchedule : {s} \in SUBSET RequestRows
      /\ \A x \in Specs : {x} \in SUBSET RequestRows
      /\ {} \in SUBSET RequestRows /\ {} \in SUBSET Ids /\ \A i \in Ids : {i} \in SUBSET Ids
  BY <1>3, <1>4 DEF RequestRows
<1>6. Starts(t)
  <2>1. ASSUME NEW s \in Wanted, CreateSubscription(t, s)  PROVE Starts(t)
    <3>1. Ask(t, "create subscription", {}, {s}, "device")  BY <2>1 DEF CreateSubscription
    <3>2. "create subscription" \in Ops /\ s \in {s}  BY DEF Ops
    <3>. QED
      BY <1>0, <1>3, <1>5, <3>1, <3>2, AskStarts
      DEF Creates, SubscriptionOps, ScheduleOps, DeviceOps
  <2>2. ASSUME NEW s \in Wanted, NEW i \in DOMAIN subscriptions, UpdateSubscription(t, i, s)
        PROVE  Starts(t)
    <3>1. Ask(t, "update subscription", {i}, {s}, "existing")  BY <2>2 DEF UpdateSubscription
    <3>2. "update subscription" \in Ops /\ s \in {s} /\ i \in Ids  BY <1>1 DEF Ops
    <3>. QED
      BY <1>0, <1>3, <1>5, <3>1, <3>2, AskStarts
      DEF Creates, SubscriptionOps, ScheduleOps, DeviceOps
  <2>3. ASSUME NEW s \in WantedSchedule, CreateSchedule(t, s)  PROVE Starts(t)
    <3> DEFINE step == IF ValidateCronExpr(s.cron) THEN "source" ELSE "answered"
    <3>1. Ask(t, "create schedule", {}, {s}, step)  BY <2>3 DEF CreateSchedule
    <3>2. "create schedule" \in Ops /\ s \in {s}  BY DEF Ops
    <3>3. step \in {"source", "answered"} /\ (step = "source" => s \in Schedule)  BY <1>4
    <3> HIDE DEF step
    <3>. QED
      BY <1>0, <1>5, <3>1, <3>2, <3>3, AskStarts
      DEF Creates, SubscriptionOps, ScheduleOps, DeviceOps
  <2>4. ASSUME NEW s \in WantedSchedule, NEW i \in DOMAIN schedules, UpdateSchedule(t, i, s)
        PROVE  Starts(t)
    <3> DEFINE step == IF ValidateCronExpr(s.cron) THEN "existing" ELSE "answered"
    <3>1. Ask(t, "update schedule", {i}, {s}, step)  BY <2>4 DEF UpdateSchedule
    <3>2. "update schedule" \in Ops /\ s \in {s} /\ i \in Ids  BY <1>1 DEF Ops
    <3>3. step \in {"existing", "answered"} /\ (step = "existing" => s \in Schedule)  BY <1>4
    <3> HIDE DEF step
    <3>. QED
      BY <1>0, <1>5, <3>1, <3>2, <3>3, AskStarts
      DEF Creates, SubscriptionOps, ScheduleOps, DeviceOps
  <2>5. ASSUME NEW x \in Specs, CreateDevice(t, x)  PROVE Starts(t)
    <3> DEFINE step == IF ValidDevice(x) THEN "slug" ELSE "answered"
    <3>1. Ask(t, "create device", {}, {x}, step)  BY <2>5 DEF CreateDevice
    <3>2. "create device" \in Ops /\ x \in {x}  BY DEF Ops
    <3>3. step \in {"slug", "answered"} /\ (step = "slug" => ValidDevice(x))  OBVIOUS
    <3> HIDE DEF step
    <3>. QED
      BY <1>0, <1>5, <3>1, <3>2, <3>3, AskStarts
      DEF Creates, SubscriptionOps, ScheduleOps, DeviceOps
  <2>6. ASSUME NEW x \in Specs, NEW i \in DOMAIN devices, UpdateDevice(t, i, x)  PROVE Starts(t)
    <3> DEFINE step == IF ValidDevice(x) THEN "existing" ELSE "answered"
    <3>1. Ask(t, "update device", {i}, {x}, step)  BY <2>6 DEF UpdateDevice
    <3>2. "update device" \in Ops /\ x \in {x} /\ i \in Ids  BY <1>1 DEF Ops
    <3>3. step \in {"existing", "answered"} /\ (step = "existing" => ValidDevice(x))  OBVIOUS
    <3> HIDE DEF step
    <3>. QED
      BY <1>0, <1>5, <3>1, <3>2, <3>3, AskStarts
      DEF Creates, SubscriptionOps, ScheduleOps, DeviceOps
  <2>7. ASSUME NEW i \in Ids,
               NEW op \in {"delete subscription", "delete schedule", "delete device",
                           "delete source", "favorite image", "delete image"},
               Ask(t, op, {i}, {}, "existing")
        PROVE  Starts(t)
    <3>1. op \in Ops /\ op \notin Creates \cup SubscriptionOps \cup ScheduleOps \cup DeviceOps
      BY DEF Ops, Creates, SubscriptionOps, ScheduleOps, DeviceOps
    <3>. QED  BY <1>0, <1>5, <2>7, <3>1, AskStarts
  <2>8. CASE \E i \in Ids : \/ DeleteSubscription(t, i) \/ DeleteSchedule(t, i)
                            \/ DeleteDevice(t, i) \/ DeleteSource(t, i)
                            \/ SetImageFavorite(t, i) \/ DeleteImage(t, i)
    BY <2>7, <2>8 DEF DeleteSubscription, DeleteSchedule, DeleteDevice, DeleteSource,
                      SetImageFavorite, DeleteImage
  <2>. QED  BY <1>1, <2>1, <2>2, <2>3, <2>4, <2>5, <2>6, <2>8 DEF Receive
<1>7. overtaken' = [overtaken EXCEPT ![t] = FALSE]
  BY DEF Receive, Ask, CreateSubscription, UpdateSubscription, DeleteSubscription, CreateSchedule,
         UpdateSchedule, DeleteSchedule, CreateDevice, UpdateDevice, DeleteDevice, DeleteSource,
         SetImageFavorite, DeleteImage
<1>. QED  BY <1>6, <1>7

\* A writing statement of t, or of the worker, overtakes whoever is at work.
LEMMA ExecuteOvertakes ==
  ASSUME NEW t \in Threads, Execute(t)
  PROVE  \/ UNCHANGED <<tables, overtaken>>
         \/ overtaken' = [u \in Threads |-> overtaken[u] \/ (u # t /\ requests[u] # NoRequest)]
<1>1. CASE Reading(t)  BY <1>1, ReadingKeeps
<1>2. ASSUME NEW i \in Ids \ used,
             InsertSubscription(t, i) \/ InsertDevice(t, i) \/ InsertSchedule(t, i)
      PROVE  Writes(t)
  BY <1>2 DEF InsertSubscription, InsertDevice, InsertSchedule
<1>3. CASE \/ RewriteSubscription(t) \/ RewriteDevice(t) \/ RewriteSchedule(t)
           \/ RemoveSubscription(t) \/ RemoveSchedule(t) \/ RemoveDevice(t) \/ RemoveSource(t)
           \/ RemoveImage(t)
  BY <1>3 DEF RewriteSubscription, RewriteDevice, RewriteSchedule, RemoveSubscription,
              RemoveSchedule, RemoveDevice, RemoveSource, RemoveImage, Writes
<1>4. ASSUME NEW flag \in BOOLEAN, SetFavorite(t, flag)  PROVE Writes(t)
  BY <1>4 DEF SetFavorite
<1>. QED  BY <1>1, <1>2, <1>3, <1>4 DEF Execute, Reading, Writes

LEMMA RequestsInit == Init => RequestsOK /\ ChecksOK
<1>1. SUFFICES ASSUME Init  PROVE RequestsOK /\ ChecksOK
  OBVIOUS
<1>2. /\ requests = [t \in Threads |-> NoRequest]
      /\ overtaken = [t \in Threads |-> FALSE]
  BY <1>1 DEF Init
<1>3. NoRequest \in RequestType  BY DEF NoRequest, RequestType
<1>4. NoRequest.step = "idle" /\ NoRequest.answer = "none"  BY DEF NoRequest
<1>5. Shaped(NoRequest)  BY <1>3, <1>4 DEF Shaped
<1>6. Found(NoRequest, devices, sources, subscriptions, schedules)  BY <1>4 DEF Found
<1>. QED  BY <1>2, <1>3, <1>5, <1>6 DEF RequestsOK, ChecksOK

\* Every step keeps the requests in shape and what they found true, but for those
\* overtaken.
LEMMA RequestsStep ==
  ASSUME IInv, [Next]_vars
  PROVE  RequestsOK' /\ ChecksOK'
<1>0. /\ requests \in [Threads -> RequestType] /\ overtaken \in [Threads -> BOOLEAN]
      /\ \A t \in Threads : Shaped(requests[t])
      /\ \A t \in Threads :
           ~ overtaken[t] => Found(requests[t], devices, sources, subscriptions, schedules)
      /\ \A t \in Threads : requests[t].step = "idle" => requests[t] = NoRequest
  BY DEF IInv, RequestsOK, ChecksOK, Shaped
<1> DEFINE Fine(t) ==
      ~ overtaken'[t] => Found(requests'[t], devices', sources', subscriptions', schedules')
<1>1. ASSUME requests' \in [Threads -> RequestType], overtaken' \in [Threads -> BOOLEAN],
             \A t \in Threads : Shaped(requests'[t]) /\ Fine(t)
      PROVE  RequestsOK' /\ ChecksOK'
  BY <1>1 DEF RequestsOK, ChecksOK
<1>2. \A r : Shaped(r) => r \in RequestType  BY DEF Shaped
<1>3. Found(NoRequest, devices', sources', subscriptions', schedules')
  <2>1. NoRequest.step = "idle" /\ NoRequest.answer = "none"  BY DEF NoRequest
  <2>. QED  BY <2>1 DEF Found
<1>4. CASE UNCHANGED <<tables, requests, overtaken>>
  BY <1>0, <1>1, <1>4 DEF tables
<1>5. ASSUME NEW t \in Threads, Execute(t)  PROVE RequestsOK' /\ ChecksOK'
  <2>1. Moves(t)  BY <1>5, ExecuteMoves
  <2>2. requests' \in [Threads -> RequestType] /\ \A u \in Threads : Shaped(requests'[u])
    BY <1>0, <1>2, <2>1 DEF Moves
  <2>3. CASE UNCHANGED <<tables, overtaken>>
    <3>1. \A u \in Threads \ {t} : Fine(u)  BY <1>0, <2>1, <2>3 DEF Moves, tables
    <3>2. Fine(t)  BY <2>1, <2>3 DEF Moves
    <3>. QED  BY <1>0, <1>1, <2>2, <2>3, <3>1, <3>2
  <2>4. CASE overtaken' = [u \in Threads |-> overtaken[u] \/ (u # t /\ requests[u] # NoRequest)]
    <3>1. overtaken' \in [Threads -> BOOLEAN]  BY <1>0, <2>4
    <3>2. Fine(t)  BY <1>0, <2>1, <2>4 DEF Moves
    <3>3. \A u \in Threads \ {t} : Fine(u)
      <4>1. SUFFICES ASSUME NEW u \in Threads \ {t}, ~ overtaken'[u]
                     PROVE  Found(requests'[u], devices', sources', subscriptions', schedules')
        OBVIOUS
      <4>2. requests'[u] = NoRequest  BY <2>1, <2>4, <4>1 DEF Moves
      <4>. QED  BY <1>3, <4>2
    <3>. QED  BY <1>1, <2>2, <3>1, <3>2, <3>3
  <2>. QED  BY <1>5, <2>3, <2>4, ExecuteOvertakes
<1>6. ASSUME NEW t \in Threads, Receive(t)  PROVE RequestsOK' /\ ChecksOK'
  <2>1. Starts(t) /\ overtaken' = [overtaken EXCEPT ![t] = FALSE] /\ UNCHANGED tables
    BY <1>6, ReceiveStarts, ReceiveIsAsk
  <2>2. requests' \in [Threads -> RequestType] /\ \A u \in Threads : Shaped(requests'[u])
    BY <1>0, <1>2, <2>1 DEF Starts
  <2>3. overtaken' \in [Threads -> BOOLEAN]  BY <1>0, <2>1
  <2>4. \A u \in Threads \ {t} : Fine(u)  BY <1>0, <2>1 DEF Starts, tables
  <2>5. Fine(t)  BY <2>1 DEF Starts, tables
  <2>. QED  BY <1>1, <2>2, <2>3, <2>4, <2>5
<1>7. CASE Sync
  <2>1. requests' = requests /\ overtaken' = [t \in Threads |-> requests[t] # NoRequest]
    BY <1>7 DEF Sync, StartSync, Yield, Deliver, EndSync, WorkerWrites
  <2>2. overtaken' \in [Threads -> BOOLEAN]  BY <2>1
  <2>3. \A t \in Threads : Fine(t)
    <3>1. SUFFICES ASSUME NEW t \in Threads, ~ overtaken'[t]
                   PROVE  Found(requests'[t], devices', sources', subscriptions', schedules')
      OBVIOUS
    <3>2. requests'[t] = NoRequest  BY <2>1, <3>1
    <3>. QED  BY <1>3, <3>2
  <2>. QED  BY <1>0, <1>1, <2>1, <2>2, <2>3
<1>8. CASE Scan  BY <1>4, <1>8, ScanKeeps
<1>9. CASE UNCHANGED vars  BY <1>4, <1>9 DEF vars, history
<1>. QED  BY <1>5, <1>6, <1>7, <1>8, <1>9 DEF Next

-----------------------------------------------------------------------------
(* The scan *)

\* A listing is of rows that exist.
LEMMA ListedUsed == DatabaseOK /\ ScanOK => Listed \subseteq used
<1>1. SUFFICES ASSUME DatabaseOK, ScanOK  PROVE Listed \subseteq used
  OBVIOUS
<1>2. /\ DOMAIN devices \subseteq used /\ DOMAIN sources \subseteq used
      /\ DOMAIN subscriptions \subseteq used /\ DOMAIN schedules \subseteq used
      /\ DOMAIN jobs \subseteq used /\ DOMAIN images \subseteq used
  BY <1>1, TableFacts DEF DatabaseOK
<1>3. Filtered(Rows, scan.filter) \subseteq DOMAIN images  BY DEF Filtered, Rows
<1>4. \A d : DeviceRows(d, scan.filter) \subseteq DOMAIN images
  BY DEF DeviceRows, DeviceFiltered, Rows
<1>5. SubscriptionRows(scan.filter) \subseteq DOMAIN subscriptions  BY DEF SubscriptionRows
<1>6. JobRows(scan.filter) \subseteq DOMAIN jobs  BY DEF JobRows
<1>7. CASE scan.listing = "images"  BY <1>2, <1>3, <1>7 DEF Listed
<1>8. CASE scan.listing = "device images"
  <2>1. Listed = UNION {DeviceRows(d, scan.filter) : d \in scan.device}  BY <1>8 DEF Listed
  <2>. QED  BY <1>2, <1>4, <2>1
<1>9. CASE scan.listing = "subscriptions"  BY <1>2, <1>5, <1>9 DEF Listed
<1>10. CASE scan.listing = "schedules"  BY <1>2, <1>10 DEF Listed
<1>11. CASE scan.listing = "jobs"  BY <1>2, <1>6, <1>11 DEF Listed
<1>12. CASE scan.listing = "devices"  BY <1>2, <1>12 DEF Listed
<1>13. CASE scan.listing = "sources"  BY <1>2, <1>13 DEF Listed
<1>. QED  BY <1>1, <1>7, <1>8, <1>9, <1>10, <1>11, <1>12, <1>13 DEF ScanOK

LEMMA ListedFinite ==
  ASSUME DatabaseOK, ScanOK
  PROVE  Listed \subseteq Nat /\ IsFiniteSet(Listed) /\ used \subseteq Nat
BY ListedUsed, FS_Subset, NumbersAssumption DEF DatabaseOK

\* Every page is a page of the listing, in an order of its own.
LEMMA PageIsListed ==
  ASSUME ScanOK, NEW q
  PROVE  \E default : PageAt(q) = Page(Listed, default, q)
<1>1. CASE scan.listing = "images"  BY <1>1 DEF PageAt, Listed, ListImages
<1>2. CASE scan.listing = "device images"
  <2>1. PICK d \in Ids : scan.device = {d}  BY <1>2 DEF ScanOK
  <2>2. (CHOOSE e \in scan.device : TRUE) = d  BY <2>1
  <2>3. PageAt(q) = ListDeviceImages(d, scan.filter, q)  BY <1>2, <2>2 DEF PageAt
  <2>4. Listed = UNION {DeviceRows(e, scan.filter) : e \in scan.device}  BY <1>2 DEF Listed
  <2>5. Listed = DeviceRows(d, scan.filter)  BY <2>1, <2>4
  <2>. QED  BY <2>3, <2>5 DEF ListDeviceImages
<1>3. CASE scan.listing = "subscriptions"  BY <1>3 DEF PageAt, Listed, ListSubscriptions
<1>4. CASE scan.listing = "schedules"  BY <1>4 DEF PageAt, Listed, ListSchedules
<1>5. CASE scan.listing = "jobs"  BY <1>5 DEF PageAt, Listed, ListJobs
<1>6. CASE scan.listing = "devices"  BY <1>6 DEF PageAt, Listed, ListDevices
<1>7. CASE scan.listing = "sources"  BY <1>7 DEF PageAt, Listed, ListSources
<1>. QED  BY <1>1, <1>2, <1>3, <1>4, <1>5, <1>6, <1>7 DEF ScanOK

\* What a step of the client makes of the scan.
LEMMA ReadPageFields ==
  ASSUME ScanOK, ReadPage
  PROVE  LET p == PageAt(Query(scan.cursor, {}))
         IN  /\ scan.at = "reading" /\ scan'.at = IF p.next = {} THEN "done" ELSE "reading"
             /\ scan'.cursor = p.next /\ scan'.back = p.prev
             /\ scan'.seen = scan.seen \cup p.items
             /\ scan'.twice = (scan.twice \/ p.items \cap scan.seen # {})
             /\ scan'.before = scan.last /\ scan'.last = p.items
             /\ DOMAIN scan' = DOMAIN scan /\ scan'.listing = scan.listing
             /\ scan'.device = scan.device /\ scan'.filter = scan.filter
             /\ scan'.sorts = scan.sorts
BY DEF ReadPage, ScanOK

LEMMA TurnBackFields ==
  ASSUME ScanOK, TurnBack
  PROVE  /\ scan.at \in {"reading", "done"} /\ scan.back # {} /\ scan'.at = "turned"
         /\ scan'.turned = PageAt(Query({}, scan.back)).items
         /\ DOMAIN scan' = DOMAIN scan /\ scan'.listing = scan.listing
         /\ scan'.device = scan.device /\ scan'.filter = scan.filter
         /\ scan'.sorts = scan.sorts /\ scan'.seen = scan.seen /\ scan'.twice = scan.twice
         /\ scan'.before = scan.before
BY DEF TurnBack, ScanOK

LEMMA ScanFailsFields ==
  ASSUME ScanOK, ScanFails
  PROVE  /\ scan.at = "reading" /\ scan'.at = "failed"
         /\ DOMAIN scan' = DOMAIN scan /\ scan'.listing = scan.listing
         /\ scan'.device = scan.device /\ scan'.filter = scan.filter
         /\ scan'.sorts = scan.sorts /\ scan'.seen = scan.seen /\ scan'.twice = scan.twice
BY DEF ScanFails, ScanOK

LEMMA BeginScanFields ==
  ASSUME NEW a \in Asked, NEW sorts \in Sorts, BeginScan(a, sorts)
  PROVE  /\ scan.at = "idle" /\ scan'.at = "reading"
         /\ scan'.listing = a.listing /\ scan'.device = a.device /\ scan'.filter = a.filter
         /\ scan'.sorts = sorts /\ scan'.cursor = {} /\ scan'.back = {} /\ scan'.seen = {}
         /\ scan'.twice = FALSE /\ DOMAIN scan' = DOMAIN NoScan
BY DEF BeginScan, NoScan

LEMMA ScanInit == Init => ScanOK /\ ScanInv
BY DEF Init, NoScan, ScanOK, ScanInv

LEMMA UsedGrows ==
  ASSUME IInv, [Next]_vars
  PROVE  used \subseteq used'
<1>1. ASSUME NEW t \in Threads, Execute(t)  PROVE used \subseteq used'
  <2>1. CASE Reading(t)  BY <2>1, ReadingKeeps
  <2>2. ASSUME NEW i \in Ids \ used,
               InsertSubscription(t, i) \/ InsertDevice(t, i) \/ InsertSchedule(t, i)
        PROVE  used \subseteq used'
    BY <2>2 DEF InsertSubscription, InsertDevice, InsertSchedule
  <2>3. CASE \/ RewriteSubscription(t) \/ RewriteDevice(t) \/ RewriteSchedule(t)
             \/ RemoveSubscription(t) \/ RemoveSchedule(t) \/ RemoveDevice(t) \/ RemoveSource(t)
             \/ RemoveImage(t)
    BY <2>3 DEF RewriteSubscription, RewriteDevice, RewriteSchedule, RemoveSubscription,
                RemoveSchedule, RemoveDevice, RemoveSource, RemoveImage
  <2>4. ASSUME NEW flag \in BOOLEAN, SetFavorite(t, flag)  PROVE used \subseteq used'
    BY <2>4 DEF SetFavorite
  <2>. QED  BY <1>1, <2>1, <2>2, <2>3, <2>4 DEF Execute, Reading
<1>2. CASE Sync  BY <1>2 DEF Sync, StartSync, Yield, Deliver, EndSync
<1>3. CASE Scan  BY <1>3, ScanKeeps
<1>4. ASSUME NEW t \in Threads, Receive(t)  PROVE used \subseteq used'
  BY <1>4, ReceiveIsAsk
<1>5. CASE UNCHANGED vars  BY <1>5 DEF vars
<1>. QED  BY <1>1, <1>2, <1>3, <1>4, <1>5 DEF Next

\* Steps that are not the client's leave the scan alone and are observed, or
\* change nothing it looks at.
LEMMA OtherSteps ==
  ASSUME [Next]_vars, ~ Scan
  PROVE  /\ scan' = scan
         /\ Observe \/ UNCHANGED <<tables, steady, delivered, calm>>
<1>1. ASSUME NEW t \in Threads, Execute(t)  PROVE scan' = scan /\ Observe
  <2>1. CASE Reading(t)
    BY <2>1 DEF Reading, Reads, GetExisting, CheckDevice, CheckSource, CheckDuplicate, CheckSlug,
                ReadBack, Warn
  <2>2. ASSUME NEW i \in Ids \ used,
               InsertSubscription(t, i) \/ InsertDevice(t, i) \/ InsertSchedule(t, i)
        PROVE  scan' = scan /\ Observe
    BY <2>2 DEF InsertSubscription, InsertDevice, InsertSchedule
  <2>3. CASE \/ RewriteSubscription(t) \/ RewriteDevice(t) \/ RewriteSchedule(t)
             \/ RemoveSubscription(t) \/ RemoveSchedule(t) \/ RemoveDevice(t) \/ RemoveSource(t)
             \/ RemoveImage(t)
    BY <2>3 DEF RewriteSubscription, RewriteDevice, RewriteSchedule, RemoveSubscription,
                RemoveSchedule, RemoveDevice, RemoveSource, RemoveImage
  <2>4. ASSUME NEW flag \in BOOLEAN, SetFavorite(t, flag)  PROVE scan' = scan /\ Observe
    BY <2>4 DEF SetFavorite
  <2>. QED  BY <1>1, <2>1, <2>2, <2>3, <2>4 DEF Execute, Reading
<1>2. CASE Sync  BY <1>2 DEF Sync, StartSync, Yield, Deliver, EndSync
<1>3. ASSUME NEW t \in Threads, Receive(t)
      PROVE  scan' = scan /\ UNCHANGED <<tables, steady, delivered, calm>>
  BY <1>3, ReceiveIsAsk
<1>4. CASE UNCHANGED vars  BY <1>4 DEF vars, history
<1>. QED  BY <1>1, <1>2, <1>3, <1>4 DEF Next

LEMMA ScanStep ==
  ASSUME IInv, [Next]_vars
  PROVE  ScanOK'
<1>0. DatabaseOK /\ ScanOK /\ used \subseteq used'  BY UsedGrows DEF IInv
<1>1. CASE ~ Scan
  <2>1. scan' = scan  BY <1>1, OtherSteps
  <2>. QED  BY <1>0, <2>1 DEF ScanOK
<1>2. ASSUME NEW a \in Asked, NEW sorts \in Sorts, BeginScan(a, sorts)  PROVE ScanOK'
  <2>1. DOMAIN NoScan = {"at", "listing", "device", "filter", "sorts", "cursor", "back", "seen",
                         "twice", "last", "before", "turned"}
    BY DEF NoScan
  <2>2. /\ scan'.at = "reading" /\ scan'.listing = a.listing /\ scan'.device = a.device
        /\ scan'.filter = a.filter /\ scan'.seen = {} /\ DOMAIN scan' = DOMAIN NoScan
    BY <1>2, BeginScanFields
  <2>3. /\ a.listing \in {"images", "device images", "subscriptions", "schedules", "jobs", "devices",
                         "sources"}
        /\ a.listing = "device images" => \E d \in Ids : a.device = {d}
    BY AskedAssumption
  <2>4. {"adult", "favorite", "minWidth", "maxWidth", "minHeight", "maxHeight", "minSize", "maxSize",
         "words"} \subseteq DOMAIN a.filter
    BY AskedAssumption
  <2>. QED  BY <2>1, <2>2, <2>3, <2>4 DEF ScanOK
<1>3. CASE ReadPage
  <2> DEFINE p == PageAt(Query(scan.cursor, {}))
  <2>1. PICK default : p = Page(Listed, default, Query(scan.cursor, {}))
    BY <1>0, PageIsListed
  <2>2. p.items \subseteq Listed
    <3>1. \A R, d, q : Page(R, d, q).items \subseteq Selected(R, q)
      BY DEF Page, Returned, Places
    <3>2. \A R, q : Selected(R, q) \subseteq R  BY DEF Selected
    <3> HIDE DEF p
    <3>. QED  BY <2>1, <3>1, <3>2
  <2>3. p.items \subseteq used  BY <1>0, <2>2, ListedUsed
  <2>4. scan'.seen \subseteq used'  BY <1>0, <1>3, <2>3, ReadPageFields DEF ScanOK
  <2>. QED  BY <1>0, <1>3, <2>4, ReadPageFields DEF ScanOK
<1>4. CASE TurnBack  BY <1>0, <1>4, TurnBackFields DEF ScanOK
<1>5. CASE ScanFails  BY <1>0, <1>5, ScanFailsFields DEF ScanOK
<1>. QED  BY <1>1, <1>2, <1>3, <1>4, <1>5 DEF Scan

\* The invariant is inductive.
LEMMA Inductive == Spec => []IInv
<1>1. Init => IInv  BY DatabaseInit, RequestsInit, ScanInit DEF IInv
<1>2. IInv /\ [Next]_vars => IInv'  BY DatabaseStep, RequestsStep, ScanStep DEF IInv
<1>. QED  BY <1>1, <1>2, PTL DEF Spec

\* The rows always have their types, refer to rows that exist and are unique where
\* the schema says so (internal/db/migrations): after any interleaving of requests
\* with each other and with the worker.
THEOREM TypesCorrect == Spec => []TypeOK
<1>1. IInv => TypeOK
  <2>1. SUFFICES ASSUME IInv  PROVE TypeOK
    OBVIOUS
  <2>2. DatabaseOK /\ RequestsOK /\ ScanOK  BY <2>1 DEF IInv
  <2>3. /\ DOMAIN devices \subseteq used /\ DOMAIN sources \subseteq used
        /\ DOMAIN subscriptions \subseteq used /\ DOMAIN schedules \subseteq used
        /\ DOMAIN jobs \subseteq used /\ DOMAIN images \subseteq used
    BY <2>2, TableFacts DEF DatabaseOK
  <2>4. \A I, R : \A table \in Table(I, R) : table \in [DOMAIN table -> R]
    BY DEF Table
  <2>5. /\ devices \in [DOMAIN devices -> Specs] /\ sources \in [DOMAIN sources -> Nat]
        /\ subscriptions \in [DOMAIN subscriptions -> Subscription]
        /\ schedules \in [DOMAIN schedules -> Schedule]
        /\ jobs \in [DOMAIN jobs -> Job] /\ images \in [DOMAIN images -> Image]
    BY <2>2, <2>4 DEF DatabaseOK
  <2>6. \A t \in Threads : requests[t] \in RequestType  BY <2>2 DEF RequestsOK
  <2>. QED  BY <2>2, <2>3, <2>5, <2>6 DEF TypeOK, DatabaseOK, ScanOK
<1>. QED  BY <1>1, Inductive, PTL

\* What the checks of a request have found the database does not refuse, and a
\* request finds the row it has created, as long as nobody else has written since
\* it began (CreateSubscription.go, CreateSchedule.go, CreateDevice.go).
THEOREM ChecksCoverCorrect == Spec => []ChecksCover
<1>1. IInv => ChecksCover
  BY DEF IInv, ChecksOK, Found, ChecksCover, Creates
<1>. QED  BY <1>1, Inductive, PTL

\* The warnings of CheckOverlapWarnings, which compares neighbours only, miss no
\* two schedules of one source that fire close to each other, whatever their
\* number and the times they fire at.
THEOREM OverlapsToldCorrect == Spec => []OverlapsTold
<1>1. IInv => OverlapsTold
  <2>1. SUFFICES ASSUME IInv, NEW t \in Threads,
                        requests[t].op \in {"create schedule", "update schedule"},
                        requests[t].answer = "ok", ~ overtaken[t]
                 PROVE  requests[t].warned = Overlapping(schedules)
    BY DEF OverlapsTold, Overlapping, Close
  <2>2. requests[t].step = "answered"  BY <2>1 DEF IInv, RequestsOK, Shaped
  <2>. QED  BY <2>1, <2>2 DEF IInv, ChecksOK, Found, ScheduleOps
<1>. QED  BY <1>1, Inductive, PTL

-----------------------------------------------------------------------------
(* The scan with a sort *)

\* The rows of the listing beyond the cursor.
Ahead == {i \in Listed : \A c \in scan.cursor : c < i}

\* The page the client reads next.
LEMMA ReadFacts ==
  ASSUME DatabaseOK, ScanOK, scan.sorts # {}, ReadPage
  PROVE  /\ scan'.last = FirstRows(Ahead, PageLimit)
         /\ scan'.cursor = {} => scan'.last = Ahead
         /\ scan'.cursor # {} =>
              /\ Cardinality(scan'.last) = PageLimit
              /\ \E m \in scan'.last : scan'.cursor = {m} /\ (\A i \in scan'.last : i <= m)
         /\ scan'.back = IF scan.cursor = {} THEN {}
                         ELSE {i \in scan'.last : \A j \in scan'.last : i <= j}
<1> DEFINE q == Query(scan.cursor, {})
           p == PageAt(q)
<1>1. PICK default : p = Page(Listed, default, q)  BY PageIsListed
<1>2. Listed \in SUBSET Nat /\ IsFiniteSet(Listed)  BY ListedFinite
<1>3. q.next = scan.cursor /\ q.prev = {} /\ Sorted(q)  BY DEF Query, Sorted
<1>4. ~ IsPrev(q)  BY <1>3 DEF IsPrev
<1>5. Selected(Listed, q) = Ahead
  <2>1. \A i \in Listed : (\A n \in scan.cursor : i > n) <=> (\A c \in scan.cursor : c < i)
    OBVIOUS
  <2> HIDE DEF q
  <2>. QED  BY <1>3, <1>4, <2>1 DEF Selected, Ahead
<1> HIDE DEF q, p
<1>6. /\ p.items = FirstRows(Ahead, PageLimit)
      /\ p.next = {} => p.items = Ahead
      /\ p.next # {} => /\ Cardinality(p.items) = PageLimit
                        /\ \E m \in p.items : p.next = {m} /\ (\A i \in p.items : i <= m)
      /\ p.prev = IF q.next = {} THEN {} ELSE {i \in p.items : \A j \in p.items : i <= j}
  <2>1. LET pg == Page(Listed, default, q)
            S == Selected(Listed, q)
        IN  /\ pg.items = FirstRows(S, PageLimit)
            /\ pg.next = {} => pg.items = S
            /\ pg.next # {} =>
                 /\ Cardinality(pg.items) = PageLimit
                 /\ \E m \in pg.items : pg.next = {m} /\ (\A i \in pg.items : i <= m)
            /\ pg.prev = IF q.next = {} THEN {}
                         ELSE {i \in pg.items : \A j \in pg.items : i <= j}
    BY <1>2, <1>3, <1>4, ForwardPage
  <2>. QED  BY <1>1, <1>5, <2>1
<1>7. scan'.last = p.items /\ scan'.cursor = p.next /\ scan'.back = p.prev
  BY ReadPageFields DEF p, q
<1>. QED  BY <1>3, <1>6, <1>7

\* The page the client turns back to.
LEMMA TurnFacts ==
  ASSUME DatabaseOK, ScanOK, scan.sorts # {}, TurnBack, NEW b \in Listed, scan.back = {b},
         Window(scan.before, Below(Listed, b))
  PROVE  scan'.turned = scan.before
<1> DEFINE q == Query({}, scan.back)
<1>1. PICK default : PageAt(q) = Page(Listed, default, q)  BY PageIsListed
<1>2. Listed \in SUBSET Nat /\ IsFiniteSet(Listed) /\ b \in Nat  BY ListedFinite
<1>3. q.next = {} /\ q.prev = {b} /\ Sorted(q)  BY DEF Query, Sorted
<1> HIDE DEF q
<1>4. Page(Listed, default, q).items = LastRows(Below(Listed, b), PageLimit)
  BY <1>2, <1>3, BackwardPage
<1>5. Below(Listed, b) \in SUBSET Nat /\ IsFiniteSet(Below(Listed, b))
  <2>1. Below(Listed, b) \in SUBSET Listed  BY DEF Below
  <2>. QED  BY <1>2, <2>1, FS_Subset
<1>6. LastRows(Below(Listed, b), PageLimit) = scan.before  BY <1>5, WindowIsLast
<1>. QED  BY <1>1, <1>4, <1>6, TurnBackFields DEF q

\* Nothing that stays is lost, and nothing comes twice.
LEMMA ReadFollowed ==
  ASSUME IInv, ScanInv, ReadPage, used \subseteq used', steady' = steady \cap Listed'
  PROVE  Followed' /\ ~ scan'.twice
<1>0. DatabaseOK /\ ScanOK  BY DEF IInv
<1>1. scan.at = "reading"  BY <1>0, ReadPageFields
<1>2. scan.sorts # {} /\ Followed  BY <1>1 DEF ScanInv
<1>3. /\ Ahead \in SUBSET Nat /\ IsFiniteSet(Ahead) /\ Ahead \subseteq used
      /\ Listed \subseteq Nat /\ used \subseteq Nat /\ scan.seen \subseteq Nat
  <2>1. Ahead \in SUBSET Listed  BY DEF Ahead
  <2>. QED  BY <1>0, <2>1, ListedFinite, ListedUsed, FS_Subset DEF ScanOK
<1>4. /\ scan'.last = FirstRows(Ahead, PageLimit)
      /\ scan'.cursor = {} => scan'.last = Ahead
      /\ scan'.cursor # {} =>
           \E m \in scan'.last : scan'.cursor = {m} /\ (\A i \in scan'.last : i <= m)
  BY <1>0, <1>2, ReadFacts
<1>5. /\ scan'.at = IF scan'.cursor = {} THEN "done" ELSE "reading"
      /\ scan'.seen = scan.seen \cup scan'.last
      /\ scan'.twice = (scan.twice \/ scan'.last \cap scan.seen # {})
  BY <1>0, ReadPageFields
<1>6. scan'.last \subseteq Ahead  BY <1>4 DEF FirstRows
<1>7. \A r \in scan.seen : r \notin Ahead
  <2>1. SUFFICES ASSUME NEW r \in scan.seen, r \in Ahead  PROVE FALSE
    OBVIOUS
  <2>2. PICK c \in used : scan.cursor = {c} /\ \A n \in scan.seen : n <= c
    BY <1>1, <1>2, <2>1 DEF Followed
  <2>3. c < r /\ r <= c  BY <2>1, <2>2 DEF Ahead
  <2>. QED  BY <1>3, <2>2, <2>3
<1>8. ~ scan'.twice
  <2>1. scan'.last \cap scan.seen = {}  BY <1>6, <1>7
  <2>. QED  BY <1>5, <2>1 DEF ScanInv
<1>9. \A r \in steady : r \in scan.seen \/ r \in Ahead
  BY <1>1, <1>2 DEF Followed, Ahead
<1>10. CASE scan'.cursor = {}
  <2>1. steady' \subseteq scan'.seen  BY <1>4, <1>5, <1>9, <1>10
  <2>. QED  BY <1>5, <1>8, <1>10, <2>1 DEF Followed
<1>11. CASE scan'.cursor # {}
  <2>1. PICK m \in scan'.last : scan'.cursor = {m} /\ (\A i \in scan'.last : i <= m)
    BY <1>4, <1>11
  <2>2. m \in Ahead /\ m \in used' /\ m \in Nat  BY <1>3, <1>6, <2>1
  <2>3. \A r \in scan'.seen : r <= m
    <3>1. ASSUME NEW r \in scan.seen  PROVE r <= m
      <4>1. PICK c \in used : scan.cursor = {c} /\ \A n \in scan.seen : n <= c
        BY <1>1, <1>2, <3>1 DEF Followed
      <4>2. r <= c /\ c < m  BY <2>2, <4>1 DEF Ahead
      <4>. QED  BY <1>3, <2>2, <4>1, <4>2
    <3>. QED  BY <1>5, <2>1, <3>1
  <2>4. \A r \in steady' : r \in scan'.seen \/ m < r
    <3>1. ASSUME NEW r \in Ahead, r \notin scan'.last  PROVE m < r
      BY <1>3, <1>4, <2>1, <3>1, LimitType, FirstRowsClosed
    <3>. QED  BY <1>5, <1>9, <3>1
  <2>5. scan'.at = "reading"  BY <1>5, <1>11
  <2>. QED  BY <1>8, <2>1, <2>2, <2>3, <2>4, <2>5 DEF Followed
<1>. QED  BY <1>10, <1>11

\* The pages of a listing that does not change follow each other.
LEMMA ReadWindows ==
  ASSUME IInv, ScanInv, ReadPage, calm, Listed' = Listed
  PROVE  Windows'
<1>0. DatabaseOK /\ ScanOK  BY DEF IInv
<1>1. scan.at = "reading"  BY <1>0, ReadPageFields
<1>2. scan.sorts # {} /\ Followed /\ Windows  BY <1>1 DEF ScanInv
<1>3. /\ Ahead \in SUBSET Nat /\ IsFiniteSet(Ahead) /\ Ahead \subseteq Listed
      /\ Listed \subseteq Nat /\ used \subseteq Nat
  <2>1. Ahead \in SUBSET Listed  BY DEF Ahead
  <2>. QED  BY <1>0, <2>1, ListedFinite, FS_Subset
<1>4. /\ scan'.last = FirstRows(Ahead, PageLimit)
      /\ scan'.cursor # {} =>
           /\ Cardinality(scan'.last) = PageLimit
           /\ \E m \in scan'.last : scan'.cursor = {m} /\ (\A i \in scan'.last : i <= m)
      /\ scan'.back = IF scan.cursor = {} THEN {}
                      ELSE {i \in scan'.last : \A j \in scan'.last : i <= j}
  BY <1>0, <1>2, ReadFacts
<1>5. /\ scan'.at \in {"reading", "done"} /\ scan'.before = scan.last
  BY <1>0, ReadPageFields
<1>6. scan'.last \subseteq Ahead  BY <1>4 DEF FirstRows
<1>7. \A i \in scan'.last, j \in Ahead : j \notin scan'.last => i < j
  BY <1>3, <1>4, LimitType, FirstRowsClosed
<1>8. ASSUME NEW c \in scan'.cursor  PROVE Window(scan'.last, {i \in Listed : i <= c})
  <2>1. scan'.last \subseteq {i \in Listed : i <= c} /\ Cardinality(scan'.last) = PageLimit
    BY <1>3, <1>4, <1>6, <1>8
  <2>2. ASSUME NEW i \in Listed, i <= c, i \notin scan'.last, NEW w \in scan'.last  PROVE i < w
    <3>0. PICK m \in scan'.last : scan'.cursor = {m}  BY <1>4, <1>8
    <3>1. c \in scan'.last /\ c \in Nat /\ i \in Nat /\ w \in Nat /\ w \in Ahead
      BY <1>3, <1>6, <1>8, <3>0
    <3>2. i \notin Ahead  BY <1>7, <2>2, <3>1
    <3>3. PICK k \in scan.cursor : ~ (k < i)  BY <3>2 DEF Ahead
    <3>4. k < w  BY <3>1, <3>3 DEF Ahead
    <3>5. k \in Nat
      <4>1. PICK n \in used : scan.cursor = {n}  BY <1>1, <1>2, <3>3 DEF Followed
      <4>. QED  BY <1>3, <4>1
    <3>. QED  BY <3>1, <3>3, <3>4, <3>5
  <2>. QED  BY <2>1, <2>2 DEF Window
<1>9. ASSUME scan'.back # {}
      PROVE  \E b \in Listed : scan'.back = {b} /\ Window(scan.last, Below(Listed, b))
  <2>1. PICK b \in scan'.back : TRUE  BY <1>9
  <2>2. /\ scan.cursor # {} /\ b \in scan'.last /\ (\A j \in scan'.last : b <= j)
        /\ scan'.back = {i \in scan'.last : \A j \in scan'.last : i <= j}
    BY <1>4, <2>1
  <2>3. b \in Ahead /\ b \in Listed /\ b \in Nat  BY <1>3, <1>6, <2>2
  <2>4. scan'.back = {b}
    <3>1. \A i \in scan'.last : i \in Nat  BY <1>3, <1>6
    <3>2. \A i \in scan'.last : i <= b /\ b <= i => i = b  BY <2>3, <3>1
    <3>. QED  BY <2>2, <3>2
  <2>5. PICK c \in used : scan.cursor = {c}  BY <1>1, <1>2, <2>2 DEF Followed
  <2>6. Window(scan.last, {i \in Listed : i <= c})  BY <1>1, <1>2, <2>5 DEF Windows
  <2>7. Below(Listed, b) = {i \in Listed : i <= c}
    <3>1. c \in Nat /\ c < b  BY <1>3, <2>3, <2>5 DEF Ahead
    <3>2. ASSUME NEW i \in Listed, i < b  PROVE i <= c
      <4>1. i \in Nat  BY <1>3
      <4>2. CASE i \in Ahead
        <5>1. i \in scan'.last  BY <1>7, <2>2, <2>3, <3>2, <4>1, <4>2
        <5>. QED  BY <2>2, <2>3, <3>2, <4>1, <5>1
      <4>3. CASE i \notin Ahead  BY <2>5, <3>1, <4>1, <4>3 DEF Ahead
      <4>. QED  BY <4>2, <4>3
    <3>3. ASSUME NEW i \in Listed, i <= c  PROVE i < b
      <4>1. i \in Nat  BY <1>3
      <4>. QED  BY <2>3, <3>1, <3>3, <4>1
    <3>. QED  BY <3>2, <3>3 DEF Below
  <2>. QED  BY <2>3, <2>4, <2>6, <2>7
<1>. QED  BY <1>5, <1>8, <1>9 DEF Windows, Below

\* Without filters, what a device was given is among its images.
LEMMA DeliveredListed ==
  DatabaseOK /\ ScanOK /\ scan.at # "idle" /\ scan.listing = "device images"
    /\ NoFilter(scan.filter) => Delivered \subseteq Listed
<1>1. SUFFICES ASSUME DatabaseOK, ScanOK, scan.at # "idle", scan.listing = "device images",
                      NoFilter(scan.filter), NEW i \in Delivered
               PROVE  i \in Listed
  OBVIOUS
<1> DEFINE f == scan.filter
<1>2. /\ f.adult = {} /\ f.favorite = {} /\ f.minWidth = {} /\ f.maxWidth = {}
      /\ f.minHeight = {} /\ f.maxHeight = {} /\ f.minSize = {} /\ f.maxSize = {}
      /\ f.words = {}
  BY <1>1 DEF ScanOK, NoFilter
<1>3. i \in DOMAIN images /\ \E d \in scan.device : <<i, d>> \in assignments \cup locations
  BY <1>1 DEF Delivered
<1>4. PICK d \in scan.device : <<i, d>> \in assignments \cup locations  BY <1>3
<1>5. d \in DOMAIN devices  BY <1>1, <1>4 DEF DatabaseOK, Schema
<1>6. \A v, own : Within(v, Raised({}, own), Lowered({}, own))  BY DEF Within, Raised, Lowered
<1>7. DOMAIN Rows = DOMAIN images  BY DEF Rows
<1>8. i \in DeviceFiltered(Rows, devices[d], f)
  <2> HIDE DEF f
  <2>1. \A row, own : Searched(row, f.words)  BY <1>2 DEF Searched
  <2>. QED  BY <1>2, <1>3, <1>6, <1>7, <2>1 DEF DeviceFiltered, Within, Raised, Lowered
<1>9. i \in DeviceImages(d)  BY <1>3, <1>4 DEF DeviceImages, Historical
<1>10. i \in DeviceRows(d, f)  BY <1>5, <1>8, <1>9 DEF DeviceRows
<1>11. Listed = UNION {DeviceRows(e, scan.filter) : e \in scan.device}  BY <1>1 DEF Listed
<1>. QED  BY <1>4, <1>10, <1>11

LEMMA DeliveredListedNext ==
  ASSUME DatabaseOK', ScanOK', scan'.at # "idle", scan'.listing = "device images",
         NoFilter(scan'.filter)
  PROVE  Delivered' \subseteq Listed'
<1>1. (DatabaseOK /\ ScanOK /\ scan.at # "idle" /\ scan.listing = "device images"
         /\ NoFilter(scan.filter) => Delivered \subseteq Listed)'
  BY DeliveredListed, PTL
<1>. QED  BY <1>1

\* The tables are all a listing looks at.
LEMMA SameListing ==
  ASSUME UNCHANGED <<tables, scan>>
  PROVE  Listed' = Listed
<1>1. /\ UNCHANGED <<devices, sources, subscriptions, schedules, jobs, images, assignments,
                     locations>>
      /\ scan' = scan
  BY DEF tables
<1>2. Rows' = Rows  BY <1>1 DEF Rows, Row, PictureOf
<1>3. \A d, f : DeviceRows(d, f)' = DeviceRows(d, f)
  BY <1>1, <1>2 DEF DeviceRows, DeviceImages, Historical, Eligible, PictureOf
<1>4. \A f : SubscriptionRows(f)' = SubscriptionRows(f) /\ JobRows(f)' = JobRows(f)
  BY <1>1 DEF SubscriptionRows, JobRows
<1>. QED  BY <1>1, <1>2, <1>3, <1>4 DEF Listed

\* While a listing is read, a step beside takes out of the history what it hides.
LEMMA ScanKept ==
  ASSUME IInv', used \subseteq used', ScanInv, scan' = scan,
         Observe \/ UNCHANGED <<tables, steady, delivered, calm>>
  PROVE  ScanInv'
<1>0. DatabaseOK' /\ ScanOK'  BY DEF IInv
<1>1. SUFFICES ASSUME scan.at # "idle"  PROVE ScanInv'
  BY DEF ScanInv
<1>6. ~ scan'.twice  BY DEF ScanInv
<1>2. /\ scan.sorts # {} /\ Followed /\ (calm => Windows)
      /\ scan.listing = "device images" /\ NoFilter(scan.filter) => delivered \subseteq steady
  BY <1>1 DEF ScanInv
<1>3. /\ steady' \subseteq steady /\ steady' \subseteq Listed'
      /\ delivered \subseteq steady /\ scan.listing = "device images" /\ NoFilter(scan.filter)
           => delivered' \subseteq steady'
      /\ calm' => calm /\ Listed' = Listed
  <2>1. CASE Observe
    <3>1. /\ steady' = steady \cap Listed' /\ delivered' = delivered \cap Delivered'
          /\ calm' => calm /\ Listed' = Listed
      BY <1>1, <2>1 DEF Observe
    <3>2. scan.listing = "device images" /\ NoFilter(scan.filter) => Delivered' \subseteq Listed'
      BY <1>0, <1>1, DeliveredListedNext
    <3>. QED  BY <3>1, <3>2
  <2>2. CASE UNCHANGED <<tables, steady, delivered, calm>>
    <3>1. Listed' = Listed  BY <2>2, SameListing
    <3>. QED  BY <1>2, <2>2, <3>1 DEF Followed
  <2>. QED  BY <2>1, <2>2
<1>4. Followed'  BY <1>2, <1>3 DEF Followed
<1>5. calm' => Windows'  BY <1>2, <1>3 DEF Windows, Below
<1>. QED  BY <1>2, <1>3, <1>4, <1>5, <1>6 DEF ScanInv

\* What the client's own steps observe.
LEMMA Observed ==
  ASSUME Observe, scan.at # "idle", scan'.at # "idle"
  PROVE  /\ steady' = steady \cap Listed' /\ delivered' = delivered \cap Delivered'
         /\ calm' => calm /\ Listed' = Listed
BY DEF Observe

LEMMA ScanInvStep ==
  ASSUME {} \notin Sorts, IInv, IInv', ScanInv, [Next]_vars
  PROVE  ScanInv'
<1>0. /\ DatabaseOK /\ ScanOK /\ DatabaseOK' /\ ScanOK' /\ used \subseteq used'
  BY UsedGrows DEF IInv
<1>1. CASE ~ Scan  BY <1>0, <1>1, OtherSteps, ScanKept
<1>2. ASSUME NEW a \in Asked, NEW sorts \in Sorts, BeginScan(a, sorts)  PROVE ScanInv'
  <2>1. /\ scan.at = "idle" /\ scan'.at = "reading" /\ scan'.sorts # {}
        /\ scan'.cursor = {} /\ scan'.back = {} /\ scan'.seen = {} /\ scan'.twice = FALSE
    BY <1>2, BeginScanFields
  <2>2. Observe  BY <1>2 DEF BeginScan
  <2>3. steady' = Listed' /\ delivered' = Delivered'  BY <2>1, <2>2 DEF Observe
  <2>4. scan'.listing = "device images" /\ NoFilter(scan'.filter) => delivered' \subseteq steady'
    BY <1>0, <2>1, <2>3, DeliveredListedNext
  <2>5. Followed'  BY <2>1, <2>3 DEF Followed
  <2>6. Windows'  BY <2>1 DEF Windows
  <2>. QED  BY <2>1, <2>4, <2>5, <2>6 DEF ScanInv
<1>3. ASSUME Observe, scan.at # "idle", scan'.at # "idle", scan'.sorts = scan.sorts,
             scan'.listing = scan.listing, scan'.filter = scan.filter,
             steady' = steady \cap Listed' => Followed' /\ ~ scan'.twice,
             calm /\ Listed' = Listed => Windows'
      PROVE  ScanInv'
  <2>1. /\ steady' = steady \cap Listed' /\ delivered' = delivered \cap Delivered'
        /\ calm' => calm /\ Listed' = Listed
    BY <1>3, Observed
  <2>2. scan.listing = "device images" /\ NoFilter(scan.filter) => Delivered' \subseteq Listed'
    BY <1>0, <1>3, DeliveredListedNext
  <2>3. scan.listing = "device images" /\ NoFilter(scan.filter) => delivered' \subseteq steady'
    BY <1>3, <2>1, <2>2 DEF ScanInv
  <2>4. scan.sorts # {}  BY <1>3 DEF ScanInv
  <2>5. calm' => Windows'  BY <1>3, <2>1
  <2>. QED  BY <1>3, <2>1, <2>3, <2>4, <2>5 DEF ScanInv
<1>4. CASE ReadPage
  <2>1. /\ scan.at # "idle" /\ scan'.at # "idle" /\ scan'.sorts = scan.sorts
        /\ scan'.listing = scan.listing /\ scan'.filter = scan.filter
    BY <1>0, <1>4, ReadPageFields
  <2>2. Observe  BY <1>4 DEF ReadPage
  <2>3. steady' = steady \cap Listed' => Followed' /\ ~ scan'.twice
    BY <1>0, <1>4, ReadFollowed
  <2>4. calm /\ Listed' = Listed => Windows'  BY <1>4, ReadWindows
  <2>. QED  BY <1>3, <2>1, <2>2, <2>3, <2>4
<1>5. CASE TurnBack
  <2>1. /\ scan.at \in {"reading", "done"} /\ scan'.at = "turned" /\ scan'.sorts = scan.sorts
        /\ scan'.listing = scan.listing /\ scan'.filter = scan.filter
        /\ scan'.twice = scan.twice /\ scan'.before = scan.before /\ scan.back # {}
    BY <1>0, <1>5, TurnBackFields
  <2>2. Observe  BY <1>5 DEF TurnBack
  <2>3. scan.sorts # {} /\ Followed /\ (calm => Windows)  BY <2>1 DEF ScanInv
  <2>4. steady' = steady \cap Listed' => Followed' /\ ~ scan'.twice
    BY <2>1, <2>3 DEF Followed, ScanInv
  <2>5. ASSUME calm  PROVE Windows'
    <3>1. PICK b \in Listed : scan.back = {b} /\ Window(scan.before, Below(Listed, b))
      BY <2>1, <2>3, <2>5 DEF Windows
    <3>2. scan'.turned = scan.before  BY <1>0, <1>5, <2>3, <3>1, TurnFacts
    <3>. QED  BY <2>1, <3>2 DEF Windows
  <2>. QED  BY <1>3, <2>1, <2>2, <2>4, <2>5
<1>6. CASE ScanFails
  <2>1. /\ scan.at = "reading" /\ scan'.at = "failed" /\ scan'.sorts = scan.sorts
        /\ scan'.listing = scan.listing /\ scan'.filter = scan.filter
        /\ scan'.twice = scan.twice
    BY <1>0, <1>6, ScanFailsFields
  <2>2. Observe  BY <1>6 DEF ScanFails
  <2>3. Followed  BY <2>1 DEF ScanInv
  <2>4. steady' = steady \cap Listed' => Followed' /\ ~ scan'.twice
    BY <2>1, <2>3 DEF Followed, ScanInv
  <2>5. Windows'  BY <2>1 DEF Windows
  <2>. QED  BY <1>3, <2>1, <2>2, <2>4, <2>5
<1>. QED  BY <1>1, <1>2, <1>4, <1>5, <1>6 DEF Scan

LEMMA ScanInductive ==
  ASSUME {} \notin Sorts
  PROVE  Spec => []ScanInv
<1>1. Init => ScanInv  BY ScanInit
<1>2. IInv /\ IInv' /\ ScanInv /\ [Next]_vars => ScanInv'  BY ScanInvStep
<1>. QED  BY <1>1, <1>2, Inductive, PTL DEF Spec

\* Whoever follows the next cursors of a listing that is ordered by id to its end
\* sees no row twice and every row that was there all
\* the time, in a listing of any size, with any limit, whatever is inserted,
\* changed or deleted between two pages (dbtypes/pagination.go).
THEOREM ScanCompleteCorrect ==
  ASSUME {} \notin Sorts
  PROVE  Spec => []ScanComplete
<1>1. IInv /\ ScanInv => ScanComplete
  <2>1. SUFFICES ASSUME IInv, ScanInv  PROVE ScanComplete
    OBVIOUS
  <2>. QED  BY <2>1 DEF ScanInv, Followed, ScanComplete
<1>. QED  BY <1>1, Inductive, ScanInductive, PTL

\* The page before the one at hand is the one the client came from, as long as the
\* listing stays as it is: any listing, any limit.
THEOREM BackReturnsCorrect ==
  ASSUME {} \notin Sorts
  PROVE  Spec => []BackReturns
<1>1. ScanInv => BackReturns  BY DEF ScanInv, Windows, BackReturns
<1>. QED  BY <1>1, ScanInductive, PTL

\* What a device was given is among the images a reader without filters sees,
\* until the image or the device is deleted (ListDeviceImages.go).
THEOREM DeliveredStaysListedCorrect ==
  ASSUME {} \notin Sorts
  PROVE  Spec => []DeliveredStaysListed
<1>1. ScanInv => DeliveredStaysListed  BY DEF ScanInv, Followed, DeliveredStaysListed
<1>. QED  BY <1>1, ScanInductive, PTL
=============================================================================
