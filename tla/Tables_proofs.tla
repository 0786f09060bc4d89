--------------------------- MODULE Tables_proofs ---------------------------
(***************************************************************************)
(* What the proofs about the tables of the database need to know of them,  *)
(* and of sets of numbers.                                                 *)
(***************************************************************************)
EXTENDS Tables, TLAPS, WellFoundedInduction

\* A table is a function on some of the ids, into the rows.
LEMMA TableFacts ==
  ASSUME NEW Ids, NEW Row, NEW table
  PROVE  table \in Table(Ids, Row) <=>
           /\ table = [i \in DOMAIN table |-> table[i]]
           /\ DOMAIN table \subseteq Ids
           /\ \A i \in DOMAIN table : table[i] \in Row
BY DEF Table

\* With and Without make tables of tables.
LEMMA WithType ==
  ASSUME NEW Ids, NEW Row, NEW table \in Table(Ids, Row), NEW id \in Ids, NEW row \in Row
  PROVE  With(table, id, row) \in Table(Ids, Row)
BY TableFacts DEF With

LEMMA WithoutType ==
  ASSUME NEW Ids, NEW Row, NEW table \in Table(Ids, Row), NEW id
  PROVE  Without(table, id) \in Table(Ids, Row)
BY TableFacts DEF Without

\* A table of some ids is a table of more ids.
LEMMA TableGrows ==
  ASSUME NEW I, NEW J, I \subseteq J, NEW Row, NEW table \in Table(I, Row)
  PROVE  table \in Table(J, Row)
BY TableFacts

\* A set of numbers that is not empty has a first one.
LEMMA First ==
  ASSUME NEW S \in SUBSET Nat, S # {}
  PROVE  \E n \in S : \A m \in S : n <= m
<1>1. IsWellFoundedOn(OpToRel(<, Nat), Nat)  BY NatLessThanWellFounded
<1>2. PICK k \in S : TRUE  OBVIOUS
<1>3. PICK n \in S : \A m \in Nat : <<m, n>> \in OpToRel(<, Nat) => m \notin S
  BY <1>1, <1>2, WFMin
<1>4. ASSUME NEW m \in S  PROVE n <= m
  <2>1. m \in Nat /\ n \in Nat  OBVIOUS
  <2>2. m < n => <<m, n>> \in OpToRel(<, Nat)  BY <2>1 DEF OpToRel
  <2>3. <<m, n>> \notin OpToRel(<, Nat)  BY <1>3, <2>1
  <2>4. ~(m < n)  BY <2>2, <2>3
  <2>. QED  BY <2>1, <2>4
<1>. QED  BY <1>4
=============================================================================
