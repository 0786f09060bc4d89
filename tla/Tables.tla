------------------------------- MODULE Tables -------------------------------
(***************************************************************************)
(* Tables of the database: a table is a function on the ids that exist.    *)
(***************************************************************************)

Table(Ids, Row) == UNION {[I -> Row] : I \in SUBSET Ids}

\* A table with one row more, less or changed.
With(table, id, row) == [i \in DOMAIN table \cup {id} |-> IF i = id THEN row ELSE table[i]]
Without(table, id)   == [i \in DOMAIN table \ {id} |-> table[i]]
=============================================================================
