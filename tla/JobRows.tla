------------------------------- MODULE JobRows -------------------------------
(***************************************************************************)
(* What internal/services/jobs promises about the status of the persisted  *)
(* job rows, whatever the process around them does: a row is created once, *)
(* moves along isValidTransition, and is touched otherwise only by a       *)
(* recovery pass, which resets every running row at once.                  *)
(***************************************************************************)
CONSTANT Jobs

VARIABLE status

Finished == {"succeeded", "failed", "cancelled"}

Statuses == {"none", "queued", "running"} \cup Finished   \* "none": no such row yet

\* isValidTransition, as the set of its (from, to) pairs.
ValidTransitions ==
  {<<"queued", "running">>, <<"queued", "cancelled">>} \cup ({"running"} \X Finished)

RowsInit == status = [j \in Jobs |-> "none"]

Create(j) == /\ status[j] = "none"
             /\ status' = [status EXCEPT ![j] = "queued"]

Move(j, to) == /\ <<status[j], to>> \in ValidTransitions
               /\ status' = [status EXCEPT ![j] = to]

Recover == status' = [j \in Jobs |-> IF status[j] = "running" THEN "queued" ELSE status[j]]

RowsNext == \/ \E j \in Jobs : Create(j) \/ \E to \in Statuses : Move(j, to)
            \/ Recover

RowsSpec == RowsInit /\ [][RowsNext]_status
=============================================================================
