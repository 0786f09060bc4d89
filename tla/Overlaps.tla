------------------------------ MODULE Overlaps ------------------------------
(***************************************************************************)
(* CheckOverlapWarnings of internal/services/source_schedules: which of    *)
(* the schedules of a source fire too close to each other.                 *)
(***************************************************************************)
EXTENDS Integers

CONSTANT Occurrences   \* the minutes a valid cron expression fires at in the next 14 days

ASSUME OccurrencesAssumption == \A c \in DOMAIN Occurrences : Occurrences[c] \subseteq Nat

MinDistance == 5

ValidateCronExpr(cron) == cron \in DOMAIN Occurrences

\* Fault: only the next time each schedule fires is looked at.
AllOccurrences_NextOnly(rows) ==
  {o \in [at : UNION {Occurrences[rows[i].cron] : i \in DOMAIN rows}, id : DOMAIN rows] :
     /\ o.at \in Occurrences[rows[o.id].cron]
     /\ \A m \in Occurrences[rows[o.id].cron] : o.at <= m}

\* Every time every schedule fires, enabled or not.
AllOccurrences(rows) ==
  {o \in [at : UNION {Occurrences[rows[i].cron] : i \in DOMAIN rows}, id : DOMAIN rows] :
     o.at \in Occurrences[rows[o.id].cron]}

\* Sorted by time; those of one minute come in any order, here that of their ids.
Before(o, p) == o.at < p.at \/ (o.at = p.at /\ o.id < p.id)

\* The schedules of one source: neighbours in time, of two schedules, and close.
SourceWarnings(rows) ==
  LET all == AllOccurrences(rows)
  IN  {w \in all \X all :
         /\ Before(w[1], w[2])
         /\ ~\E o \in all : Before(w[1], o) /\ Before(o, w[2])
         /\ w[1].id # w[2].id
         /\ w[2].at - w[1].at < MinDistance}

CheckOverlapWarnings(rows) ==
  UNION {LET own == {i \in DOMAIN rows : rows[i].source = s}
         IN  SourceWarnings([i \in own |-> rows[i]]) : s \in {rows[i].source : i \in DOMAIN rows}}
=============================================================================
