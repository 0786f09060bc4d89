\* Three runs of the process and two jobs of one source; cron fires both at once.
SPECIFICATION FairSpec
CONSTANTS
  Sources = {s1}
  NoSource = NoSource
  Crons = {f1, f2}
  MaxJobs = 2
  MaxBoots = 3
  MaxFaults = 1
INVARIANTS
  TypeOK
  PendingIsQueued
  RunningIsWorkedOn
  TakenIsFinished
  NewJobsAreHeld
  RecoveryComplete
PROPERTIES
  ImplementsRows
  ShutdownCompletes
\* Everything may stop: the last run of the process has ended.
CHECK_DEADLOCK FALSE
