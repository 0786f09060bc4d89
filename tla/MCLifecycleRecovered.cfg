\* A job that was queued or running when the process ended, and the next boot.
SPECIFICATION Spec
CONSTANTS
  Sources = {s1}
  NoSource = NoSource
  Crons = {f1}
  MaxJobs = 1
  MaxBoots = 2
  MaxFaults = 0
INVARIANT RecoveredJobsAreEnqueued
CHECK_DEADLOCK FALSE
