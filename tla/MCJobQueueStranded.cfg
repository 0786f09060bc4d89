\* A job appended between the worker's last look at q.jobs and its select.
SPECIFICATION FairSpec
CONSTANTS
  MaxJobs = 2
  Producers = {p1}
  Consumers = {c1}
  Closers = {k1}
PROPERTY NoJobStranded
CHECK_DEADLOCK FALSE
