\* The application's shape: two cron goroutines and one worker; Dequeue and
\* Drain compete with the worker.  Four ids, so that three can overtake one.
SPECIFICATION FairSpec
CONSTANTS
  MaxJobs = 4
  Producers = {p1, p2}
  Consumers = {c1}
  Closers = {k1}
INVARIANTS
  TypeOK
  ExactlyOnce
  NothingLeftBehind
  BoundedOvertaking
PROPERTIES
  ImplementsPool
  WorkersStop
\* Everything may stop: all ids used, the queue closed, the worker gone.
CHECK_DEADLOCK FALSE
