\* Two requests at a time, three in all, over one source and two schedules.
SPECIFICATION FairSpec
CONSTANTS
  Sources = {s1}
  Schedules = {k1, k2}
  Labels = {a}
  Exprs = {x}
  Handlers = {h1, h2}
  Main = main
  MaxRequests = 3
  MaxFaults = 1
INVARIANTS
  TypeOK
  ReloadsDoNotMix
  ReloadRepairs
PROPERTY RequestsEnd
\* Everything may stop: the scheduler is stopped and no request is served.
CHECK_DEADLOCK FALSE
