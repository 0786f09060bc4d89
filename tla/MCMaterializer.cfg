\* One item, two devices, two jobs, two requests and one failure.
SPECIFICATION Spec
CONSTANTS
  Sources = {s1}
  Names = {n1}
  Devices = {d1, d2}
  Slugs = {a, b}
  Images = {i1, i2}
  Inodes = {f1, f2, f3}
  MaxPasses = 2
  MaxRequests = 2
  MaxFaults = 1
SYMMETRY Symmetry
INVARIANTS
  TypeOK
  OneLocationPerDevice
  NoOrphans
PROPERTIES
  PassRepairs
  BlacklistTakesHold
\* Everything may stop: the worker waits for a job and nobody asks for anything.
CHECK_DEADLOCK FALSE
