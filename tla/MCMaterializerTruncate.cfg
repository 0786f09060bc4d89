\* One item and two devices, nothing fails: a copy onto the file it copies.
SPECIFICATION Spec
CONSTANTS
  Sources = {s1}
  Names = {n1}
  Devices = {d1, d2}
  Slugs = {a, b}
  Images = {i1, i2}
  Inodes = {f1, f2, f3}
  MaxPasses = 2
  MaxRequests = 1
  MaxFaults = 0
SYMMETRY Symmetry
INVARIANT FilesShowTheirImages
CHECK_DEADLOCK FALSE
