CONSTANTS
  Items = {"x1", "x2"}
  Spellings <- MCSpellings
  Normal <- MCNormal
  Blank <- MCBlank
  TagsOf <- MCTagsOf
  Images = {i1, i2, i3}
  TagIds = {t1, t2}
  Devices = 2
  Outcomes = {"skip", "download"}
  MaxJobs = 2
  MaxRequests = 1
  MaxFaults = 1
SYMMETRY Ids
SPECIFICATION Spec
INVARIANTS TypeOK TagsKept ThumbnailKept NoOrphanThumbnails CountersTrue
CHECK_DEADLOCK FALSE
