SPECIFICATION FairSpec
CONSTANTS
  Owners = {o1, o2}
  NumLanes = 2
  Images = {i1, i2, i3, i4}
  Caches = {c1, c2, c3, c4}
  Vals = {v1}
  NoImage = NoImage
  NoCache = NoCache
  NoLane = NoLane
  MaxCalls = 5
  MaxFailures = 1
INVARIANTS
  WriterOwnsCache
  ReadersUndisturbed
  NoDanglingPointer
PROPERTIES
  CallsReturn
