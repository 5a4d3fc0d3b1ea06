SPECIFICATION Spec
CONSTANTS
  Owners = {o1, o2, o3}
  NumLanes = 1
  Images = {i1, i2, i3, i4, i5}
  Caches = {c1, c2, c3, c4}
  Vals = {v1, v2}
  NoImage = NoImage
  NoCache = NoCache
  NoLane = NoLane
  MaxCalls = 5
  MaxFailures = 1
INVARIANTS
  CountsExact
  CacheReclaimed
PROPERTIES
  SharedCacheFrozen
  ImplementsImageValues
SYMMETRY OwnerSymmetry
