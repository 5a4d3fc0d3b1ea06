SPECIFICATION Spec
CONSTANTS
  Threads = {t1, t2}
  Lengths = {1, 2}
  AreaLimit = 5
  MemoryLimit = 4
  MapLimit = 4
  DiskLimit = 6
  FileLimit = 2
  Infinity = Infinity
  HasHosts = TRUE
  Kinds = {"cache", "matrix"}
  FailureKinds = {"alloc", "open", "extend", "map", "copy", "m_alloc", "m_open", "m_map"}
  MaxFailures = 2
  MaxCalls = 4
INVARIANTS
  UsageCounted
  LimitsHold
  AccountExact
SYMMETRY ThreadSymmetry
