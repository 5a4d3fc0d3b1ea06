SPECIFICATION FairSpec
CONSTANTS
  BufferSize = 3
  Length = 5
  Sizes = {0, 1, 2, 4}
  MaxCalls = 5
  MaxFailures = 2
INVARIANTS
  OffsetWithinData
  ReadsComplete
  SkipHonest
PROPERTIES
  CallsReturn
  ImplementsByteFile
