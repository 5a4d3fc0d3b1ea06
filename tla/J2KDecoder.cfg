SPECIFICATION FairSpec
CONSTANTS
    Codestreams <- MCCodestreams
    MaxCalls = 3
    MaxParts = 4
    MaxTiles = 3
    Opens = {TRUE, FALSE}
INVARIANTS
    DataInOrder
    WholeCodestreamsDecode
PROPERTIES
    CallsEnd
CHECK_DEADLOCK FALSE
