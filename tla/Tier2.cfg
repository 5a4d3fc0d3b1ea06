SPECIFICATION Spec
CONSTANTS
    Wide = 3
    High = 2
    NLayers = 3
    BandBps = 14
    Tiles <- MCTiles
    Room = 124
    MaxTrials = 2
INVARIANTS
    PacketsReadBack
    RatesKept
