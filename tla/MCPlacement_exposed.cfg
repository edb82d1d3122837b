SPECIFICATION PlaceSpec
CONSTANTS
    Node = {1, 2, 3, 4}
    Server = {s1}
    Blocks = 1
    TotalShards = 5
    DataShards = 3
    NodesPerChunk = 3
    Worker = {w1}
CHECK_DEADLOCK FALSE
INVARIANT NoNodeSuffices
