SPECIFICATION DownloadSpec
CONSTANTS
    Node = {1, 2, 3}
    Server = {s1, s2}
    Blocks = 2
    TotalShards = 2
    DataShards = 1
    NodesPerChunk = 2
    Worker = {w1, w2}
CHECK_DEADLOCK FALSE
INVARIANT OkIsWhole
