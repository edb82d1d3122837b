SPECIFICATION FairSpec
CONSTANTS
    Node = {n1, n2}
    NoNode = NoNode
    FileSize = 4
    BlockSize = 2
    TotalShards = 1
    ChunksTolerance = 1
    CryptoWorker = {w1, w2}
    UploadWorker = {v1, v2}
    CryptoCap = 1
    UploadCap = 1
    SignFails = TRUE
CHECK_DEADLOCK FALSE
PROPERTIES
    OutcomeReported
