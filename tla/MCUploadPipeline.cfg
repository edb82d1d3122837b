SPECIFICATION FairSpec
CONSTANTS
    Node = {n1}
    NoNode = NoNode
    FileSize = 3
    BlockSize = 2
    TotalShards = 2
    ChunksTolerance = 1
    CryptoWorker = {w1, w2}
    UploadWorker = {v1}
    CryptoCap = 1
    UploadCap = 1
    SignFails = TRUE
CHECK_DEADLOCK FALSE
INVARIANTS
    TypeOK
    NoSendOnClosed
    DecisionIsFinal
    NeverStuck
PROPERTIES
    WorkGoesForward
    UploadEnds
