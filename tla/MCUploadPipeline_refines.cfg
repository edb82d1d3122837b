SPECIFICATION Spec
CONSTANTS
    Node = {n1, n2}
    NoNode = NoNode
    FileSize = 2
    BlockSize = 2
    TotalShards = 3
    ChunksTolerance = 2
    CryptoWorker = {w1}
    UploadWorker = {v1, v2}
    CryptoCap = 1
    UploadCap = 1
    SignFails = TRUE
SYMMETRY Symmetry
CHECK_DEADLOCK FALSE
INVARIANTS
    CompletedIsStored
PROPERTIES
    ImplementsUpload
