SPECIFICATION Spec
CONSTANTS
    Node = {n1}
    NoNode = NoNode
    FileSize = 0
    BlockSize = 2
    TotalShards = 2
    ChunksTolerance = 1
    CryptoWorker = {w1, w2}
    UploadWorker = {v1, v2}
    CryptoCap = 1
    UploadCap = 1
    SignFails = FALSE
SYMMETRY Symmetry
CHECK_DEADLOCK FALSE
INVARIANTS
    ManifestComplete
