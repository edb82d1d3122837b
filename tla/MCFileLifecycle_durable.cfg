SPECIFICATION LifeSpec
CONSTANTS
    Node = {n1}
    Chunk = {c1, c2}
    NoNode = NoNode
    OrphanAge = 2
    Expiries = {5}
    MaxUpload = 1
    SyncLag = 1
    Horizon = 6
    MaxRestarts = 1
    Outages = FALSE
SYMMETRY Symmetry
CHECK_DEADLOCK FALSE
INVARIANTS
    LifeTypeOK
    Durable
