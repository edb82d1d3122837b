SPECIFICATION LifeSpec
CONSTANTS
    Node = {n1, n2}
    Chunk = {c1}
    NoNode = NoNode
    OrphanAge = 2
    Expiries = {5}
    MaxUpload = 2
    SyncLag = 0
    Horizon = 6
    MaxRestarts = 1
    Outages = FALSE
SYMMETRY Symmetry
CHECK_DEADLOCK FALSE
INVARIANTS
    DeleteIsComplete
