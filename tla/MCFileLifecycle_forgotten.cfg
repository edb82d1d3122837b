SPECIFICATION FairLifeSpec
CONSTANTS
    Node = {n1, n2}
    Chunk = {c1}
    NoNode = NoNode
    OrphanAge = 1
    Expiries = {2, 3}
    MaxUpload = 1
    SyncLag = 0
    Horizon = 3
    MaxRestarts = 0
    Outages = TRUE
CHECK_DEADLOCK FALSE
PROPERTIES
    OrphansCollected
    ExpiredForgotten
