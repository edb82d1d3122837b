SPECIFICATION Spec
CONSTANTS
    Server = {s1, s2}
    Node = {n1}
    File = {}
    Limit = 2
    BeatEvery = 1
    SyncTime = 1
    SelfAware = FALSE
    MaxPushes = 1
PROPERTIES
    PurgeOnlySilent
