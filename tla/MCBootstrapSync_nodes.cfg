SPECIFICATION FairSpec
CONSTANTS
    Server = {s1, s2}
    Node = {n1}
    File = {}
    Limit = 1
    BeatEvery = 1
    SyncTime = 1
    SelfAware = TRUE
    MaxPushes = 1
INVARIANTS
    TypeOK
    RecordsAreBeats
PROPERTIES
    RunningNodeFound
