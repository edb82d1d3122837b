SPECIFICATION FairSpec
CONSTANTS
    Server = {s1, s2}
    Node = {}
    File = {f1}
    Limit = 2
    BeatEvery = 1
    SyncTime = 0
    SelfAware = FALSE
    MaxPushes = 1
PROPERTIES
    ExpiredManifestForgotten
