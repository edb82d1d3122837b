SPECIFICATION Spec
CONSTANTS
    Node = {r, u}
    Reliable = {r}
    HttpTimeout = 2
    BeatSleep = 4
    RetrySleep = 1
    Limit = 8
    ScanPeriod = 4
PROPERTIES
    PurgeOnlyStale
