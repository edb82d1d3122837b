SPECIFICATION FairSpec
CONSTANTS
    Process = {p1}
    MaxPairs = 2
PROPERTIES
    StartHeals
