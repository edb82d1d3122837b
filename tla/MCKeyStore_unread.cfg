SPECIFICATION Spec
CONSTANTS
    Process = {p1}
    MaxPairs = 2
INVARIANTS
    AcceptedWhenUp
