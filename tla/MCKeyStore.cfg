SPECIFICATION Spec
CONSTANTS
    Process = {p1, p2}
    MaxPairs = 2
SYMMETRY Symmetry
INVARIANTS
    TypeOK
    OneIdentity
    AcceptedForGood
    AcceptedUnlessTorn
