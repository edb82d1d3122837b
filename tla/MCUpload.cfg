SPECIFICATION Spec
CONSTANTS
    Node = {n1, n2}
    Chunk = {c1, c2}
    NoNode = NoNode
SYMMETRY Symmetry
CHECK_DEADLOCK FALSE
INVARIANTS
    TypeOK
    CompletedIsStored
