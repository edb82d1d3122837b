SPECIFICATION FairSpec
CONSTANTS
    Caller = {g1, g2}
    Conn = {c1, c2, c3, c4}
    NoConn = NoConn
INVARIANTS
    TypeOK
    ClosedIsRemoved
PROPERTIES
    CallsRecover
