SPECIFICATION Spec
CHECK_DEADLOCK FALSE
CONSTANTS
    Task = {t1, t2}
    Conn = {c1, c2}
    NULL = NULL
    MaxPeers = 2
INVARIANTS
    WaitersKnown
    ConnectionsAccounted
PROPERTIES
    EstablishedWhenTold
    RequestsEnd
