SPECIFICATION Spec
CHECK_DEADLOCK FALSE
CONSTANTS
    Task = {t1, t2, t3}
    SeqNum = {"s1", "s2"}
    Bad = Bad
    NULL = NULL
    End = End
    HeaderLen = 2
    MaxLen = 3
    Traffic <- AllTraffic
INVARIANTS
    PacketsFramed
    RegisteredAndRead
    BreakReachesAll
PROPERTIES
    OneFate
    ChannelDrains
