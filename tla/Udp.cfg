SPECIFICATION UdpSpec
CHECK_DEADLOCK FALSE
CONSTANTS
    Task = {t1, t2, t3}
    SeqNum = {s1, s2}
    Bad = Bad
    NULL = NULL
    MaxArrived = 3
INVARIANTS
    RegisteredAndRead
PROPERTIES
    OneFate
    DeletedUntouched
    ReceiversServed
