SPECIFICATION Spec
CHECK_DEADLOCK FALSE
CONSTANTS
    Task = {t1, t2, t3}
    NULL = NULL
    IntervalMin = 1
    IntervalMax = 3
    MaxQueue = 4
INVARIANTS
    TypeOK
    HandlesOwned
    CellsNameCommands
PROPERTIES
    EstablishedKept
    CommandsEnd
