SPECIFICATION EventSpec
CHECK_DEADLOCK FALSE
CONSTANTS
    Task = {t1, t2}
    Name = {n1}
    NULL = NULL
    MaxOps = 3
INVARIANT WaitsSound
PROPERTIES
    NotifiedThenWoken
    ResultsReleased
