SPECIFICATION Spec
CONSTANTS
    Pool = {p1, p2}
    Task = {t1, t2, t3}
    NULL = NULL
    MaxTaskNum = 2
SYMMETRY Symmetry
CHECK_DEADLOCK FALSE
INVARIANTS
    TypeOK
    FreeListSound
    TablesSound
    OneInnermostPerCoroutine
PROPERTY ImplementsIdPool
