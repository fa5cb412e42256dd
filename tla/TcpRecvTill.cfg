SPECIFICATION Spec
CHECK_DEADLOCK FALSE
CONSTANTS
    Task = {t1, t2}
    Streams <- AllStreams
    Requests <- SomeRequests
    FirstSize = 3
    NULL = NULL
    End = End
INVARIANTS
    AllocFailsOnlyAfterCancel
    StreamCutRight
    WaitersFed
PROPERTIES
    BytesAreRead
