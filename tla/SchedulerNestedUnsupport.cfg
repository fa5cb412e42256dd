SPECIFICATION Spec
CONSTANTS
    Task <- Names
    TopTask = "top"
    Loop = Loop
    Programs <- NestedUnsupport
INVARIANT NoOrphans
