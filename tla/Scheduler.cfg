SPECIFICATION Spec
CONSTANTS
    Task <- Names
    TopTask = "top"
    Loop = Loop
    Programs <- AllPrograms
INVARIANTS
    WaitersAndEvents
    NoOrphans
    TasksEndRight
    GlobalsRight
PROPERTIES
    Termination
