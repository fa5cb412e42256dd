SPECIFICATION HttpSpec
CHECK_DEADLOCK FALSE
CONSTANTS
    Inputs <- const_Inputs
    MaxPort = 10
    IntMax = 15
    LongMax = 1023
    SizeMax = 8
INVARIANTS
    HttpTypeOK
    InputsJudged
    RoomInBuffer
    ResultTruthful
PROPERTIES
    RequestEnds
