SPECIFICATION HttpSpec
CHECK_DEADLOCK FALSE
CONSTANTS
    Inputs <- spaced_Inputs
    MaxPort = 10
    IntMax = 15
    LongMax = 1023
    SizeMax = 8
PROPERTIES
    RequestEnds
