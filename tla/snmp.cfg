SPECIFICATION Spec
CONSTANTS
    Uint8 = 256
    Mibs <- SnmpMibs
    ValueSize <- SnmpValueSize
    Starts <- SnmpStarts
    OtherAsks <- SnmpOtherAsks
    MaxInFlight = 2
CHECK_DEADLOCK FALSE
INVARIANTS
    WalkInOrder
    GetsAnswered
    StepsAnswered

