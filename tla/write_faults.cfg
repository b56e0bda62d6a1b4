SPECIFICATION Spec
CONSTANTS
    Tags = {t1, t2, t3}
    NBlocks = 2
    BlockSize = 2
    MAX_WS_LEN = 1
    Commands <- FaultCommands
    MaxCommands = 3
    ReuseTags = FALSE
    Pieces = {1, 2}
    Outcomes = {"ok", "fail", "locked"}
    Uint32 = 16
    None = none
SYMMETRY TagSymmetry
CHECK_DEADLOCK FALSE
INVARIANTS
    WrittenIsReadable
    StaysInRange
    TaskNotForgotten
