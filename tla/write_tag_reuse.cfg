SPECIFICATION Spec
CONSTANTS
    Tags = {t1, t2}
    NBlocks = 2
    BlockSize = 2
    MAX_WS_LEN = 2
    Commands <- Writes
    MaxCommands = 2
    ReuseTags = TRUE
    Pieces = {2, 4}
    Outcomes = {"ok", "locked"}
    Uint32 = 16
    None = none
CHECK_DEADLOCK FALSE
INVARIANT
    WrittenIsReadable
