SPECIFICATION FairSpec
CONSTANTS
    Tags = {t1, t2}
    NBlocks = 2
    BlockSize = 2
    MAX_WS_LEN = 2
    Commands <- OkCommands
    MaxCommands = 3
    ReuseTags = TRUE
    Pieces = {2, 4}
    Outcomes = {"ok"}
    Uint32 = 16
    None = none
CHECK_DEADLOCK FALSE
INVARIANTS
    TypeOK
    WrittenIsReadable
    SessionsMatchTasks
PROPERTY
    EveryTaskAnswered
