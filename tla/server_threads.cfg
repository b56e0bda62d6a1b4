SPECIFICATION FairSpec
CONSTANTS
    Sessions = {c1, c2, c3}
INVARIANTS
    NoThreadOutlivesBackend
    NoThreadForgotten
    FinishedAreJoined
    StopForgotten
PROPERTY
    StopEndsProgram
CHECK_DEADLOCK FALSE
