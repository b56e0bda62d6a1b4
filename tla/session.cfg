SPECIFICATION Spec
CONSTANTS
    Tags = {0, 1}
    Requests <- SessionRequests
    NBlocks = 16
    BlockSize = 512
    SerialSize = 8
    MAX_UNMAP_BLOCKS = 2
    Uint64 = 1024
    Uint32 = 8192
    MAX_DATA_SEGMENT_SIZE = 1024
    MaxErrors = 2
    MaxDataSN = 1
CHECK_DEADLOCK FALSE
INVARIANTS
    AnsweredOnce
    DataInSequence
    DataSNInOrder
    WholeBlocksReadRight
    AcceptedFits
    UnmapGood
    SurvivesPdus
    DigestsAgreed
    EndsAfterErrors
PROPERTIES
    EveryPduHandled
    HangupEnds
