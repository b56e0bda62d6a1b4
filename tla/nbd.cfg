SPECIFICATION FairSpec
CONSTANTS
    Threads = {t1}
    NBlocks = 2
    Values = {zero, v1, v2}
    Zero = zero
    MaxFaults = 3
    NoCall = nocall
    Requests <- AllRequests
INVARIANTS
    SizeKnown
    OneAnswer
PROPERTIES
    NbdImplementsAtomicDisk
    EveryCallReturns
