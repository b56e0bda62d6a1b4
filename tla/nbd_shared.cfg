SPECIFICATION Spec
CONSTANTS
    Threads = {t1, t2}
    NBlocks = 2
    Values = {zero, v1}
    Zero = zero
    MaxFaults = 1
    NoCall = nocall
    Requests <- SharedRequests
INVARIANT
    OkMeansDone
