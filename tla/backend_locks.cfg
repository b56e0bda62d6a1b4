SPECIFICATION FairSpec
CONSTANTS
    Threads = {t1, t2, t3}
    NBlocks = 3
    N_BACKEND_LOCKS = 3
    LOCK_SPREADER = 2
    Values = {zero}
    Zero = zero
    Free = free
    Requests <- LockRequests
INVARIANTS
    LocksBelongToCalls
    NoCircularWait
    RangesExclusive
PROPERTY
    SomeCallReturns
