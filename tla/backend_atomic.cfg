SPECIFICATION Spec
CONSTANTS
    Threads = {t1, t2}
    NBlocks = 3
    N_BACKEND_LOCKS = 2
    LOCK_SPREADER = 3
    Values = {zero, v1}
    Zero = zero
    Free = free
    Requests <- LockedRequests
PROPERTIES
    CmpWriteUndisturbed
    ImplementsAtomicDisk
