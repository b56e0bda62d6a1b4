-------------------------- MODULE BackendFileProofs --------------------------
(***************************************************************************)
(* Proofs about the file backend's range locks, for any number of threads, *)
(* blocks and mutexes, any spreading and any set of calls; and that it     *)
(* implements the atomic disk for the calls that lock their whole range.   *)
(***************************************************************************)
EXTENDS BackendFileAtomic, SequenceTheorems, TLAPS

\* What lock_range() computes are indexes of backend::locks.
LEMMA LockIndexesInRange ==
    \A r \in Requests : LockSet(r) \subseteq Locks
<1>1. SUFFICES ASSUME NEW r \in Requests,
                      NEW i \in r.block_nr .. (r.block_nr + LockedBlocks(r) - 1)
               PROVE  (i * LOCK_SPREADER) % N_BACKEND_LOCKS \in Locks
    BY DEF LockSet, LockIndexes
<1>2. r.block_nr \in Nat /\ r.n_blocks \in Nat
    BY RequestsAssumption DEF RequestRecords
<1>3. i \in Nat
    BY <1>2
<1>4. i * LOCK_SPREADER \in Nat
    BY <1>3, GeometryAssumption
<1> HIDE <1>3
<1>5. QED
    BY <1>4, GeometryAssumption DEF Locks

\* Two ranges that share a block share that block's mutex.
LEMMA SharedBlockSharedLock ==
    ASSUME NEW r \in Requests, NEW q \in Requests,
           NEW b \in BlocksOf(r, LockedBlocks(r)) \cap BlocksOf(q, LockedBlocks(q))
    PROVE  LockSet(r) \cap LockSet(q) # {}
BY DEF BlocksOf, LockSet, LockIndexes

LEMMA CurrentBlockInRange ==
    ASSUME TypeOK, NEW t \in Threads, MoreBlocks(t)
    PROVE  CurrentBlock(t) \in Blocks
<1>1. req[t] \in Requests /\ pos[t] \in Nat
    BY DEF TypeOK
<1>2. req[t].block_nr \in Nat /\ req[t].n_blocks \in Nat
      /\ req[t].block_nr + req[t].n_blocks <= NBlocks
    BY <1>1, RequestsAssumption DEF RequestRecords
<1>3. QED
    BY <1>1, <1>2, GeometryAssumption DEF CurrentBlock, MoreBlocks, Blocks

LEMMA DataIsValue ==
    ASSUME TypeOK, NEW t \in Threads
    PROVE  req[t].data \in Values
<1>1. req[t] \in RequestRecords
    BY RequestsAssumption DEF TypeOK
<1>2. QED
    BY <1>1 DEF RequestRecords

LEMMA NoCallIsRequest == NoCall \in Requests
BY RequestsAssumption DEF NoCall

-----------------------------------------------------------------------------

LEMMA TypeInit == Init => TypeOK
BY NoCallIsRequest, ValuesAssumption DEF Init, TypeOK, Phases, Results

LEMMA TypeStep == TypeOK /\ [Next]_vars => TypeOK'
<1> SUFFICES ASSUME TypeOK, [Next]_vars PROVE TypeOK'
    OBVIOUS
<1> USE DEF TypeOK, Phases, Results
<1>1. ASSUME NEW t \in Threads, NEW r \in Requests, Call(t, r) PROVE TypeOK'
    BY <1>1 DEF Call
<1>2. ASSUME NEW t \in Threads, NEW l \in Locks, Lock(t, l) PROVE TypeOK'
    BY <1>2 DEF Lock
<1>3. ASSUME NEW t \in Threads, NEW l \in Locks, Unlock(t, l) PROVE TypeOK'
    BY <1>3 DEF Unlock
<1>4. ASSUME NEW t \in Threads, LockRangeDone(t) PROVE TypeOK'
    BY <1>4 DEF LockRangeDone
<1>5. ASSUME NEW t \in Threads, ReadBlock(t) PROVE TypeOK'
    <2>1. disk[CurrentBlock(t)] \in Values
        BY <1>5, CurrentBlockInRange DEF ReadBlock
    <2>2. buf' \in [Threads -> Seq(Values)]
        BY <1>5, <2>1 DEF ReadBlock
    <2>3. QED
        BY <1>5, <2>2 DEF ReadBlock
<1>6. ASSUME NEW t \in Threads, WriteBlock(t) PROVE TypeOK'
    <2>1. req[t].data \in Values
        BY DataIsValue
    <2>2. disk' \in [Blocks -> Values]
        BY <1>6, <2>1 DEF WriteBlock
    <2>3. QED
        BY <1>6, <2>2 DEF WriteBlock
<1>7. ASSUME NEW t \in Threads, TrimBlock(t) PROVE TypeOK'
    <2>1. disk' \in [Blocks -> Values]
        BY <1>7, ValuesAssumption DEF TrimBlock
    <2>2. QED
        BY <1>7, <2>1 DEF TrimBlock
<1>8. ASSUME NEW t \in Threads, IoDone(t) PROVE TypeOK'
    BY <1>8 DEF IoDone, Finish
<1>9. ASSUME NEW t \in Threads, IoFailed(t) PROVE TypeOK'
    BY <1>9 DEF IoFailed, Finish
<1>10. ASSUME NEW t \in Threads, CompareBlock(t) PROVE TypeOK'
    <2>1. pc' \in [Threads -> Phases]
        BY <1>10 DEF CompareBlock, Finish
    <2>2. pos' \in [Threads -> Nat]
        BY <1>10 DEF CompareBlock
    <2>3. result' \in [Threads -> Results]
        BY <1>10 DEF CompareBlock, Finish
    <2>4. QED
        BY <1>10, <2>1, <2>2, <2>3 DEF CompareBlock
<1>11. ASSUME NEW t \in Threads, CompareDone(t) PROVE TypeOK'
    BY <1>11 DEF CompareDone
<1>12. ASSUME NEW t \in Threads, CmpWriteBlock(t) PROVE TypeOK'
    <2>1. req[t].data \in Values
        BY DataIsValue
    <2>2. disk' \in [Blocks -> Values]
        BY <1>12, <2>1 DEF CmpWriteBlock
    <2>3. QED
        BY <1>12, <2>2 DEF CmpWriteBlock
<1>13. ASSUME NEW t \in Threads, CmpWriteDone(t) PROVE TypeOK'
    BY <1>13 DEF CmpWriteDone, Finish
<1>14. ASSUME NEW t \in Threads, Return(t) PROVE TypeOK'
    BY <1>14, NoCallIsRequest DEF Return
<1>15. CASE UNCHANGED vars
    BY <1>15 DEF vars
<1>16. QED
    BY <1>1, <1>2, <1>3, <1>4, <1>5, <1>6, <1>7, <1>8, <1>9, <1>10, <1>11, <1>12,
       <1>13, <1>14, <1>15 DEF Next, Step

\* Every variable keeps its type: in particular block numbers, mutex indexes
\* and buffers stay within bounds for every call.
THEOREM TypeCorrect == Spec => []TypeOK
BY TypeInit, TypeStep, PTL DEF Spec

-----------------------------------------------------------------------------

\* The inductive invariant of the range locks: who holds a mutex is in a call
\* that needs it; mutexes are collected from the lowest up; and the I/O runs
\* with all of them held.
LockInv ==
    /\ TypeOK
    /\ LocksBelongToCalls
    /\ LockedAscending
    /\ LockedDuringIo

LEMMA LockInvInit == Init => LockInv
<1> SUFFICES ASSUME Init PROVE LockInv
    OBVIOUS
<1>1. TypeOK
    BY TypeInit
<1>2. \A l \in Locks : owner[l] \notin Threads
    BY ValuesAssumption DEF Init
<1>3. QED
    BY <1>1, <1>2 DEF Init, LockInv, LocksBelongToCalls, LockedAscending, LockedDuringIo

\* A step of t that leaves the mutexes alone and keeps t's arguments preserves
\* the invariant as long as t goes from locking to I/O with all mutexes and
\* stays inside its call.
LEMMA PhaseStep ==
    ASSUME LockInv, TypeOK', NEW t \in Threads,
           owner' = owner, req' = req,
           NEW p \in Phases, pc' = [pc EXCEPT ![t] = p],
           p \in {"io", "cw_write", "unlock"},
           LockSet(req[t]) \subseteq Held(t)
    PROVE  LockInv'
<1>1. LocksBelongToCalls'
    BY DEF LockInv, TypeOK, LocksBelongToCalls, LockSet, LockIndexes, LockedBlocks
<1>2. LockedAscending'
    BY DEF LockInv, TypeOK, LockedAscending, LockSet, LockIndexes, LockedBlocks, Held
<1>3. LockedDuringIo'
    BY DEF LockInv, TypeOK, LockedDuringIo, LockSet, LockIndexes, LockedBlocks, Held
<1>4. QED
    BY <1>1, <1>2, <1>3 DEF LockInv

LEMMA LockInvStep == LockInv /\ [Next]_vars => LockInv'
<1> SUFFICES ASSUME LockInv, [Next]_vars PROVE LockInv'
    OBVIOUS
<1>0. TypeOK /\ TypeOK'
    BY TypeStep DEF LockInv
<1>a. ASSUME UNCHANGED <<owner, pc, req>> PROVE LockInv'
    BY <1>0, <1>a DEF LockInv, LocksBelongToCalls, LockedAscending, LockedDuringIo,
        LockSet, LockIndexes, LockedBlocks, Held
<1>1. ASSUME NEW t \in Threads, NEW r \in Requests, Call(t, r) PROVE LockInv'
    <2>1. \A l \in Locks : owner[l] # t /\ owner'[l] # t
        BY <1>1 DEF LockInv, LocksBelongToCalls, Call
    <2>2. LocksBelongToCalls'
        BY <1>0, <1>1, <2>1 DEF LockInv, TypeOK, LocksBelongToCalls, Call,
            LockSet, LockIndexes, LockedBlocks
    <2>3. LockedAscending'
        <3>1. SUFFICES ASSUME NEW u \in Threads, (pc[u] = "lock")'
                       PROVE  (\A l \in Held(u) : \A m \in LockSet(req[u]) \ Held(u) : l < m)'
            BY DEF LockedAscending
        <3>2. CASE u = t
            BY <2>1, <3>2 DEF Held
        <3>3. CASE u # t
            <4>1. pc'[u] = pc[u] /\ req'[u] = req[u] /\ owner' = owner
                BY <1>0, <1>1, <3>3 DEF TypeOK, Call
            <4>2. \A l \in Held(u) : \A m \in LockSet(req[u]) \ Held(u) : l < m
                BY <3>1, <4>1 DEF LockInv, LockedAscending
            <4>3. QED
                BY <4>1, <4>2 DEF Held, LockSet, LockIndexes, LockedBlocks
        <3>4. QED
            BY <3>2, <3>3
    <2>4. LockedDuringIo'
        BY <1>0, <1>1, <2>1 DEF LockInv, TypeOK, LockedDuringIo, Call, Held,
            LockSet, LockIndexes, LockedBlocks
    <2>5. QED
        BY <1>0, <2>2, <2>3, <2>4 DEF LockInv
<1>2. ASSUME NEW t \in Threads, NEW l \in Locks, Lock(t, l) PROVE LockInv'
    <2> DEFINE L(u) == LockSet(req[u])
    <2>1. /\ pc' = pc /\ req' = req /\ pc[t] = "lock"
          /\ owner[l] = Free /\ owner' = [owner EXCEPT ![l] = t]
          /\ l \in L(t) /\ \A m \in L(t) \ Held(t) : l <= m
        BY <1>2 DEF Lock, Wants
    <2>2. \A u \in Threads : L(u)' = L(u)
        BY <2>1 DEF LockSet, LockIndexes, LockedBlocks
    <2>3. /\ Held(t)' = Held(t) \cup {l}
          /\ \A u \in Threads \ {t} : Held(u)' = Held(u)
        BY <1>0, <2>1, ValuesAssumption DEF Held, TypeOK
    <2> HIDE DEF L
    <2>4. LocksBelongToCalls'
        BY <1>0, <2>1, <2>2 DEF LockInv, TypeOK, LocksBelongToCalls, L
    <2>5. LockedAscending'
        <3>1. SUFFICES ASSUME NEW u \in Threads, pc[u] = "lock",
                              NEW k \in Held(u)', NEW m \in L(u) \ Held(u)'
                       PROVE  k < m
            BY <2>1, <2>2 DEF LockedAscending, L
        <3>2. CASE u # t
            BY <3>1, <3>2, <2>3 DEF LockInv, LockedAscending, L
        <3>3. CASE u = t
            <4>1. m \in L(t) \ Held(t) /\ m # l
                BY <3>1, <3>3, <2>3
            <4>2. CASE k = l
                <5>1. m \in Locks
                    BY <4>1, <1>0, LockIndexesInRange DEF TypeOK, L
                <5>2. QED
                    BY <4>1, <4>2, <5>1, <2>1 DEF Locks
            <4>3. CASE k \in Held(t)
                BY <3>1, <3>3, <4>1, <4>3 DEF LockInv, LockedAscending, L
            <4>4. QED
                BY <3>1, <3>3, <2>3, <4>2, <4>3
        <3>4. QED
            BY <3>2, <3>3
    <2>6. LockedDuringIo'
        BY <2>1, <2>2, <2>3 DEF LockInv, LockedDuringIo, L
    <2>7. QED
        BY <1>0, <2>4, <2>5, <2>6 DEF LockInv
<1>3. ASSUME NEW t \in Threads, NEW l \in Locks, Unlock(t, l) PROVE LockInv'
    <2>1. /\ pc' = pc /\ req' = req /\ pc[t] = "unlock"
          /\ owner[l] = t /\ owner' = [owner EXCEPT ![l] = Free]
        BY <1>3 DEF Unlock, Held
    <2>2. \A u \in Threads \ {t} : Held(u)' = Held(u)
        BY <1>0, <2>1, ValuesAssumption DEF Held, TypeOK
    <2>3. LocksBelongToCalls'
        BY <1>0, <2>1, ValuesAssumption DEF LockInv, TypeOK, LocksBelongToCalls,
            LockSet, LockIndexes, LockedBlocks
    <2>4. LockedAscending'
        BY <2>1, <2>2 DEF LockInv, LockedAscending, LockSet, LockIndexes, LockedBlocks
    <2>5. LockedDuringIo'
        BY <2>1, <2>2 DEF LockInv, LockedDuringIo, LockSet, LockIndexes, LockedBlocks
    <2>6. QED
        BY <1>0, <2>3, <2>4, <2>5 DEF LockInv
<1>4. ASSUME NEW t \in Threads, LockRangeDone(t) PROVE LockInv'
    BY <1>0, <1>4, PhaseStep DEF LockRangeDone, Phases
<1>5. ASSUME NEW t \in Threads, pc[t] \in {"io", "cw_write"}, owner' = owner, req' = req,
             NEW p \in {"cw_write", "unlock"}, pc' = [pc EXCEPT ![t] = p]
      PROVE  LockInv'
    <2>1. LockSet(req[t]) \subseteq Held(t)
        BY <1>5 DEF LockInv, LockedDuringIo
    <2>2. QED
        BY <1>0, <1>5, <2>1, PhaseStep DEF Phases
<1>6. ASSUME NEW t \in Threads, Return(t) PROVE LockInv'
    <2>1. /\ owner' = owner /\ pc' = [pc EXCEPT ![t] = "idle"]
          /\ req' = [req EXCEPT ![t] = NoCall]
          /\ \A l \in Locks : owner[l] # t
        BY <1>6 DEF Return, Held
    <2>2. LocksBelongToCalls'
        BY <1>0, <2>1 DEF LockInv, TypeOK, LocksBelongToCalls,
            LockSet, LockIndexes, LockedBlocks
    <2>3. LockedAscending'
        <3>1. SUFFICES ASSUME NEW u \in Threads, (pc[u] = "lock")'
                       PROVE  (\A l \in Held(u) : \A m \in LockSet(req[u]) \ Held(u) : l < m)'
            BY DEF LockedAscending
        <3>2. CASE u = t
            BY <1>0, <2>1, <3>1, <3>2 DEF TypeOK
        <3>3. CASE u # t
            <4>1. pc'[u] = pc[u] /\ req'[u] = req[u] /\ owner' = owner
                BY <1>0, <2>1, <3>3 DEF TypeOK
            <4>2. \A l \in Held(u) : \A m \in LockSet(req[u]) \ Held(u) : l < m
                BY <3>1, <4>1 DEF LockInv, LockedAscending
            <4>3. QED
                BY <4>1, <4>2 DEF Held, LockSet, LockIndexes, LockedBlocks
        <3>4. QED
            BY <3>2, <3>3
    <2>4. LockedDuringIo'
        BY <1>0, <2>1 DEF LockInv, TypeOK, LockedDuringIo, Held,
            LockSet, LockIndexes, LockedBlocks
    <2>5. QED
        BY <1>0, <2>2, <2>3, <2>4 DEF LockInv
<1>7. ASSUME NEW t \in Threads,
             \/ ReadBlock(t) \/ WriteBlock(t) \/ TrimBlock(t) \/ CmpWriteBlock(t)
      PROVE  LockInv'
    BY <1>7, <1>a DEF ReadBlock, WriteBlock, TrimBlock, CmpWriteBlock
<1>8. ASSUME NEW t \in Threads, IoDone(t) \/ IoFailed(t) \/ CmpWriteDone(t) PROVE LockInv'
    BY <1>5, <1>8 DEF IoDone, IoFailed, CmpWriteDone, Finish
<1>9. ASSUME NEW t \in Threads, CompareBlock(t) PROVE LockInv'
    BY <1>5, <1>9, <1>a DEF CompareBlock, Finish
<1>10. ASSUME NEW t \in Threads, CompareDone(t) PROVE LockInv'
    BY <1>5, <1>10 DEF CompareDone
<1>11. CASE UNCHANGED vars
    BY <1>11, <1>a DEF vars
<1>12. QED
    BY <1>1, <1>2, <1>3, <1>4, <1>6, <1>7, <1>8, <1>9, <1>10, <1>11 DEF Next, Step

THEOREM LockInvariant == Spec => []LockInv
BY LockInvInit, LockInvStep, PTL DEF Spec

\* A mutex of lock_range() is only held by a call whose range it covers, so
\* no return path leaves one behind.
THEOREM LocksOfCalls == Spec => []LocksBelongToCalls
<1>1. LockInv => LocksBelongToCalls
    BY DEF LockInv
<1>2. QED
    BY <1>1, LockInvariant, PTL

-----------------------------------------------------------------------------

LEMMA AscendingMeansNoCircle == LockInv => NoCircularWait
<1> SUFFICES ASSUME LockInv, NEW t \in Threads, NEW u \in Threads,
                    NEW l \in Locks, NEW m \in Locks,
                    Wants(t, l), owner[l] = u, Wants(u, m)
             PROVE  l < m
    BY DEF NoCircularWait
<1>1. l \in Held(u) /\ m \in LockSet(req[u]) \ Held(u) /\ pc[u] = "lock"
    BY DEF Held, Wants
<1>2. QED
    BY <1>1 DEF LockInv, LockedAscending

\* No set of calls ever waits for each other's range locks in a circle.
THEOREM RangeLocksAcyclic == Spec => []NoCircularWait
BY LockInvariant, AscendingMeansNoCircle, PTL

LEMMA HeldMeansExclusive == LockInv => RangesExclusive
<1> SUFFICES ASSUME LockInv, NEW t \in Threads, NEW u \in Threads, t # u, InIo(t), InIo(u),
                    NEW b \in BlocksOf(req[t], LockedBlocks(req[t]))
                                \cap BlocksOf(req[u], LockedBlocks(req[u]))
             PROVE  FALSE
    BY DEF RangesExclusive
<1>1. req[t] \in Requests /\ req[u] \in Requests
    BY DEF LockInv, TypeOK
<1>2. PICK l \in LockSet(req[t]) : l \in LockSet(req[u])
    BY <1>1, SharedBlockSharedLock
<1>3. l \in Held(t) /\ l \in Held(u)
    BY <1>2 DEF LockInv, LockedDuringIo, InIo
<1>4. QED
    BY <1>3 DEF Held

\* Calls whose locked ranges share a block are never in their I/O together.
THEOREM RangeLocksExclude == Spec => []RangesExclusive
BY LockInvariant, HeldMeansExclusive, PTL

-----------------------------------------------------------------------------

\* Where a call is in its range.
ProgressInv ==
    \A t \in Threads :
        /\ pc[t] \in {"idle", "lock"} => pos[t] = 0
        /\ pc[t] = "cw_write" => req[t].kind = "cmpwrite"
        /\ pos[t] <= req[t].n_blocks

LEMMA RequestFields ==
    \A r \in Requests : r.block_nr \in Nat /\ r.n_blocks \in Nat
BY RequestsAssumption DEF RequestRecords

LEMMA ProgressInvInit == Init => ProgressInv
<1> SUFFICES ASSUME Init, NEW t \in Threads
             PROVE  /\ pos[t] = 0 /\ pc[t] = "idle"
                    /\ req[t] = NoCall /\ 0 <= NoCall.n_blocks
    BY DEF ProgressInv
<1>1. NoCall.n_blocks \in Nat
    BY NoCallIsRequest, RequestFields
<1>2. QED
    BY <1>1 DEF Init

LEMMA ProgressInvStep == TypeOK /\ ProgressInv /\ [Next]_vars => ProgressInv'
<1> SUFFICES ASSUME TypeOK, ProgressInv, [Next]_vars, NEW u \in Threads
             PROVE  /\ pc'[u] \in {"idle", "lock"} => pos'[u] = 0
                    /\ pc'[u] = "cw_write" => req'[u].kind = "cmpwrite"
                    /\ pos'[u] <= req'[u].n_blocks
    BY DEF ProgressInv
<1> DEFINE Goal == /\ pc'[u] \in {"idle", "lock"} => pos'[u] = 0
                   /\ pc'[u] = "cw_write" => req'[u].kind = "cmpwrite"
                   /\ pos'[u] <= req'[u].n_blocks
<1>0. /\ req[u] \in Requests /\ req[u].n_blocks \in Nat /\ pos[u] \in Nat
      /\ NoCall \in Requests /\ NoCall.n_blocks \in Nat
    BY NoCallIsRequest, RequestFields DEF TypeOK
<1> USE DEF ProgressInv, TypeOK
<1>1. ASSUME NEW t \in Threads, NEW r \in Requests, Call(t, r) PROVE Goal
    <2>1. r.n_blocks \in Nat
        BY RequestFields
    <2>2. QED
        BY <1>0, <1>1, <2>1 DEF Call
<1>2. ASSUME NEW t \in Threads, NEW l \in Locks, Lock(t, l) \/ Unlock(t, l) PROVE Goal
    BY <1>0, <1>2 DEF Lock, Unlock
<1>3. ASSUME NEW t \in Threads, LockRangeDone(t) PROVE Goal
    BY <1>0, <1>3 DEF LockRangeDone
<1>4. ASSUME NEW t \in Threads, ReadBlock(t) \/ WriteBlock(t) \/ TrimBlock(t) PROVE Goal
    <2>1. /\ UNCHANGED <<pc, req>> /\ pc[t] = "io"
          /\ pos' = [pos EXCEPT ![t] = pos[t] + 1] /\ pos[t] < req[t].n_blocks
        BY <1>4 DEF ReadBlock, WriteBlock, TrimBlock, MoreBlocks
    <2>2. QED
        BY <1>0, <2>1
<1>5. ASSUME NEW t \in Threads, IoDone(t) \/ IoFailed(t) \/ CmpWriteDone(t) PROVE Goal
    <2>1. pc' = [pc EXCEPT ![t] = "unlock"] /\ UNCHANGED <<req, pos>>
        BY <1>5 DEF IoDone, IoFailed, CmpWriteDone, Finish
    <2>2. QED
        BY <1>0, <2>1
<1>6. ASSUME NEW t \in Threads, CompareBlock(t) PROVE Goal
    <2>1. CASE pc' = pc /\ req' = req /\ pos' = [pos EXCEPT ![t] = pos[t] + 1]
        BY <1>0, <1>6, <2>1 DEF CompareBlock, MoreBlocks
    <2>2. CASE pc' = [pc EXCEPT ![t] = "unlock"] /\ UNCHANGED <<req, pos>>
        BY <1>0, <2>2
    <2>3. QED
        BY <1>6, <2>1, <2>2 DEF CompareBlock, Finish
<1>7. ASSUME NEW t \in Threads, CompareDone(t) PROVE Goal
    BY <1>0, <1>7 DEF CompareDone
<1>8. ASSUME NEW t \in Threads, CmpWriteBlock(t) PROVE Goal
    BY <1>0, <1>8 DEF CmpWriteBlock, MoreBlocks
<1>9. ASSUME NEW t \in Threads, Return(t) PROVE Goal
    BY <1>0, <1>9 DEF Return
<1>10. CASE UNCHANGED vars
    BY <1>0, <1>10 DEF vars
<1>11. QED
    BY <1>1, <1>2, <1>3, <1>4, <1>5, <1>6, <1>7, <1>8, <1>9, <1>10 DEF Next, Step

\* The blocks cmpwrite() compared are under its locks.
LEMMA ComparedIsLocked ==
    ASSUME TypeOK, ProgressInv, NEW t \in Threads, NEW b \in Compared(t)
    PROVE  /\ InIo(t) /\ req[t].kind = "cmpwrite"
           /\ b \in BlocksOf(req[t], LockedBlocks(req[t]))
<1>1. req[t].block_nr \in Nat /\ req[t].n_blocks \in Nat /\ pos[t] \in Nat
    BY RequestFields DEF TypeOK
<1>2. CASE pc[t] = "io" /\ req[t].kind = "cmpwrite"
    BY <1>1, <1>2 DEF Compared, ProgressInv, BlocksOf, InIo, LockedBlocks
<1>3. CASE pc[t] = "cw_write"
    BY <1>1, <1>3 DEF Compared, ProgressInv, BlocksOf, InIo, LockedBlocks
<1>4. QED
    BY <1>2, <1>3 DEF Compared

\* A call that is not in the unlocked part of its range is on a locked block.
LEMMA CurrentIsLocked ==
    ASSUME TypeOK, ProgressInv, NEW u \in Threads, InIo(u), MoreBlocks(u), ~InUnlockedPart(u)
    PROVE  CurrentBlock(u) \in BlocksOf(req[u], LockedBlocks(req[u]))
<1>1. req[u].block_nr \in Nat /\ req[u].n_blocks \in Nat /\ pos[u] \in Nat
    BY RequestFields DEF TypeOK
<1>2. LockedBlocks(req[u]) \in Nat
    BY <1>1 DEF LockedBlocks
<1>3. pos[u] < LockedBlocks(req[u])
    <2>1. CASE pc[u] = "io"
        BY <2>1, <1>1, <1>2 DEF InUnlockedPart
    <2>2. CASE pc[u] = "cw_write"
        BY <2>2, <1>1 DEF ProgressInv, LockedBlocks, MoreBlocks
    <2>3. QED
        BY <2>1, <2>2 DEF InIo
<1>4. QED
    BY <1>1, <1>2, <1>3 DEF CurrentBlock, BlocksOf

LEMMA CmpWriteStep ==
    ASSUME LockInv, ProgressInv, [Next]_vars,
           NEW t \in Threads, NEW b \in Compared(t) \cap Compared(t)', disk'[b] # disk[b]
    PROVE  \E u \in Threads \ {t} : InUnlockedPart(u)
<1>0. TypeOK
    BY DEF LockInv
<1>1. PICK u \in Threads : WriteBlock(u) \/ TrimBlock(u) \/ CmpWriteBlock(u)
    BY DEF Next, Step, vars, Call, Lock, Unlock, LockRangeDone, ReadBlock, IoDone, IoFailed,
        CompareBlock, CompareDone, CmpWriteDone, Return
<1>2. InIo(u) /\ MoreBlocks(u) /\ CurrentBlock(u) = b
    <2>1. InIo(u) /\ MoreBlocks(u)
        BY <1>1 DEF WriteBlock, TrimBlock, CmpWriteBlock, InIo
    <2>2. CurrentBlock(u) \in Blocks
        BY <1>0, <2>1, CurrentBlockInRange
    <2>3. PICK v : disk' = [disk EXCEPT ![CurrentBlock(u)] = v]
        BY <1>1 DEF WriteBlock, TrimBlock, CmpWriteBlock
    <2>4. CASE b \in Blocks
        BY <1>0, <2>1, <2>3, <2>4 DEF TypeOK
    <2>5. CASE b \notin Blocks
        <3>1. b \in BlocksOf(req[t], LockedBlocks(req[t])) /\ req[t].kind = "cmpwrite"
            BY <1>0, ComparedIsLocked
        <3>2. /\ req[t].block_nr \in Nat /\ req[t].n_blocks \in Nat
              /\ req[t].block_nr + req[t].n_blocks <= NBlocks
            BY <1>0, RequestFields, RequestsAssumption DEF TypeOK
        <3>3. QED
            BY <2>5, <3>1, <3>2, GeometryAssumption DEF BlocksOf, LockedBlocks, Blocks
    <2>6. QED
        BY <2>4, <2>5
<1>3. InIo(t) /\ req[t].kind = "cmpwrite" /\ b \in BlocksOf(req[t], LockedBlocks(req[t]))
    BY <1>0, ComparedIsLocked
<1>4. u # t
    <2>1. SUFFICES ASSUME u = t PROVE FALSE
        OBVIOUS
    <2>2. CmpWriteBlock(t)
        BY <1>1, <1>3, <2>1 DEF WriteBlock, TrimBlock
    <2>3. pc'[t] = "cw_write" /\ req'[t] = req[t] /\ pos'[t] = pos[t] + 1
        BY <1>0, <2>2 DEF CmpWriteBlock, TypeOK
    <2>4. b \notin BlocksOf(req[t], pos[t] + 1)
        BY <2>3 DEF Compared, BlocksOf
    <2>5. req[t].block_nr \in Nat /\ pos[t] \in Nat
        BY <1>0, RequestFields DEF TypeOK
    <2>6. b \in BlocksOf(req[t], pos[t] + 1)
        BY <1>2, <2>1, <2>5 DEF CurrentBlock, BlocksOf
    <2>7. QED
        BY <2>4, <2>6
<1>5. InUnlockedPart(u)
    <2>1. SUFFICES ASSUME ~InUnlockedPart(u) PROVE FALSE
        OBVIOUS
    <2>2. b \in BlocksOf(req[u], LockedBlocks(req[u]))
        BY <1>0, <1>2, <2>1, CurrentIsLocked
    <2>3. RangesExclusive
        BY HeldMeansExclusive
    <2>4. QED
        BY <1>2, <1>3, <1>4, <2>2, <2>3 DEF RangesExclusive
<1>6. QED
    BY <1>4, <1>5

\* COMPARE AND WRITE is atomic but for the calls that touch blocks they did not
\* lock: nothing else changes a block between comparing and overwriting it.
THEOREM CmpWriteSafe == Spec => CmpWriteUndisturbed
<1>1. LockInv /\ ProgressInv /\ [Next]_vars =>
        [\A t \in Threads : \A b \in Compared(t) \cap Compared(t)' :
            disk'[b] # disk[b] => \E u \in Threads \ {t} : InUnlockedPart(u)]_vars
    BY CmpWriteStep
<1>2. LockInv => TypeOK
    BY DEF LockInv
<1>3. QED
    BY <1>1, <1>2, LockInvariant, ProgressInvInit, ProgressInvStep, PTL
        DEF Spec, CmpWriteUndisturbed

-----------------------------------------------------------------------------
(* The atomic disk. *)

\* The calls whose range locks cover every block they touch: no trim(), no
\* write() of more than a block.
WholeRangesLocked ==
    \A r \in Requests : r.kind # "trim" /\ (r.kind = "write" => r.n_blocks <= 1)

\* What a call has as its return value and in its buffer.
ReplyOf(t) ==
    /\ result[t] = "none" <=> pc[t] # "unlock"
    /\ (pc[t] # "unlock" /\ ~(pc[t] = "io" /\ req[t].kind = "read")) => buf[t] = <<>>
    /\ req[t].kind # "read" => buf[t] = <<>>

\* What a call that has its mutexes knows of the disk: read() has read what is
\* there still, cmpwrite() has compared blocks that have not changed since and
\* written blocks that hold what it wrote.
DataOf(t) ==
    /\ pc[t] = "io" /\ req[t].kind = "read" =>
          /\ Len(buf[t]) = pos[t]
          /\ \A i \in 1 .. pos[t] : buf[t][i] = disk[req[t].block_nr + i - 1]
    /\ \A b \in Compared(t) : disk[b] = req[t].compare
    /\ pc[t] = "cw_write" => \A b \in BlocksOf(req[t], pos[t]) : disk[b] = req[t].data

ReplyInv == \A t \in Threads : ReplyOf(t)

DataInv == \A t \in Threads : DataOf(t)

AtomicInv == LockInv /\ ProgressInv /\ ReplyInv /\ DataInv

-----------------------------------------------------------------------------

LEMMA ReplyInvInit == Init => ReplyInv
BY DEF Init, ReplyInv, ReplyOf

LEMMA ReplyInvStep == TypeOK /\ ProgressInv /\ ReplyInv /\ [Next]_vars => ReplyInv'
<1> SUFFICES ASSUME TypeOK, ProgressInv, ReplyInv, [Next]_vars, NEW u \in Threads
             PROVE  ReplyOf(u)'
    BY DEF ReplyInv
<1>0. ReplyOf(u) /\ (pc[u] = "cw_write" => req[u].kind = "cmpwrite")
    BY DEF ReplyInv, ProgressInv
<1> USE DEF TypeOK, ReplyOf
<1>1. ASSUME NEW t \in Threads, NEW r \in Requests, Call(t, r) PROVE ReplyOf(u)'
    BY <1>0, <1>1 DEF Call
<1>2. ASSUME NEW t \in Threads, NEW l \in Locks, Lock(t, l) \/ Unlock(t, l) PROVE ReplyOf(u)'
    BY <1>0, <1>2 DEF Lock, Unlock
<1>3. ASSUME NEW t \in Threads, LockRangeDone(t) PROVE ReplyOf(u)'
    BY <1>0, <1>3 DEF LockRangeDone
<1>4. ASSUME NEW t \in Threads, ReadBlock(t) PROVE ReplyOf(u)'
    BY <1>0, <1>4 DEF ReadBlock
<1>5. ASSUME NEW t \in Threads, WriteBlock(t) \/ TrimBlock(t) \/ CmpWriteBlock(t)
      PROVE ReplyOf(u)'
    BY <1>0, <1>5 DEF WriteBlock, TrimBlock, CmpWriteBlock
<1>6. ASSUME NEW t \in Threads, IoDone(t) \/ IoFailed(t) \/ CmpWriteDone(t) PROVE ReplyOf(u)'
    BY <1>0, <1>6 DEF IoDone, IoFailed, CmpWriteDone, Finish
<1>7. ASSUME NEW t \in Threads, CompareBlock(t) PROVE ReplyOf(u)'
    BY <1>0, <1>7 DEF CompareBlock, Finish
<1>8. ASSUME NEW t \in Threads, CompareDone(t) PROVE ReplyOf(u)'
    BY <1>0, <1>8 DEF CompareDone
<1>9. ASSUME NEW t \in Threads, Return(t) PROVE ReplyOf(u)'
    BY <1>0, <1>9 DEF Return
<1>10. CASE UNCHANGED vars
    BY <1>0, <1>10 DEF vars
<1>11. QED
    BY <1>1, <1>2, <1>3, <1>4, <1>5, <1>6, <1>7, <1>8, <1>9, <1>10 DEF Next, Step

-----------------------------------------------------------------------------

LEMMA RequestRange ==
    ASSUME NEW r \in Requests
    PROVE  /\ r.block_nr \in Nat /\ r.n_blocks \in Nat
           /\ r.block_nr + r.n_blocks <= NBlocks
           /\ r.data \in Values /\ r.compare \in Values /\ r.kind \in Kinds
BY RequestsAssumption DEF RequestRecords

LEMMA WholeLocked ==
    ASSUME WholeRangesLocked, NEW r \in Requests
    PROVE  LockedBlocks(r) \in Nat /\ r.n_blocks <= LockedBlocks(r)
BY RequestRange DEF WholeRangesLocked, LockedBlocks

\* No other call in its I/O has the block a call is about to write.
LEMMA WriterAlone ==
    ASSUME WholeRangesLocked, LockInv, ProgressInv, NEW t \in Threads, NEW u \in Threads,
           t # u, InIo(t), InIo(u), MoreBlocks(u)
    PROVE  CurrentBlock(u) \notin BlocksOf(req[t], req[t].n_blocks)
<1>1. TypeOK /\ RangesExclusive
    BY HeldMeansExclusive DEF LockInv
<1>2. req[t] \in Requests /\ req[u] \in Requests /\ pos[u] \in Nat
    BY <1>1 DEF TypeOK
<1>3. CurrentBlock(u) \in BlocksOf(req[u], LockedBlocks(req[u]))
    BY <1>2, WholeLocked, RequestRange DEF CurrentBlock, BlocksOf, MoreBlocks
<1>4. CurrentBlock(u) \notin BlocksOf(req[t], LockedBlocks(req[t]))
    BY <1>1, <1>3 DEF RangesExclusive
<1>5. QED
    BY <1>2, <1>4, WholeLocked, RequestRange DEF BlocksOf

\* What a call knows stays true as long as its range does not change.
LEMMA DataKept ==
    ASSUME TypeOK, ProgressInv, NEW t \in Threads, DataOf(t),
           pc'[t] = pc[t], req'[t] = req[t], pos'[t] = pos[t], buf'[t] = buf[t],
           InIo(t) => \A b \in BlocksOf(req[t], req[t].n_blocks) : disk'[b] = disk[b]
    PROVE  DataOf(t)'
<1>1. /\ req[t].block_nr \in Nat /\ req[t].n_blocks \in Nat /\ pos[t] \in Nat
      /\ pos[t] <= req[t].n_blocks
      /\ pc[t] = "cw_write" => req[t].kind = "cmpwrite"
    BY RequestRange DEF TypeOK, ProgressInv
<1>2. BlocksOf(req[t], pos[t]) \subseteq BlocksOf(req[t], req[t].n_blocks)
    BY <1>1 DEF BlocksOf
<1>3. Compared(t)' = Compared(t)
    BY DEF Compared, BlocksOf
<1>4. Compared(t) \subseteq BlocksOf(req[t], req[t].n_blocks)
    BY <1>2 DEF Compared
<1>5. \A b \in Compared(t)' : disk'[b] = req'[t].compare
    <2>1. SUFFICES ASSUME NEW b \in Compared(t) PROVE disk'[b] = req[t].compare
        BY <1>3
    <2>2. InIo(t)
        BY <2>1 DEF Compared, InIo
    <2>3. QED
        BY <2>1, <2>2, <1>4 DEF DataOf
<1>6. ASSUME pc[t] = "cw_write", NEW b \in BlocksOf(req[t], pos[t])
      PROVE  disk'[b] = req[t].data
    BY <1>6, <1>2 DEF DataOf, InIo
<1>7. ASSUME pc[t] = "io", req[t].kind = "read", NEW i \in 1 .. pos[t]
      PROVE  buf[t][i] = disk'[req[t].block_nr + i - 1]
    <2>1. req[t].block_nr + i - 1 \in BlocksOf(req[t], req[t].n_blocks)
        BY <1>1, <1>7 DEF BlocksOf
    <2>2. QED
        BY <1>7, <2>1 DEF DataOf, InIo
<1>8. QED
    BY <1>5, <1>6, <1>7 DEF DataOf, BlocksOf

\* Outside its I/O a call knows nothing of the disk.
LEMMA NoDataKnown ==
    ASSUME NEW t \in Threads, pc'[t] \notin {"io", "cw_write"}
    PROVE  DataOf(t)'
BY DEF DataOf, Compared

LEMMA DataInvInit == Init => DataInv
BY DEF Init, DataInv, DataOf, Compared

\* A step in which the disk stays as it is disturbs no other call.
LEMMA OthersKeepData ==
    ASSUME AtomicInv, NEW t \in Threads, NEW u \in Threads, u # t,
           NEW p, NEW r, NEW n, NEW c,
           pc' \in {pc, [pc EXCEPT ![t] = p]}, req' \in {req, [req EXCEPT ![t] = r]},
           pos' \in {pos, [pos EXCEPT ![t] = n]}, buf' \in {buf, [buf EXCEPT ![t] = c]},
           disk' = disk
    PROVE  DataOf(u)'
<1>1. TypeOK /\ ProgressInv /\ DataOf(u)
    BY DEF AtomicInv, LockInv, DataInv
<1>2. pc'[u] = pc[u] /\ req'[u] = req[u] /\ pos'[u] = pos[u] /\ buf'[u] = buf[u]
    BY <1>1 DEF TypeOK
<1>3. QED
    BY <1>1, <1>2, DataKept

\* Nor does a write of the next block of a call's range.
LEMMA OthersKeepDataOnWrite ==
    ASSUME WholeRangesLocked, AtomicInv, NEW t \in Threads, NEW u \in Threads, u # t,
           InIo(t), MoreBlocks(t), NEW v,
           pc' = pc, req' = req, buf' = buf, pos' = [pos EXCEPT ![t] = pos[t] + 1],
           disk' = [disk EXCEPT ![CurrentBlock(t)] = v]
    PROVE  DataOf(u)'
<1>1. TypeOK /\ LockInv /\ ProgressInv /\ DataOf(u)
    BY DEF AtomicInv, LockInv, DataInv
<1>2. pos'[u] = pos[u]
    BY <1>1 DEF TypeOK
<1>3. ASSUME InIo(u), NEW b \in BlocksOf(req[u], req[u].n_blocks) PROVE disk'[b] = disk[b]
    <2>1. b # CurrentBlock(t)
        BY <1>1, <1>3, WriterAlone
    <2>2. req[u] \in Requests
        BY <1>1 DEF TypeOK
    <2>3. b \in Blocks
        BY <2>2, <1>3, RequestRange, GeometryAssumption DEF BlocksOf, Blocks
    <2>4. QED
        BY <1>1, <2>1, <2>3 DEF TypeOK
<1>4. QED
    BY <1>1, <1>2, <1>3, DataKept

LEMMA DataInvStep ==
    ASSUME WholeRangesLocked PROVE AtomicInv /\ [Next]_vars => DataInv'
<1> SUFFICES ASSUME AtomicInv, [Next]_vars, NEW u \in Threads PROVE DataOf(u)'
    BY DEF DataInv
<1>0. TypeOK /\ LockInv /\ ProgressInv /\ ReplyOf(u) /\ DataOf(u)
    BY DEF AtomicInv, LockInv, DataInv, ReplyInv
<1>r. /\ req[u] \in Requests /\ pos[u] \in Nat
      /\ req[u].block_nr \in Nat /\ req[u].n_blocks \in Nat
      /\ req[u].block_nr + req[u].n_blocks <= NBlocks
    BY <1>0, RequestRange DEF TypeOK
<1>k. ASSUME UNCHANGED <<disk, pc, req, pos, buf>> PROVE DataOf(u)'
    BY <1>0, <1>k, DataKept
<1>1. ASSUME NEW t \in Threads, NEW r \in Requests, Call(t, r) PROVE DataOf(u)'
    <2>1. CASE u = t
        BY <1>0, <1>1, <2>1, NoDataKnown DEF Call, TypeOK
    <2>2. CASE u # t
        BY <1>1, <2>2, OthersKeepData DEF Call
    <2>3. QED
        BY <2>1, <2>2
<1>2. ASSUME NEW t \in Threads, NEW l \in Locks, Lock(t, l) \/ Unlock(t, l) PROVE DataOf(u)'
    BY <1>2, <1>k DEF Lock, Unlock
<1>3. ASSUME NEW t \in Threads, LockRangeDone(t) PROVE DataOf(u)'
    <2>1. CASE u = t
        <3>1. /\ pc'[u] = "io" /\ req' = req /\ buf' = buf /\ pos' = pos /\ disk' = disk
              /\ pos[u] = 0 /\ buf[u] = <<>>
            BY <1>0, <1>3, <2>1 DEF LockRangeDone, ProgressInv, ReplyOf, TypeOK
        <3>2. BlocksOf(req[u], pos[u])' = {} /\ Len(buf'[u]) = 0 /\ 1 .. pos'[u] = {}
            BY <3>1, <1>r DEF BlocksOf
        <3>3. Compared(u)' = {}
            BY <3>1, <3>2 DEF Compared
        <3>4. QED
            BY <3>1, <3>2, <3>3 DEF DataOf
    <2>2. CASE u # t
        BY <1>3, <2>2, OthersKeepData DEF LockRangeDone
    <2>3. QED
        BY <2>1, <2>2
<1>4. ASSUME NEW t \in Threads, ReadBlock(t) PROVE DataOf(u)'
    <2>1. CASE u = t
        <3>1. /\ pc'[u] = "io" /\ req' = req /\ req[u].kind = "read" /\ disk' = disk
              /\ pos'[u] = pos[u] + 1 /\ buf'[u] = Append(buf[u], disk[req[u].block_nr + pos[u]])
              /\ pc[u] = "io" /\ buf[u] \in Seq(Values)
            BY <1>0, <1>4, <2>1 DEF ReadBlock, TypeOK, CurrentBlock
        <3>2. disk[req[u].block_nr + pos[u]] \in Values
            BY <1>0, <1>4, <2>1, CurrentBlockInRange DEF ReadBlock, CurrentBlock, TypeOK
        <3>3. Len(buf'[u]) = pos'[u]
            BY <1>0, <3>1, <3>2 DEF DataOf
        <3>4. ASSUME NEW i \in 1 .. pos'[u] PROVE buf'[u][i] = disk[req[u].block_nr + i - 1]
            <4>0. i \in 1 .. pos[u] \/ i = pos[u] + 1
                BY <1>r, <3>1
            <4>1. CASE i \in 1 .. pos[u]
                BY <1>0, <1>r, <3>1, <3>2, <4>1 DEF DataOf
            <4>2. CASE i = pos[u] + 1
                <5>1. req[u].block_nr + i - 1 = req[u].block_nr + pos[u]
                    BY <1>r, <4>2
                <5>2. Len(buf[u]) = pos[u]
                    BY <1>0, <3>1 DEF DataOf
                <5>3. QED
                    BY <3>1, <3>2, <4>2, <5>1, <5>2
            <4>3. QED
                BY <4>0, <4>1, <4>2
        <3>5. Compared(u)' = {}
            BY <3>1 DEF Compared
        <3>6. QED
            BY <3>1, <3>3, <3>4, <3>5 DEF DataOf
    <2>2. CASE u # t
        <3>1. /\ pc'[u] = pc[u] /\ req'[u] = req[u] /\ pos'[u] = pos[u] /\ buf'[u] = buf[u]
              /\ disk' = disk
            BY <1>0, <1>4, <2>2 DEF ReadBlock, TypeOK
        <3>2. QED
            BY <1>0, <3>1, DataKept
    <2>3. QED
        BY <2>1, <2>2
<1>5. ASSUME NEW t \in Threads, WriteBlock(t) PROVE DataOf(u)'
    <2>1. CASE u = t
        <3>1. pc'[u] = "io" /\ req'[u] = req[u] /\ req[u].kind = "write"
            BY <1>5, <2>1 DEF WriteBlock
        <3>2. QED
            BY <3>1 DEF DataOf, Compared
    <2>2. CASE u # t
        BY <1>5, <2>2, OthersKeepDataOnWrite DEF WriteBlock, InIo
    <2>3. QED
        BY <2>1, <2>2
<1>6. ASSUME NEW t \in Threads, TrimBlock(t) PROVE DataOf(u)'
    BY <1>0, <1>6 DEF TrimBlock, WholeRangesLocked, TypeOK
<1>7. ASSUME NEW t \in Threads, IoDone(t) \/ IoFailed(t) \/ CmpWriteDone(t) PROVE DataOf(u)'
    <2>0. pc' = [pc EXCEPT ![t] = "unlock"] /\ UNCHANGED <<disk, req, pos, buf>>
        BY <1>7 DEF IoDone, IoFailed, CmpWriteDone, Finish
    <2>1. CASE u = t
        BY <1>0, <2>0, <2>1, NoDataKnown DEF TypeOK
    <2>2. CASE u # t
        BY <2>0, <2>2, OthersKeepData
    <2>3. QED
        BY <2>1, <2>2
<1>8. ASSUME NEW t \in Threads, CompareBlock(t) PROVE DataOf(u)'
    <2>0. CASE pc' = [pc EXCEPT ![t] = "unlock"] /\ UNCHANGED <<disk, req, pos, buf>>
        <3>1. CASE u = t
            BY <1>0, <2>0, <3>1, NoDataKnown DEF TypeOK
        <3>2. CASE u # t
            BY <2>0, <3>2, OthersKeepData
        <3>3. QED
            BY <3>1, <3>2
    <2>1. CASE /\ disk[CurrentBlock(t)] = req[t].compare
               /\ pos' = [pos EXCEPT ![t] = pos[t] + 1] /\ UNCHANGED <<disk, pc, req, buf>>
        <3>1. CASE u = t
            <4>1. /\ pc[u] = "io" /\ req[u].kind = "cmpwrite" /\ pos'[u] = pos[u] + 1
                  /\ disk[req[u].block_nr + pos[u]] = req[u].compare
                BY <1>0, <1>8, <2>1, <3>1 DEF CompareBlock, TypeOK, CurrentBlock
            <4>2. Compared(u) = BlocksOf(req[u], pos[u])
                BY <4>1 DEF Compared
            <4>3. Compared(u)' = BlocksOf(req[u], pos[u] + 1)
                BY <2>1, <4>1 DEF Compared, BlocksOf
            <4>4. \A b \in Compared(u)' : b \in Compared(u) \/ b = req[u].block_nr + pos[u]
                BY <4>2, <4>3, <1>r DEF BlocksOf
            <4>5. \A b \in Compared(u)' : disk'[b] = req'[u].compare
                BY <1>0, <2>1, <4>1, <4>4 DEF DataOf
            <4>6. QED
                BY <2>1, <4>1, <4>5 DEF DataOf
        <3>2. CASE u # t
            BY <2>1, <3>2, OthersKeepData
        <3>3. QED
            BY <3>1, <3>2
    <2>2. QED
        BY <1>8, <2>0, <2>1 DEF CompareBlock, Finish
<1>9. ASSUME NEW t \in Threads, CompareDone(t) PROVE DataOf(u)'
    <2>1. CASE u = t
        <3>1. /\ pc[u] = "io" /\ req[u].kind = "cmpwrite" /\ ~MoreBlocks(u) /\ pc'[u] = "cw_write"
              /\ pos'[u] = 0 /\ req' = req /\ disk' = disk
            BY <1>0, <1>9, <2>1 DEF CompareDone, TypeOK
        <3>2. pos[u] = req[u].n_blocks
            BY <1>0, <1>r, <3>1 DEF MoreBlocks, ProgressInv
        <3>3. BlocksOf(req[u], 0) = {}
            BY <1>r DEF BlocksOf
        <3>4. Compared(u) = BlocksOf(req[u], req[u].n_blocks)
            BY <3>1, <3>2 DEF Compared
        <3>5. Compared(u)' = BlocksOf(req[u], req[u].n_blocks) /\ BlocksOf(req[u], pos[u])' = {}
            BY <3>1, <3>3 DEF Compared, BlocksOf
        <3>6. \A b \in Compared(u)' : disk'[b] = req'[u].compare
            BY <1>0, <3>1, <3>4, <3>5 DEF DataOf
        <3>7. QED
            BY <3>1, <3>5, <3>6 DEF DataOf
    <2>2. CASE u # t
        BY <1>9, <2>2, OthersKeepData DEF CompareDone
    <2>3. QED
        BY <2>1, <2>2
<1>10. ASSUME NEW t \in Threads, CmpWriteBlock(t) PROVE DataOf(u)'
    <2>1. CASE u = t
        <3>1. /\ pc[u] = "cw_write" /\ pc' = pc /\ req' = req /\ pos'[u] = pos[u] + 1
              /\ disk' = [disk EXCEPT ![CurrentBlock(u)] = req[u].data] /\ MoreBlocks(u)
              /\ req[u].kind = "cmpwrite"
            BY <1>0, <1>10, <2>1 DEF CmpWriteBlock, TypeOK, ProgressInv
        <3>2. CurrentBlock(u) = req[u].block_nr + pos[u] /\ pos[u] < req[u].n_blocks
            BY <3>1 DEF CurrentBlock, MoreBlocks
        <3>3. BlocksOf(req[u], req[u].n_blocks) \subseteq Blocks
            BY <1>r, GeometryAssumption DEF BlocksOf, Blocks
        <3>4. /\ Compared(u) = BlocksOf(req[u], req[u].n_blocks) \ BlocksOf(req[u], pos[u])
              /\ Compared(u)' = BlocksOf(req[u], req[u].n_blocks) \ BlocksOf(req[u], pos[u] + 1)
              /\ BlocksOf(req[u], pos[u])' = BlocksOf(req[u], pos[u] + 1)
            BY <3>1 DEF Compared, BlocksOf
        <3>5. /\ BlocksOf(req[u], pos[u] + 1) = BlocksOf(req[u], pos[u]) \cup {CurrentBlock(u)}
              /\ BlocksOf(req[u], pos[u] + 1) \subseteq BlocksOf(req[u], req[u].n_blocks)
            BY <1>r, <3>2 DEF BlocksOf
        <3>6. \A b \in Compared(u)' : disk'[b] = req[u].compare
            <4>1. SUFFICES ASSUME NEW b \in Compared(u)' PROVE disk'[b] = req[u].compare
                OBVIOUS
            <4>2. b \in Compared(u) /\ b # CurrentBlock(u) /\ b \in Blocks
                BY <4>1, <3>3, <3>4, <3>5
            <4>3. QED
                BY <4>2, <3>1, <1>0 DEF DataOf, TypeOK
        <3>7. \A b \in BlocksOf(req[u], pos[u] + 1) : disk'[b] = req[u].data
            BY <1>0, <3>1, <3>3, <3>5 DEF DataOf, TypeOK
        <3>8. QED
            BY <3>1, <3>4, <3>6, <3>7 DEF DataOf
    <2>2. CASE u # t
        BY <1>10, <2>2, OthersKeepDataOnWrite DEF CmpWriteBlock, InIo
    <2>3. QED
        BY <2>1, <2>2
<1>11. ASSUME NEW t \in Threads, Return(t) PROVE DataOf(u)'
    <2>1. CASE u = t
        BY <1>0, <1>11, <2>1, NoDataKnown DEF Return, TypeOK
    <2>2. CASE u # t
        <3>1. /\ pc'[u] = pc[u] /\ req'[u] = req[u] /\ pos'[u] = pos[u] /\ buf'[u] = buf[u]
              /\ disk' = disk
            BY <1>0, <1>11, <2>2 DEF Return, TypeOK
        <3>2. QED
            BY <1>0, <3>1, DataKept
    <2>3. QED
        BY <2>1, <2>2
<1>12. CASE UNCHANGED vars
    BY <1>12, <1>k DEF vars
<1>13. QED
    BY <1>1, <1>2, <1>3, <1>4, <1>5, <1>6, <1>7, <1>8, <1>9, <1>10, <1>11, <1>12 DEF Next, Step

\* The data a call has read, compared or written are still on the disk.
LEMMA AtomicInvariant ==
    ASSUME WholeRangesLocked PROVE Spec => []AtomicInv
<1>1. Init => AtomicInv
    BY LockInvInit, ProgressInvInit, ReplyInvInit, DataInvInit DEF AtomicInv
<1>2. AtomicInv /\ [Next]_vars => AtomicInv'
    BY LockInvStep, ProgressInvStep, ReplyInvStep, DataInvStep DEF AtomicInv, LockInv
<1>3. QED
    BY <1>1, <1>2, PTL DEF Spec

-----------------------------------------------------------------------------

\* b is a block cmpwrite() has overwritten before it took effect.
Covered(t, b) == pc[t] = "cw_write" /\ b \in BlocksOf(req[t], pos[t])

\* What the abstract disk holds.
DiskView ==
    /\ AbstractDisk = [b \in Blocks |-> AbstractDisk[b]]
    /\ \A b \in Blocks : \A t \in Threads : Covered(t, b) => AbstractDisk[b] = req[t].compare
    /\ \A b \in Blocks : (\A t \in Threads : ~Covered(t, b)) => AbstractDisk[b] = disk[b]

\* A block of a call's range is covered by no other call.
LEMMA CoveredByOne ==
    ASSUME WholeRangesLocked, LockInv, ProgressInv, NEW t \in Threads, NEW u \in Threads,
           NEW b, Covered(u, b), InIo(t), b \in BlocksOf(req[t], req[t].n_blocks)
    PROVE  u = t
<1>1. TypeOK /\ RangesExclusive /\ InIo(u)
    BY HeldMeansExclusive DEF LockInv, Covered, InIo
<1>2. /\ req[t] \in Requests /\ req[u] \in Requests
      /\ pos[u] \in Nat /\ pos[u] <= req[u].n_blocks
    BY <1>1 DEF TypeOK, ProgressInv
<1>3. b \in BlocksOf(req[u], LockedBlocks(req[u]))
    BY <1>2, WholeLocked, RequestRange DEF Covered, BlocksOf
<1>4. b \in BlocksOf(req[t], LockedBlocks(req[t]))
    BY <1>2, WholeLocked, RequestRange DEF BlocksOf
<1>5. QED
    BY <1>1, <1>3, <1>4 DEF RangesExclusive

LEMMA AbstractDiskIs ==
    ASSUME WholeRangesLocked PROVE LockInv /\ ProgressInv => DiskView
<1> SUFFICES ASSUME LockInv, ProgressInv PROVE DiskView
    OBVIOUS
<1>1. ASSUME NEW b \in Blocks, NEW t \in Threads, Covered(t, b)
      PROVE  AbstractDisk[b] = req[t].compare
    <2> DEFINE u == CHOOSE v \in Threads : Covered(v, b)
    <2>1. u \in Threads /\ Covered(u, b)
        BY <1>1
    <2>2. b \in BlocksOf(req[t], req[t].n_blocks) /\ InIo(t)
        <3>1. /\ req[t].block_nr \in Nat /\ req[t].n_blocks \in Nat
              /\ pos[t] \in Nat /\ pos[t] <= req[t].n_blocks
            BY RequestRange DEF LockInv, TypeOK, ProgressInv
        <3>2. QED
            BY <1>1, <3>1 DEF Covered, InIo, BlocksOf
    <2>3. u = t
        BY <2>1, <2>2, CoveredByOne
    <2>4. AbstractDisk[b] = req[u].compare
        BY <1>1 DEF AbstractDisk, Covered
    <2>5. QED
        BY <2>3, <2>4
<1>2. ASSUME NEW b \in Blocks, \A t \in Threads : ~Covered(t, b)
      PROVE  AbstractDisk[b] = disk[b]
    BY <1>2 DEF AbstractDisk, Covered
<1>3. AbstractDisk = [b \in Blocks |-> AbstractDisk[b]]
    BY DEF AbstractDisk
<1>4. QED
    BY <1>1, <1>2, <1>3 DEF DiskView

\* The range of a call in its I/O, as the abstract disk has it: what is on the
\* disk, or what cmpwrite() found there.
LEMMA OwnRange ==
    ASSUME WholeRangesLocked, AtomicInv, NEW t \in Threads, InIo(t),
           NEW b \in BlocksOf(req[t], req[t].n_blocks)
    PROVE  /\ b \in Blocks
           /\ pc[t] = "io" => AbstractDisk[b] = disk[b]
           /\ pc[t] = "cw_write" => AbstractDisk[b] = req[t].compare
<1>1. LockInv /\ ProgressInv /\ TypeOK /\ DiskView /\ DataOf(t) /\ req[t] \in Requests
    BY AbstractDiskIs DEF AtomicInv, LockInv, DataInv, TypeOK
<1>2. b \in Blocks
    BY <1>1, RequestRange, GeometryAssumption DEF BlocksOf, Blocks
<1>3. \A u \in Threads : Covered(u, b) => u = t
    BY <1>1, CoveredByOne
<1>4. ASSUME pc[t] = "io" PROVE AbstractDisk[b] = disk[b]
    BY <1>1, <1>2, <1>3, <1>4 DEF DiskView, Covered
<1>5. ASSUME pc[t] = "cw_write" PROVE AbstractDisk[b] = req[t].compare
    <2>1. CASE b \in BlocksOf(req[t], pos[t])
        BY <1>1, <1>2, <1>5, <2>1 DEF DiskView, Covered
    <2>2. CASE b \notin BlocksOf(req[t], pos[t])
        <3>1. b \in Compared(t)
            BY <1>5, <2>2 DEF Compared
        <3>2. disk[b] = req[t].compare
            BY <1>1, <3>1 DEF DataOf
        <3>3. \A u \in Threads : ~Covered(u, b)
            BY <1>3, <2>2 DEF Covered
        <3>4. QED
            BY <1>1, <1>2, <3>2, <3>3 DEF DiskView
    <2>3. QED
        BY <2>1, <2>2
<1>6. QED
    BY <1>2, <1>4, <1>5

-----------------------------------------------------------------------------

\* A step moves one thread.
OnlyMoves(t) ==
    \A u \in Threads \ {t} :
        /\ pc'[u] = pc[u] /\ req'[u] = req[u] /\ pos'[u] = pos[u]
        /\ buf'[u] = buf[u] /\ result'[u] = result[u]

LEMMA OneMoves ==
    ASSUME TypeOK, NEW t \in Threads, Step(t) \/ \E r \in Requests : Call(t, r)
    PROVE  OnlyMoves(t)
BY DEF TypeOK, OnlyMoves, Step, Call, Lock, Unlock, LockRangeDone, ReadBlock, WriteBlock,
    TrimBlock, IoDone, IoFailed, CompareBlock, CompareDone, CmpWriteBlock, CmpWriteDone,
    Return, Finish

\* The calls and replies of the other threads look as before.
LEMMA OthersLookSame ==
    ASSUME NEW t \in Threads, OnlyMoves(t)
    PROVE  /\ AbstractCall' = [AbstractCall EXCEPT ![t] = AbstractCall'[t]]
           /\ VisibleReply' = [VisibleReply EXCEPT ![t] = VisibleReply'[t]]
<1>1. \A u \in Threads \ {t} : AbstractCall'[u] = AbstractCall[u]
    BY DEF AbstractCall, OnlyMoves
<1>2. \A u \in Threads \ {t} : AbstractReply'[u] = AbstractReply[u]
    BY DEF AbstractReply, OnlyMoves, MoreBlocks
<1>3. \A u \in Threads \ {t} : VisibleReply'[u] = VisibleReply[u]
    BY <1>2 DEF VisibleReply, OnlyMoves
<1>4. /\ AbstractCall = [u \in Threads |-> AbstractCall[u]]
      /\ AbstractCall' = [u \in Threads |-> AbstractCall'[u]]
    BY DEF AbstractCall
<1>5. /\ VisibleReply = [u \in Threads |-> VisibleReply[u]]
      /\ VisibleReply' = [u \in Threads |-> VisibleReply'[u]]
    BY DEF VisibleReply
<1>6. QED
    BY <1>1, <1>3, <1>4, <1>5

\* What the moving thread's own call and reply look like.
LEMMA CallLooks ==
    \A t \in Threads :
        /\ AbstractCall[t] = IF pc[t] = "idle" THEN Free ELSE req[t]
        /\ VisibleReply[t] =
             IF pc[t] = "io" /\ req[t].kind = "read" THEN <<"none", <<>>>>
             ELSE IF pc[t] = "io" /\ req[t].kind = "write" /\ ~MoreBlocks(t)
             THEN <<"ok", <<>>>> ELSE <<result[t], buf[t]>>
BY DEF AbstractCall, VisibleReply, AbstractReply

\* The abstract disk stays as it is when the disk does and the moving thread
\* covers nothing.
LEMMA DiskLooksSame ==
    ASSUME DiskView, DiskView', NEW t \in Threads, OnlyMoves(t), disk' = disk,
           \A b \in Blocks : ~Covered(t, b) /\ ~Covered(t, b)'
    PROVE  AbstractDisk' = AbstractDisk
<1>1. \A u \in Threads : \A b \in Blocks :
        /\ Covered(u, b)' <=> Covered(u, b)
        /\ Covered(u, b) => req'[u] = req[u]
    BY DEF OnlyMoves, Covered, BlocksOf
<1>2. \A b \in Blocks : AbstractDisk'[b] = AbstractDisk[b]
    <2>1. SUFFICES ASSUME NEW b \in Blocks PROVE AbstractDisk'[b] = AbstractDisk[b]
        OBVIOUS
    <2>2. CASE \E u \in Threads : Covered(u, b)
        BY <1>1, <2>2 DEF DiskView
    <2>3. CASE \A u \in Threads : ~Covered(u, b)
        BY <1>1, <2>3 DEF DiskView
    <2>4. QED
        BY <2>2, <2>3
<1>3. QED
    BY <1>2 DEF DiskView

\* Two sequences with the same length and elements.
LEMMA SameSequence ==
    ASSUME NEW s \in Seq(Values), NEW q \in Seq(Values), Len(s) = Len(q),
           \A i \in 1 .. Len(s) : s[i] = q[i]
    PROVE  s = q
BY SeqEqual

\* What read() has in its buffer is the beginning of its range.
LEMMA BufferIsRange ==
    ASSUME WholeRangesLocked, AtomicInv, NEW t \in Threads, pc[t] = "io", req[t].kind = "read"
    PROVE  /\ buf[t] = SubSeq(Atomic!Contents(req[t]), 1, pos[t])
           /\ ~MoreBlocks(t) => buf[t] = Atomic!Contents(req[t])
<1> DEFINE n == req[t].n_blocks
           f == Atomic!Contents(req[t])
<1>1. TypeOK /\ ProgressInv /\ DataOf(t)
    BY DEF AtomicInv, LockInv, DataInv
<1>2. /\ req[t].block_nr \in Nat /\ n \in Nat /\ pos[t] \in Nat /\ pos[t] <= n
      /\ buf[t] \in Seq(Values)
    BY <1>1, RequestRange DEF TypeOK, ProgressInv
<1>3. f = [i \in 1 .. n |-> AbstractDisk[req[t].block_nr + i - 1]]
    BY DEF Atomic!Contents
<1>4. ASSUME NEW i \in 1 .. n
      PROVE  f[i] = disk[req[t].block_nr + i - 1] /\ f[i] \in Values
    <2>1. req[t].block_nr + i - 1 \in BlocksOf(req[t], req[t].n_blocks)
        BY <1>2, <1>4 DEF BlocksOf
    <2>2. /\ AbstractDisk[req[t].block_nr + i - 1] = disk[req[t].block_nr + i - 1]
          /\ req[t].block_nr + i - 1 \in Blocks
        BY <2>1, OwnRange DEF InIo
    <2>3. QED
        BY <1>1, <1>3, <1>4, <2>2 DEF TypeOK
<1> HIDE DEF f
<1>5. Len(buf[t]) = pos[t] /\ \A i \in 1 .. pos[t] : buf[t][i] = f[i]
    <2>1. Len(buf[t]) = pos[t] /\ \A i \in 1 .. pos[t] : buf[t][i] = disk[req[t].block_nr + i - 1]
        BY <1>1 DEF DataOf
    <2>2. QED
        BY <1>2, <1>4, <2>1
<1>6. buf[t] = SubSeq(f, 1, pos[t])
    <2>1. \A i \in 1 .. pos[t] : f[i] \in Values
        BY <1>2, <1>4
    <2> DEFINE q == SubSeq(f, 1, pos[t])
    <2>2. /\ q \in Seq(Values)
          /\ Len(q) = IF 1 <= pos[t] THEN pos[t] - 1 + 1 ELSE 0
          /\ \A i \in 1 .. pos[t] - 1 + 1 : q[i] = f[1 + i - 1]
        <3>1. 1 \in Int /\ pos[t] \in Int
            BY <1>2
        <3>2. QED
            BY ONLY <2>1, <3>1, SubSeqProperties
    <2> HIDE DEF q
    <2>3. Len(q) = pos[t] /\ \A i \in 1 .. pos[t] : q[i] = f[i]
        BY <1>2, <2>2
    <2>4. buf[t] = q
        BY <1>2, <1>5, <2>2, <2>3, SameSequence
    <2>5. QED
        BY <2>4 DEF q
<1>7. ASSUME ~MoreBlocks(t) PROVE buf[t] = f
    <2>1. pos[t] = n
        BY <1>2, <1>7 DEF MoreBlocks
    <2>2. f \in [1 .. n -> Values]
        BY <1>3, <1>4
    <2>3. f \in Seq(Values) /\ Len(f) = n
        BY <1>2, <2>2
    <2>4. QED
        BY <1>2, <1>5, <2>1, <2>3, SameSequence
<1>8. QED
    BY <1>6, <1>7 DEF f

-----------------------------------------------------------------------------

LEMMA AtomicInit == Init => Atomic!Init
<1> SUFFICES ASSUME Init PROVE Atomic!Init
    OBVIOUS
<1>1. \A t \in Threads : pc[t] = "idle" /\ result[t] = "none" /\ buf[t] = <<>>
    BY DEF Init
<1>2. AbstractDisk = [b \in 0 .. NBlocks - 1 |-> Zero]
    BY <1>1 DEF AbstractDisk, Init, Blocks
<1>3. AbstractCall = [t \in Threads |-> Free]
    BY <1>1 DEF AbstractCall
<1>4. VisibleReply = [t \in Threads |-> <<"none", <<>>>>]
    BY <1>1 DEF VisibleReply, AbstractReply
<1>5. QED
    BY <1>2, <1>3, <1>4 DEF Atomic!Init, Atomic!Pending

\* The call of a thread whose call has not had its effect yet.
LEMMA EffectPending ==
    ASSUME AtomicInv, NEW t \in Threads, pc[t] \in {"lock", "io", "cw_write"},
           ~(pc[t] = "io" /\ req[t].kind = "write" /\ ~MoreBlocks(t))
    PROVE  /\ AbstractCall[t] = req[t] /\ VisibleReply[t] = Atomic!Pending
           /\ Atomic!Effect(t)
<1>1. TypeOK /\ ReplyOf(t)
    BY DEF AtomicInv, LockInv, ReplyInv
<1>2. AbstractCall[t] = req[t] /\ req[t] # Free
    BY <1>1, CallLooks, FreeIsNoRequest DEF TypeOK
<1>3. result[t] = "none"
    BY <1>1 DEF ReplyOf
<1>4. VisibleReply[t] = <<"none", <<>>>>
    BY <1>1, <1>3, CallLooks DEF ReplyOf
<1>5. QED
    BY <1>2, <1>4 DEF Atomic!Pending, Atomic!Effect

\* A step of t that leaves its call, its reply and the abstract disk alone.
LEMMA Stutters ==
    ASSUME NEW t \in Threads, OnlyMoves(t), AbstractDisk' = AbstractDisk,
           AbstractCall'[t] = AbstractCall[t], VisibleReply'[t] = VisibleReply[t]
    PROVE  UNCHANGED Atomic!vars
<1>1. /\ AbstractCall' = [AbstractCall EXCEPT ![t] = AbstractCall[t]]
      /\ VisibleReply' = [VisibleReply EXCEPT ![t] = VisibleReply[t]]
    BY OthersLookSame
<1>2. AbstractCall' = AbstractCall
    BY <1>1 DEF AbstractCall
<1>3. VisibleReply' = VisibleReply
    BY <1>1 DEF VisibleReply
<1>4. QED
    BY <1>2, <1>3 DEF Atomic!vars

-----------------------------------------------------------------------------

\* The one block of write() reaches the abstract disk at once.
LEMMA WriteBlockFills ==
    ASSUME WholeRangesLocked, AtomicInv, DiskView, DiskView', NEW t \in Threads,
           OnlyMoves(t), WriteBlock(t)
    PROVE  AbstractDisk' = Atomic!Filled(req[t], req[t].n_blocks, req[t].data)
<1>1. /\ TypeOK /\ LockInv /\ ProgressInv /\ InIo(t) /\ MoreBlocks(t) /\ pc[t] = "io"
      /\ req[t] \in Requests /\ pos[t] \in Nat /\ req[t].kind = "write"
    BY DEF AtomicInv, LockInv, WriteBlock, InIo, TypeOK
<1>2. req[t].n_blocks = 1 /\ pos[t] = 0 /\ req[t].block_nr \in Nat
    BY <1>1, RequestRange DEF WholeRangesLocked, MoreBlocks
<1>3. /\ CurrentBlock(t) = req[t].block_nr
      /\ BlocksOf(req[t], req[t].n_blocks) = {req[t].block_nr}
    BY <1>2 DEF CurrentBlock, BlocksOf
<1>4. /\ req[t].block_nr \in Blocks
      /\ disk' = [disk EXCEPT ![req[t].block_nr] = req[t].data]
    BY <1>1, <1>3, CurrentBlockInRange DEF WriteBlock
<1>5. \A u \in Threads : \A b \in Blocks :
        /\ Covered(u, b)' <=> Covered(u, b)
        /\ req'[u] = req[u]
        /\ Covered(u, b) => b # req[t].block_nr
    <2>1. ASSUME NEW u \in Threads, NEW b \in Blocks, Covered(u, b) PROVE b # req[t].block_nr
        BY <1>1, <1>3, <2>1, CoveredByOne DEF Covered
    <2>2. req' = req /\ pc' = pc /\ pc[t] # "cw_write"
        BY <1>1 DEF WriteBlock
    <2>3. QED
        BY <2>1, <2>2 DEF OnlyMoves, Covered, BlocksOf
<1>6. ASSUME NEW b \in Blocks
      PROVE  AbstractDisk'[b] = IF b = req[t].block_nr THEN req[t].data ELSE AbstractDisk[b]
    <2>1. CASE \E u \in Threads : Covered(u, b)
        BY <1>5, <1>6, <2>1 DEF DiskView
    <2>2. CASE \A u \in Threads : ~Covered(u, b)
        <3>1. AbstractDisk[b] = disk[b] /\ AbstractDisk'[b] = disk'[b]
            BY <1>5, <1>6, <2>2 DEF DiskView
        <3>2. QED
            BY <1>1, <1>4, <3>1 DEF TypeOK
    <2>3. QED
        BY <2>1, <2>2
<1>7. AbstractDisk' = [b \in Blocks |-> IF b = req[t].block_nr THEN req[t].data ELSE AbstractDisk[b]]
    BY <1>6 DEF DiskView
<1>8. req[t].block_nr .. (req[t].block_nr + req[t].n_blocks - 1) = {req[t].block_nr}
    BY <1>3 DEF BlocksOf
<1>9. QED
    BY <1>7, <1>8 DEF Atomic!Filled, Blocks

\* A block cmpwrite() writes stays, for the others, what it compared with.
LEMMA CmpWriteBlockHidden ==
    ASSUME WholeRangesLocked, AtomicInv, DiskView, DiskView', NEW t \in Threads,
           OnlyMoves(t), CmpWriteBlock(t)
    PROVE  AbstractDisk' = AbstractDisk
<1>1. /\ TypeOK /\ LockInv /\ ProgressInv /\ InIo(t) /\ MoreBlocks(t) /\ pc[t] = "cw_write"
      /\ req[t] \in Requests /\ pos[t] \in Nat
    BY DEF AtomicInv, LockInv, CmpWriteBlock, InIo, TypeOK
<1>2. /\ req[t].block_nr \in Nat /\ req[t].n_blocks \in Nat /\ pos[t] < req[t].n_blocks
      /\ pos'[t] = pos[t] + 1 /\ req' = req /\ pc' = pc
      /\ disk' = [disk EXCEPT ![CurrentBlock(t)] = req[t].data]
      /\ CurrentBlock(t) = req[t].block_nr + pos[t]
    BY <1>1, RequestRange DEF CmpWriteBlock, MoreBlocks, TypeOK, CurrentBlock
<1>3. /\ BlocksOf(req[t], pos[t] + 1) = BlocksOf(req[t], pos[t]) \cup {CurrentBlock(t)}
      /\ BlocksOf(req[t], pos[t] + 1) \subseteq BlocksOf(req[t], req[t].n_blocks)
    BY <1>1, <1>2 DEF BlocksOf
<1>4. \A b \in Blocks : Covered(t, b)' <=> (Covered(t, b) \/ b = CurrentBlock(t))
    BY <1>1, <1>2, <1>3 DEF Covered, BlocksOf
<1>5. \A u \in Threads \ {t} : \A b \in Blocks : Covered(u, b)' <=> Covered(u, b)
    BY DEF OnlyMoves, Covered, BlocksOf
<1>6. ASSUME NEW b \in Blocks PROVE AbstractDisk'[b] = AbstractDisk[b]
    <2>1. CASE Covered(t, b)'
        <3>1. b \in BlocksOf(req[t], req[t].n_blocks)
            BY <2>1, <1>2, <1>3 DEF Covered, BlocksOf
        <3>2. AbstractDisk[b] = req[t].compare
            BY <3>1, <1>1, OwnRange
        <3>3. AbstractDisk'[b] = req'[t].compare
            BY <1>6, <2>1 DEF DiskView
        <3>4. QED
            BY <1>2, <3>2, <3>3
    <2>2. CASE ~Covered(t, b)' /\ \E u \in Threads : Covered(u, b)
        BY <1>2, <1>4, <1>5, <1>6, <2>2 DEF DiskView
    <2>3. CASE ~Covered(t, b)' /\ \A u \in Threads : ~Covered(u, b)
        <3>1. AbstractDisk[b] = disk[b] /\ AbstractDisk'[b] = disk'[b] /\ b # CurrentBlock(t)
            BY <1>4, <1>5, <1>6, <2>3 DEF DiskView
        <3>2. QED
            BY <1>1, <1>2, <3>1 DEF TypeOK
    <2>4. QED
        BY <2>1, <2>2, <2>3
<1>7. QED
    BY <1>6 DEF DiskView

\* When cmpwrite()'s pwrite has returned, everything it wrote appears at once.
LEMMA CmpWriteDoneFills ==
    ASSUME WholeRangesLocked, AtomicInv, DiskView, DiskView', NEW t \in Threads,
           OnlyMoves(t), CmpWriteDone(t)
    PROVE  AbstractDisk' = Atomic!Filled(req[t], pos[t], req[t].data)
<1>1. /\ TypeOK /\ LockInv /\ ProgressInv /\ DataOf(t) /\ InIo(t) /\ pc[t] = "cw_write"
      /\ req[t] \in Requests /\ pos[t] \in Nat /\ pos[t] <= req[t].n_blocks
    BY DEF AtomicInv, DataInv, LockInv, CmpWriteDone, InIo, TypeOK, ProgressInv
<1>2. /\ req[t].block_nr \in Nat /\ req[t].n_blocks \in Nat
      /\ pc'[t] = "unlock" /\ disk' = disk /\ req' = req
    BY <1>1, RequestRange DEF CmpWriteDone, Finish, TypeOK
<1>3. BlocksOf(req[t], pos[t]) \subseteq BlocksOf(req[t], req[t].n_blocks)
    BY <1>1, <1>2 DEF BlocksOf
<1>4. \A b \in Blocks : ~Covered(t, b)'
    BY <1>2 DEF Covered
<1>5. \A u \in Threads \ {t} : \A b \in Blocks : Covered(u, b)' <=> Covered(u, b)
    BY DEF OnlyMoves, Covered, BlocksOf
<1>6. ASSUME NEW b \in Blocks
      PROVE  AbstractDisk'[b] = IF b \in BlocksOf(req[t], pos[t]) THEN req[t].data
                                ELSE AbstractDisk[b]
    <2>1. CASE b \in BlocksOf(req[t], pos[t])
        <3>1. \A u \in Threads : ~Covered(u, b)'
            BY <1>1, <1>3, <1>4, <1>5, <1>6, <2>1, CoveredByOne
        <3>2. AbstractDisk'[b] = disk'[b]
            BY <1>6, <3>1 DEF DiskView
        <3>3. QED
            BY <1>1, <1>2, <2>1, <3>2 DEF DataOf
    <2>2. CASE b \notin BlocksOf(req[t], pos[t]) /\ \E u \in Threads : Covered(u, b)
        <3>1. PICK u \in Threads : Covered(u, b)
            BY <2>2
        <3>2. u # t
            BY <2>2, <3>1 DEF Covered
        <3>3. Covered(u, b)'
            BY <1>5, <1>6, <3>1, <3>2
        <3>4. QED
            BY <1>2, <1>6, <2>2, <3>1, <3>3 DEF DiskView
    <2>3. CASE b \notin BlocksOf(req[t], pos[t]) /\ \A u \in Threads : ~Covered(u, b)
        BY <1>2, <1>4, <1>5, <1>6, <2>3 DEF DiskView
    <2>4. QED
        BY <2>1, <2>2, <2>3
<1>7. AbstractDisk' = [b \in Blocks |-> IF b \in BlocksOf(req[t], pos[t]) THEN req[t].data
                                        ELSE AbstractDisk[b]]
    BY <1>6 DEF DiskView
<1>8. QED
    BY <1>7 DEF Atomic!Filled, Blocks, BlocksOf

-----------------------------------------------------------------------------

LEMMA AtomicStep ==
    ASSUME WholeRangesLocked
    PROVE  AtomicInv /\ AtomicInv' /\ [Next]_vars => [Atomic!Next]_(Atomic!vars)
<1> SUFFICES ASSUME AtomicInv, AtomicInv', [Next]_vars
             PROVE  Atomic!Next \/ UNCHANGED Atomic!vars
    OBVIOUS
<1> DEFINE Goal == Atomic!Next \/ UNCHANGED Atomic!vars
<1>0. TypeOK /\ LockInv /\ ProgressInv
    BY DEF AtomicInv, LockInv
<1>v. DiskView
    BY AbstractDiskIs DEF AtomicInv
<1>w. DiskView'
    <2>1. LockInv' /\ ProgressInv' => DiskView'
        BY AbstractDiskIs, PTL
    <2>2. QED
        BY <2>1 DEF AtomicInv
<1>l. \A t \in Threads :
        /\ AbstractCall'[t] = IF pc'[t] = "idle" THEN Free ELSE req'[t]
        /\ VisibleReply'[t] =
             IF pc'[t] = "io" /\ req'[t].kind = "read" THEN <<"none", <<>>>>
             ELSE IF pc'[t] = "io" /\ req'[t].kind = "write" /\ ~MoreBlocks(t)'
             THEN <<"ok", <<>>>> ELSE <<result'[t], buf'[t]>>
    BY DEF AbstractCall, VisibleReply, AbstractReply
<1>s. ASSUME NEW t \in Threads, OnlyMoves(t), disk' = disk,
             pc[t] # "cw_write", pc'[t] # "cw_write"
      PROVE  AbstractDisk' = AbstractDisk
    BY <1>s, <1>v, <1>w, DiskLooksSame DEF Covered
<1>1. ASSUME NEW t \in Threads, NEW r \in Requests, Call(t, r), OnlyMoves(t) PROVE Goal
    <2>1. /\ pc[t] = "idle" /\ pc'[t] = "lock" /\ req'[t] = r /\ disk' = disk
          /\ buf' = buf /\ result' = result
        BY <1>0, <1>1 DEF Call, TypeOK
    <2>2. AbstractDisk' = AbstractDisk
        BY <1>1, <2>1, <1>s
    <2>3. AbstractCall[t] = Free /\ AbstractCall'[t] = r /\ VisibleReply'[t] = VisibleReply[t]
        BY <2>1, <1>l, CallLooks
    <2>4. /\ AbstractCall' = [AbstractCall EXCEPT ![t] = r]
          /\ VisibleReply' = [VisibleReply EXCEPT ![t] = VisibleReply[t]]
        BY <1>1, <2>3, OthersLookSame
    <2>5. VisibleReply' = VisibleReply
        BY <2>4 DEF VisibleReply
    <2>6. Atomic!Invoke(t, r)
        BY <2>2, <2>3, <2>4, <2>5 DEF Atomic!Invoke
    <2>7. QED
        BY <2>6 DEF Atomic!Next
<1>2. ASSUME NEW t \in Threads, NEW l \in Locks, Lock(t, l) \/ Unlock(t, l), OnlyMoves(t)
      PROVE  Goal
    <2>1. pc[t] \in {"lock", "unlock"} /\ UNCHANGED <<disk, pc, req, pos, buf, result>>
        BY <1>2 DEF Lock, Unlock, Wants
    <2>2. AbstractDisk' = AbstractDisk
        BY <1>2, <2>1, <1>s
    <2>3. AbstractCall'[t] = AbstractCall[t] /\ VisibleReply'[t] = VisibleReply[t]
        BY <2>1, <1>l, CallLooks
    <2>4. QED
        BY <1>2, <2>2, <2>3, Stutters
<1>3. ASSUME NEW t \in Threads, LockRangeDone(t), OnlyMoves(t) PROVE Goal
    <2>1. /\ pc[t] = "lock" /\ pc'[t] = "io" /\ UNCHANGED <<disk, req, pos, buf, result>>
        BY <1>0, <1>3 DEF LockRangeDone, TypeOK
    <2>2. AbstractDisk' = AbstractDisk
        BY <1>3, <2>1, <1>s
    <2>3. /\ AbstractCall[t] = req[t] /\ VisibleReply[t] = Atomic!Pending /\ Atomic!Effect(t)
          /\ result[t] = "none" /\ buf[t] = <<>>
        BY <2>1, EffectPending DEF AtomicInv, ReplyInv, ReplyOf
    <2>4. AbstractCall'[t] = AbstractCall[t]
        BY <2>1, <2>3, <1>l
    <2>5. CASE ~(req[t].kind = "write" /\ ~MoreBlocks(t))
        <3>1. VisibleReply'[t] = VisibleReply[t]
            BY <2>1, <2>3, <2>5, <1>l DEF Atomic!Pending, MoreBlocks
        <3>2. QED
            BY <1>3, <2>2, <2>4, <3>1, Stutters
    <2>6. CASE req[t].kind = "write" /\ ~MoreBlocks(t)
        <3>1. VisibleReply'[t] = <<"ok", <<>>>>
            BY <2>1, <2>6, <1>l DEF MoreBlocks
        <3>2. /\ AbstractCall' = AbstractCall
              /\ VisibleReply' = [VisibleReply EXCEPT ![t] = <<"ok", <<>>>>]
            BY <1>3, <2>4, <3>1, OthersLookSame DEF AbstractCall
        <3>3. req[t].n_blocks = 0 /\ req[t].block_nr \in Nat
            <4>1. /\ req[t].n_blocks \in Nat /\ req[t].block_nr \in Nat
                  /\ pos[t] = 0
                BY <1>0, <2>1, RequestRange DEF TypeOK, ProgressInv
            <4>2. QED
                BY <2>6, <4>1 DEF MoreBlocks
        <3>4. AbstractDisk = Atomic!Filled(req[t], req[t].n_blocks, req[t].data)
            <4>1. req[t].block_nr .. (req[t].block_nr + req[t].n_blocks - 1) = {}
                BY <3>3
            <4>2. AbstractDisk = [b \in 0 .. NBlocks - 1 |-> AbstractDisk[b]]
                BY <1>v DEF DiskView, Blocks
            <4>3. QED
                BY <4>1, <4>2 DEF Atomic!Filled
        <3>5. Atomic!Write(t)
            BY <2>2, <2>3, <2>6, <3>2, <3>4 DEF Atomic!Write
        <3>6. QED
            BY <3>5 DEF Atomic!Next
    <2>7. QED
        BY <2>5, <2>6
<1>4. ASSUME NEW t \in Threads, ReadBlock(t), OnlyMoves(t) PROVE Goal
    <2>1. /\ pc[t] = "io" /\ pc' = pc /\ req[t].kind = "read" /\ UNCHANGED <<disk, req>>
        BY <1>4 DEF ReadBlock
    <2>2. AbstractDisk' = AbstractDisk
        BY <1>4, <2>1, <1>s
    <2>3. AbstractCall'[t] = AbstractCall[t] /\ VisibleReply'[t] = VisibleReply[t]
        BY <2>1, <1>l, CallLooks
    <2>4. QED
        BY <1>4, <2>2, <2>3, Stutters
<1>5. ASSUME NEW t \in Threads, WriteBlock(t), OnlyMoves(t) PROVE Goal
    <2>1. /\ pc[t] = "io" /\ pc' = pc /\ req[t].kind = "write" /\ MoreBlocks(t)
          /\ req' = req /\ pos'[t] = pos[t] + 1
        BY <1>0, <1>5 DEF WriteBlock, TypeOK
    <2>2. AbstractDisk' = Atomic!Filled(req[t], req[t].n_blocks, req[t].data)
        BY <1>5, <1>v, <1>w, WriteBlockFills
    <2>3. AbstractCall[t] = req[t] /\ Atomic!Effect(t)
        BY <2>1, EffectPending
    <2>4. ~MoreBlocks(t)'
        <3>1. /\ req[t].n_blocks \in Nat /\ pos[t] \in Nat /\ req[t].n_blocks <= 1
            BY <1>0, <2>1, RequestRange DEF TypeOK, WholeRangesLocked
        <3>2. QED
            BY <2>1, <3>1 DEF MoreBlocks
    <2>5. AbstractCall'[t] = AbstractCall[t] /\ VisibleReply'[t] = <<"ok", <<>>>>
        BY <2>1, <2>3, <2>4, <1>l
    <2>6. /\ AbstractCall' = AbstractCall
          /\ VisibleReply' = [VisibleReply EXCEPT ![t] = <<"ok", <<>>>>]
        BY <1>5, <2>5, OthersLookSame DEF AbstractCall
    <2>7. Atomic!Write(t)
        BY <2>1, <2>2, <2>3, <2>6 DEF Atomic!Write
    <2>8. QED
        BY <2>7 DEF Atomic!Next
<1>6. ASSUME NEW t \in Threads, TrimBlock(t) PROVE Goal
    BY <1>0, <1>6 DEF TrimBlock, WholeRangesLocked, TypeOK
<1>7. ASSUME NEW t \in Threads, NEW res \in {"ok", "failed"}, OnlyMoves(t),
             pc[t] = "io", req[t].kind \in {"read", "write"},
             res = "ok" <=> ~MoreBlocks(t),
             Finish(t, res), UNCHANGED <<disk, owner, req, pos, buf>>
      PROVE  Goal
    <2>1. pc'[t] = "unlock" /\ result'[t] = res
        BY <1>0, <1>7 DEF Finish, TypeOK
    <2>2. AbstractDisk' = AbstractDisk
        BY <1>7, <2>1, <1>s
    <2>3. /\ AbstractCall[t] = req[t] /\ AbstractCall'[t] = req[t]
          /\ VisibleReply'[t] = <<res, buf[t]>>
        BY <1>7, <2>1, <1>l, CallLooks
    <2>4. /\ AbstractCall' = AbstractCall
          /\ VisibleReply' = [VisibleReply EXCEPT ![t] = <<res, buf[t]>>]
        BY <1>7, <2>3, OthersLookSame DEF AbstractCall
    <2>5. /\ pos[t] \in Nat /\ req[t].n_blocks \in Nat /\ req[t].block_nr \in Nat
          /\ pos[t] <= req[t].n_blocks
        BY <1>0, RequestRange DEF TypeOK, ProgressInv
    <2>6. CASE req[t].kind = "read"
        <3>1. Atomic!Effect(t)
            BY <1>7, <2>6, EffectPending
        <3>2. CASE res = "ok"
            <4>1. buf[t] = Atomic!Contents(req[t])
                BY <1>7, <2>6, <3>2, BufferIsRange
            <4>2. Atomic!Read(t)
                BY <2>2, <2>3, <2>4, <2>6, <3>1, <3>2, <4>1 DEF Atomic!Read
            <4>3. QED
                BY <4>2 DEF Atomic!Next
        <3>3. CASE res = "failed"
            <4>1. buf[t] = SubSeq(Atomic!Contents(req[t]), 1, pos[t])
                BY <1>7, <2>6, BufferIsRange
            <4>2. pos[t] \in 0 .. req[t].n_blocks
                BY <2>5
            <4>3. Atomic!Read(t)
                BY <2>2, <2>3, <2>4, <2>6, <3>1, <3>3, <4>1, <4>2 DEF Atomic!Read
            <4>4. QED
                BY <4>3 DEF Atomic!Next
        <3>4. QED
            BY <3>2, <3>3
    <2>7. CASE req[t].kind = "write"
        <3>0. buf[t] = <<>>
            BY <2>7 DEF AtomicInv, ReplyInv, ReplyOf
        <3>1. CASE res = "ok"
            <4>1. VisibleReply[t] = <<"ok", <<>>>>
                BY <1>7, <2>7, <3>1, CallLooks
            <4>2. QED
                BY <1>7, <2>2, <2>3, <3>0, <3>1, <4>1, Stutters
        <3>2. CASE res = "failed"
            <4>1. Atomic!Effect(t)
                BY <1>7, <3>2, EffectPending
            <4>2. AbstractDisk = Atomic!Filled(req[t], 0, req[t].data)
                <5>1. req[t].block_nr .. (req[t].block_nr + 0 - 1) = {}
                    BY <2>5
                <5>2. AbstractDisk = [b \in 0 .. NBlocks - 1 |-> AbstractDisk[b]]
                    BY <1>v DEF DiskView, Blocks
                <5>3. QED
                    BY <5>1, <5>2 DEF Atomic!Filled
            <4>3. 0 \in 0 .. req[t].n_blocks
                BY <2>5
            <4>4. Atomic!Write(t)
                BY <2>2, <2>3, <2>4, <2>7, <3>0, <3>2, <4>1, <4>2, <4>3 DEF Atomic!Write
            <4>5. QED
                BY <4>4 DEF Atomic!Next
        <3>3. QED
            BY <3>1, <3>2
    <2>8. QED
        BY <1>7, <2>6, <2>7
<1>8. ASSUME NEW t \in Threads, IoDone(t) \/ IoFailed(t), OnlyMoves(t) PROVE Goal
    <2>1. req[t].kind \in {"read", "write"}
        BY <1>0, <1>8, RequestRange DEF IoDone, IoFailed, WholeRangesLocked, TypeOK, Kinds
    <2>2. QED
        BY <1>7, <1>8, <2>1 DEF IoDone, IoFailed
<1>9. ASSUME NEW t \in Threads, CompareBlock(t), OnlyMoves(t) PROVE Goal
    <2>0. /\ pc[t] = "io" /\ req[t].kind = "cmpwrite" /\ MoreBlocks(t)
          /\ UNCHANGED <<disk, req, buf>>
        BY <1>9 DEF CompareBlock
    <2>1. /\ AbstractCall[t] = req[t] /\ Atomic!Effect(t) /\ VisibleReply[t] = <<"none", <<>>>>
          /\ buf[t] = <<>> /\ result[t] = "none"
        BY <2>0, EffectPending DEF AtomicInv, ReplyInv, ReplyOf, Atomic!Pending
    <2>2. CASE UNCHANGED <<pc, result>>
        <3>1. AbstractDisk' = AbstractDisk
            BY <1>9, <2>0, <2>2, <1>s
        <3>2. AbstractCall'[t] = AbstractCall[t] /\ VisibleReply'[t] = VisibleReply[t]
            BY <2>0, <2>1, <2>2, <1>l
        <3>3. QED
            BY <1>9, <3>1, <3>2, Stutters
    <2>3. CASE \E res \in {"mismatch", "read_error"} :
                 /\ Finish(t, res)
                 /\ res = "mismatch" => disk[CurrentBlock(t)] # req[t].compare
        <3>1. PICK res \in {"mismatch", "read_error"} :
                 /\ Finish(t, res)
                 /\ res = "mismatch" => disk[CurrentBlock(t)] # req[t].compare
            BY <2>3
        <3>2. pc'[t] = "unlock" /\ result'[t] = res
            BY <1>0, <3>1 DEF Finish, TypeOK
        <3>3. AbstractDisk' = AbstractDisk
            BY <1>9, <2>0, <3>2, <1>s
        <3>4. AbstractCall'[t] = AbstractCall[t] /\ VisibleReply'[t] = <<res, <<>>>>
            BY <2>0, <2>1, <3>2, <1>l
        <3>5. /\ AbstractCall' = AbstractCall
              /\ VisibleReply' = [VisibleReply EXCEPT ![t] = <<res, <<>>>>]
            BY <1>9, <3>4, OthersLookSame DEF AbstractCall
        <3>6. CASE res = "read_error"
            <4>1. Atomic!CompareAndWrite(t)
                BY <2>0, <2>1, <3>3, <3>5, <3>6 DEF Atomic!CompareAndWrite
            <4>2. QED
                BY <4>1 DEF Atomic!Next
        <3>7. CASE res = "mismatch"
            <4>1. CurrentBlock(t) \in BlocksOf(req[t], req[t].n_blocks)
                <5>1. pos[t] \in Nat /\ req[t].n_blocks \in Nat /\ req[t].block_nr \in Nat
                    BY <1>0, RequestRange DEF TypeOK
                <5>2. QED
                    BY <2>0, <5>1 DEF CurrentBlock, BlocksOf, MoreBlocks
            <4>2. AbstractDisk[CurrentBlock(t)] = disk[CurrentBlock(t)]
                BY <2>0, <4>1, OwnRange DEF InIo
            <4>3. ~Atomic!Matches(req[t])
                BY <3>1, <3>7, <4>1, <4>2 DEF Atomic!Matches, Atomic!Range, BlocksOf
            <4>4. Atomic!CompareAndWrite(t)
                BY <2>0, <2>1, <3>3, <3>5, <3>7, <4>3 DEF Atomic!CompareAndWrite
            <4>5. QED
                BY <4>4 DEF Atomic!Next
        <3>8. QED
            BY <3>1, <3>6, <3>7
    <2>4. QED
        BY <1>9, <2>2, <2>3 DEF CompareBlock
<1>10. ASSUME NEW t \in Threads, CompareDone(t), OnlyMoves(t) PROVE Goal
    <2>1. /\ pc[t] = "io" /\ pc'[t] = "cw_write" /\ req[t].kind = "cmpwrite" /\ pos'[t] = 0
          /\ UNCHANGED <<disk, req, buf, result>>
        BY <1>0, <1>10 DEF CompareDone, TypeOK
    <2>2. \A b \in Blocks : ~Covered(t, b) /\ ~Covered(t, b)'
        <3>1. req[t].block_nr \in Nat
            BY <1>0, RequestRange DEF TypeOK
        <3>2. req[t].block_nr .. (req[t].block_nr + 0 - 1) = {}
            BY <3>1
        <3>3. QED
            BY <2>1, <3>2 DEF Covered, BlocksOf
    <2>3. AbstractDisk' = AbstractDisk
        BY <1>10, <1>v, <1>w, <2>1, <2>2, DiskLooksSame
    <2>4. AbstractCall'[t] = AbstractCall[t] /\ VisibleReply'[t] = VisibleReply[t]
        BY <2>1, <1>l, CallLooks
    <2>5. QED
        BY <1>10, <2>3, <2>4, Stutters
<1>11. ASSUME NEW t \in Threads, CmpWriteBlock(t), OnlyMoves(t) PROVE Goal
    <2>1. pc[t] = "cw_write" /\ UNCHANGED <<pc, req, buf, result>>
        BY <1>11 DEF CmpWriteBlock
    <2>2. AbstractDisk' = AbstractDisk
        BY <1>11, <1>v, <1>w, CmpWriteBlockHidden
    <2>3. AbstractCall'[t] = AbstractCall[t] /\ VisibleReply'[t] = VisibleReply[t]
        BY <2>1, <1>l, CallLooks
    <2>4. QED
        BY <1>11, <2>2, <2>3, Stutters
<1>12. ASSUME NEW t \in Threads, CmpWriteDone(t), OnlyMoves(t) PROVE Goal
    <2> DEFINE res == IF MoreBlocks(t) THEN "write_error" ELSE "ok"
    <2>1. /\ pc[t] = "cw_write" /\ pc'[t] = "unlock" /\ result'[t] = res
          /\ UNCHANGED <<disk, req, pos, buf>>
        BY <1>0, <1>12 DEF CmpWriteDone, Finish, TypeOK
    <2>2. AbstractDisk' = Atomic!Filled(req[t], pos[t], req[t].data)
        BY <1>12, <1>v, <1>w, CmpWriteDoneFills
    <2>3. AbstractCall[t] = req[t] /\ Atomic!Effect(t) /\ buf[t] = <<>>
        BY <2>1, EffectPending DEF AtomicInv, ReplyInv, ReplyOf
    <2>4. AbstractCall'[t] = AbstractCall[t] /\ VisibleReply'[t] = <<res, <<>>>>
        BY <2>1, <2>3, <1>l
    <2>5. /\ AbstractCall' = AbstractCall
          /\ VisibleReply' = [VisibleReply EXCEPT ![t] = <<res, <<>>>>]
        BY <1>12, <2>4, OthersLookSame DEF AbstractCall
    <2>6. /\ pos[t] \in Nat /\ req[t].n_blocks \in Nat /\ pos[t] <= req[t].n_blocks
          /\ req[t].kind = "cmpwrite"
        BY <1>0, <2>1, RequestRange DEF TypeOK, ProgressInv
    <2>7. Atomic!Matches(req[t])
        BY <2>1, OwnRange DEF InIo, Atomic!Matches, Atomic!Range, BlocksOf
    <2>8. CASE MoreBlocks(t)
        <3>1. pos[t] \in 0 .. req[t].n_blocks
            BY <2>6
        <3>2. Atomic!CompareAndWrite(t)
            BY <2>2, <2>3, <2>5, <2>6, <2>7, <2>8, <3>1 DEF Atomic!CompareAndWrite
        <3>3. QED
            BY <3>2 DEF Atomic!Next
    <2>9. CASE ~MoreBlocks(t)
        <3>1. pos[t] = req[t].n_blocks
            BY <2>6, <2>9 DEF MoreBlocks
        <3>2. Atomic!CompareAndWrite(t)
            BY <2>2, <2>3, <2>5, <2>6, <2>7, <2>9, <3>1 DEF Atomic!CompareAndWrite
        <3>3. QED
            BY <3>2 DEF Atomic!Next
    <2>10. QED
        BY <2>8, <2>9
<1>13. ASSUME NEW t \in Threads, Return(t), OnlyMoves(t) PROVE Goal
    <2>1. /\ pc[t] = "unlock" /\ pc'[t] = "idle" /\ disk' = disk
          /\ buf'[t] = <<>> /\ result'[t] = "none" /\ result[t] # "none"
        BY <1>0, <1>13 DEF Return, TypeOK, AtomicInv, ReplyInv, ReplyOf
    <2>2. AbstractDisk' = AbstractDisk
        BY <1>13, <2>1, <1>s
    <2>3. AbstractCall'[t] = Free /\ VisibleReply'[t] = <<"none", <<>>>>
        BY <2>1, <1>l
    <2>4. VisibleReply[t] = <<result[t], buf[t]>>
        BY <2>1, CallLooks
    <2>5. VisibleReply[t] # Atomic!Pending
        BY <2>1, <2>4 DEF Atomic!Pending
    <2>6. /\ AbstractCall' = [AbstractCall EXCEPT ![t] = Free]
          /\ VisibleReply' = [VisibleReply EXCEPT ![t] = Atomic!Pending]
        BY <1>13, <2>3, OthersLookSame DEF Atomic!Pending
    <2>7. Atomic!Return(t)
        BY <2>2, <2>5, <2>6 DEF Atomic!Return
    <2>8. QED
        BY <2>7 DEF Atomic!Next
<1>14. CASE UNCHANGED vars
    <2>1. AbstractDisk' = AbstractDisk
        BY <1>14 DEF vars, AbstractDisk, BlocksOf
    <2>2. AbstractCall' = AbstractCall /\ VisibleReply' = VisibleReply
        BY <1>14 DEF vars, AbstractCall, VisibleReply, AbstractReply, MoreBlocks
    <2>3. QED
        BY <2>1, <2>2 DEF Atomic!vars
<1>15. QED
    <2>1. CASE Next
        <3>1. PICK t \in Threads : Step(t) \/ \E r \in Requests : Call(t, r)
            BY <2>1 DEF Next
        <3>2. OnlyMoves(t)
            BY <1>0, <3>1, OneMoves
        <3>3. QED
            BY <1>1, <1>2, <1>3, <1>4, <1>5, <1>6, <1>8, <1>9, <1>10, <1>11, <1>12, <1>13,
               <3>1, <3>2 DEF Step
    <2>2. QED
        BY <1>14, <2>1

\* With calls that lock the whole of their range, the file backend is an atomic
\* disk: reads, one-block writes and compare-and-writes of any length, by any
\* number of sessions, appear to happen one at a time, failed ones included.
THEOREM FileBackendAtomic ==
    ASSUME WholeRangesLocked PROVE Spec => ImplementsAtomicDisk
<1>1. Spec => []AtomicInv
    BY AtomicInvariant
<1>2. AtomicInv /\ AtomicInv' /\ [Next]_vars => [Atomic!Next]_(Atomic!vars)
    BY AtomicStep
<1>3. QED
    BY <1>1, <1>2, AtomicInit, PTL DEF Spec, ImplementsAtomicDisk, Atomic!Spec
=============================================================================
