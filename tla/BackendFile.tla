----------------------------- MODULE BackendFile -----------------------------
(***************************************************************************)
(* The file backend (backend-file.cpp) with its range locks (backend.cpp), *)
(* as built on Linux/BSD.  Every session thread calls the one backend      *)
(* object; a call locks the mutexes of its block range one by one, does    *)
(* its pread/pwrite/fallocate, unlocks one by one and returns.  The system *)
(* calls touch a block at a time, so whatever is not excluded by a mutex   *)
(* can be seen, and can interfere, between two blocks.                     *)
(***************************************************************************)
EXTENDS Integers, Sequences

CONSTANTS
    Threads,          \* session threads
    NBlocks,          \* get_size_in_blocks()
    N_BACKEND_LOCKS,  \* mutexes in backend::locks
    LOCK_SPREADER,
    Values,           \* contents of a block
    Zero,             \* an unmapped (all zero) block
    Requests,         \* calls the layer above makes
    Free              \* owner of an unlocked mutex

Kinds == {"read", "write", "trim", "cmpwrite"}

Locks == 0 .. N_BACKEND_LOCKS - 1

Blocks == 0 .. NBlocks - 1

RequestRecords ==
    [kind : Kinds, block_nr : Nat, n_blocks : Nat, data : Values, compare : Values]

ASSUME GeometryAssumption ==
    /\ NBlocks \in Nat
    /\ N_BACKEND_LOCKS \in Nat \ {0}
    /\ LOCK_SPREADER \in Nat

ASSUME ValuesAssumption == Zero \in Values /\ Free \notin Threads

\* scsi::validate_request refuses ranges that leave the device.
ASSUME RequestsAssumption ==
    /\ Requests \subseteq RequestRecords /\ Requests # {}
    /\ \A r \in Requests : r.block_nr + r.n_blocks <= NBlocks

VARIABLES
    disk,    \* block -> contents
    owner,   \* mutex -> thread that holds it, or Free
    pc,      \* thread -> where its call is
    req,     \* thread -> arguments of its call
    pos,     \* thread -> blocks the current system call has dealt with
    buf,     \* thread -> blocks read so far
    result   \* thread -> return value of its call

vars == <<disk, owner, pc, req, pos, buf, result>>

\* What stands in req between two calls; never looked at.
NoCall == CHOOSE r \in Requests : TRUE

Results == {"none", "ok", "mismatch", "read_error", "write_error", "failed"}

Phases == {"idle", "lock", "io", "cw_write", "unlock"}

-----------------------------------------------------------------------------

\* The mutexes of a block range: a std::set, so they are visited in order.
LockIndexes(block_nr, block_n) ==
    {(i * LOCK_SPREADER) % N_BACKEND_LOCKS : i \in block_nr .. (block_nr + block_n - 1)}

\* Mutant: cmpwrite() locks its first block only, as write() does.
LockedBlocksFirst(r) ==
    CASE r.kind \in {"write", "cmpwrite"} -> 1
      [] r.kind = "trim"  -> 0
      [] OTHER            -> r.n_blocks

\* Mutant: so does read().
LockedBlocksReadFirst(r) ==
    CASE r.kind \in {"write", "read"} -> 1
      [] r.kind = "trim"  -> 0
      [] OTHER            -> r.n_blocks

\* How many blocks a call locks: write() only its first, trim() none.
LockedBlocks(r) ==
    CASE r.kind = "write" -> 1
      [] r.kind = "trim"  -> 0
      [] OTHER            -> r.n_blocks

LockSet(r) == LockIndexes(r.block_nr, LockedBlocks(r))

Held(t) == {l \in Locks : owner[l] = t}

\* The mutex t's lock_range() is about to lock, or is blocked on.
Wants(t, l) ==
    /\ pc[t] = "lock"
    /\ l \in LockSet(req[t]) \ Held(t)
    /\ \A m \in LockSet(req[t]) \ Held(t) : l <= m

CurrentBlock(t) == req[t].block_nr + pos[t]

MoreBlocks(t) == pos[t] < req[t].n_blocks

-----------------------------------------------------------------------------

Init ==
    /\ disk = [b \in Blocks |-> Zero]
    /\ owner = [l \in Locks |-> Free]
    /\ pc = [t \in Threads |-> "idle"]
    /\ req = [t \in Threads |-> NoCall]
    /\ pos = [t \in Threads |-> 0]
    /\ buf = [t \in Threads |-> <<>>]
    /\ result = [t \in Threads |-> "none"]

Call(t, r) ==
    /\ pc[t] = "idle"
    /\ pc' = [pc EXCEPT ![t] = "lock"]
    /\ req' = [req EXCEPT ![t] = r]
    /\ UNCHANGED <<disk, owner, pos, buf, result>>

\* Mutant: the indexes in block order, or any other, instead of a std::set.
LockUnordered(t, l) ==
    /\ pc[t] = "lock"
    /\ l \in LockSet(req[t]) \ Held(t)
    /\ owner[l] = Free
    /\ owner' = [owner EXCEPT ![l] = t]
    /\ UNCHANGED <<disk, pc, req, pos, buf, result>>

\* for(auto nr: indexes) locks[nr].lock()
Lock(t, l) ==
    /\ Wants(t, l)
    /\ owner[l] = Free
    /\ owner' = [owner EXCEPT ![l] = t]
    /\ UNCHANGED <<disk, pc, req, pos, buf, result>>

\* Mutant: the system call is not preceded by lock_range().
LockRangeSkipped(t) ==
    /\ pc[t] = "lock"
    /\ pc' = [pc EXCEPT ![t] = "io"]
    /\ UNCHANGED <<disk, owner, req, pos, buf, result>>

LockRangeDone(t) ==
    /\ pc[t] = "lock"
    /\ LockSet(req[t]) \subseteq Held(t)
    /\ pc' = [pc EXCEPT ![t] = "io"]
    /\ UNCHANGED <<disk, owner, req, pos, buf, result>>

Finish(t, res) ==
    /\ pc' = [pc EXCEPT ![t] = "unlock"]
    /\ result' = [result EXCEPT ![t] = res]

\* One block of read()'s pread.
ReadBlock(t) ==
    /\ pc[t] = "io" /\ req[t].kind = "read" /\ MoreBlocks(t)
    /\ buf' = [buf EXCEPT ![t] = Append(@, disk[CurrentBlock(t)])]
    /\ pos' = [pos EXCEPT ![t] = @ + 1]
    /\ UNCHANGED <<disk, owner, pc, req, result>>

\* One block of write()'s pwrite.
WriteBlock(t) ==
    /\ pc[t] = "io" /\ req[t].kind = "write" /\ MoreBlocks(t)
    /\ disk' = [disk EXCEPT ![CurrentBlock(t)] = req[t].data]
    /\ pos' = [pos EXCEPT ![t] = @ + 1]
    /\ UNCHANGED <<owner, pc, req, buf, result>>

\* One block of trim()'s fallocate.
TrimBlock(t) ==
    /\ pc[t] = "io" /\ req[t].kind = "trim" /\ MoreBlocks(t)
    /\ disk' = [disk EXCEPT ![CurrentBlock(t)] = Zero]
    /\ pos' = [pos EXCEPT ![t] = @ + 1]
    /\ UNCHANGED <<owner, pc, req, buf, result>>

\* Mutant: the system call is tried again, with the mutexes still locked.
IoDoneRetries(t) ==
    /\ pc[t] = "io" /\ req[t].kind # "cmpwrite" /\ ~MoreBlocks(t)
    /\ pos' = [pos EXCEPT ![t] = 0]
    /\ buf' = [buf EXCEPT ![t] = <<>>]
    /\ UNCHANGED <<disk, owner, pc, req, result>>

\* The system call has returned the number of bytes asked for.
IoDone(t) ==
    /\ pc[t] = "io" /\ req[t].kind # "cmpwrite" /\ ~MoreBlocks(t)
    /\ Finish(t, "ok")
    /\ UNCHANGED <<disk, owner, req, pos, buf>>

\* It has failed, or came back short: what is done so far stays done.
IoFailed(t) ==
    /\ pc[t] = "io" /\ req[t].kind # "cmpwrite" /\ MoreBlocks(t)
    /\ Finish(t, "failed")
    /\ UNCHANGED <<disk, owner, req, pos, buf>>

\* One round of cmpwrite()'s loop: read a block and compare it.
CompareBlock(t) ==
    /\ pc[t] = "io" /\ req[t].kind = "cmpwrite" /\ MoreBlocks(t)
    /\ \/ /\ disk[CurrentBlock(t)] = req[t].compare
          /\ pos' = [pos EXCEPT ![t] = @ + 1]
          /\ UNCHANGED <<pc, result>>
       \/ /\ disk[CurrentBlock(t)] # req[t].compare
          /\ Finish(t, "mismatch")
          /\ UNCHANGED pos
       \/ /\ Finish(t, "read_error")
          /\ UNCHANGED pos
    /\ UNCHANGED <<disk, owner, req, buf>>

\* All blocks match (result == CWR_OK): on to the pwrite.
CompareDone(t) ==
    /\ pc[t] = "io" /\ req[t].kind = "cmpwrite" /\ ~MoreBlocks(t)
    /\ pc' = [pc EXCEPT ![t] = "cw_write"]
    /\ pos' = [pos EXCEPT ![t] = 0]
    /\ UNCHANGED <<disk, owner, req, buf, result>>

\* One block of cmpwrite()'s pwrite.
CmpWriteBlock(t) ==
    /\ pc[t] = "cw_write" /\ MoreBlocks(t)
    /\ disk' = [disk EXCEPT ![CurrentBlock(t)] = req[t].data]
    /\ pos' = [pos EXCEPT ![t] = @ + 1]
    /\ UNCHANGED <<owner, pc, req, buf, result>>

CmpWriteDone(t) ==
    /\ pc[t] = "cw_write"
    /\ Finish(t, IF MoreBlocks(t) THEN "write_error" ELSE "ok")
    /\ UNCHANGED <<disk, owner, req, pos, buf>>

\* for(auto nr: locked_locks) locks[nr].unlock()
Unlock(t, l) ==
    /\ pc[t] = "unlock"
    /\ l \in Held(t) /\ \A m \in Held(t) : l <= m
    /\ owner' = [owner EXCEPT ![l] = Free]
    /\ UNCHANGED <<disk, pc, req, pos, buf, result>>

\* Mutant: a return that leaves out unlock_range().
ReturnLocked(t) ==
    /\ pc[t] = "unlock"
    /\ pc' = [pc EXCEPT ![t] = "idle"]
    /\ req' = [req EXCEPT ![t] = NoCall]
    /\ pos' = [pos EXCEPT ![t] = 0]
    /\ buf' = [buf EXCEPT ![t] = <<>>]
    /\ result' = [result EXCEPT ![t] = "none"]
    /\ UNCHANGED <<disk, owner>>

Return(t) ==
    /\ pc[t] = "unlock"
    /\ Held(t) = {}
    /\ pc' = [pc EXCEPT ![t] = "idle"]
    /\ req' = [req EXCEPT ![t] = NoCall]
    /\ pos' = [pos EXCEPT ![t] = 0]
    /\ buf' = [buf EXCEPT ![t] = <<>>]
    /\ result' = [result EXCEPT ![t] = "none"]
    /\ UNCHANGED <<disk, owner>>

\* Everything a thread does once it is inside a call.
Step(t) ==
    \/ \E l \in Locks : Lock(t, l) \/ Unlock(t, l)
    \/ LockRangeDone(t)
    \/ ReadBlock(t)
    \/ WriteBlock(t)
    \/ TrimBlock(t)
    \/ IoDone(t)
    \/ IoFailed(t)
    \/ CompareBlock(t)
    \/ CompareDone(t)
    \/ CmpWriteBlock(t)
    \/ CmpWriteDone(t)
    \/ Return(t)

Next == \E t \in Threads : Step(t) \/ \E r \in Requests : Call(t, r)

Spec == Init /\ [][Next]_vars

\* A thread inside a call is scheduled; nothing makes it call again, and the
\* mutexes make no promise about who gets them next.
FairSpec == Spec /\ \A t \in Threads : WF_vars(Step(t))
-----------------------------------------------------------------------------

\* Every variable has its type.
TypeOK ==
    /\ disk \in [Blocks -> Values]
    /\ owner \in [Locks -> Threads \cup {Free}]
    /\ pc \in [Threads -> Phases]
    /\ req \in [Threads -> Requests]
    /\ pos \in [Threads -> Nat]
    /\ buf \in [Threads -> Seq(Values)]
    /\ result \in [Threads -> Results]

\* A mutex is held only by a thread that is inside a call whose range maps to
\* it, so a call that returned left nothing locked (lock_range/unlock_range).
LocksBelongToCalls ==
    \A l \in Locks : \A t \in Threads :
        owner[l] = t => pc[t] # "idle" /\ l \in LockSet(req[t])

\* While lock_range() is collecting, what it has is below what it still needs.
LockedAscending ==
    \A t \in Threads : pc[t] = "lock" =>
        \A l \in Held(t) : \A m \in LockSet(req[t]) \ Held(t) : l < m

\* During the system calls the whole lock set is held.
LockedDuringIo ==
    \A t \in Threads : pc[t] \in {"io", "cw_write"} => LockSet(req[t]) \subseteq Held(t)

\* Along every "waits for a mutex of" edge the wanted mutex grows, whatever the
\* ranges, the number of threads and the spreading of blocks over mutexes, so
\* no set of calls can wait for each other in a circle.
NoCircularWait ==
    \A t, u \in Threads : \A l, m \in Locks :
        (Wants(t, l) /\ owner[l] = u /\ Wants(u, m)) => l < m

BlocksOf(r, n) == r.block_nr .. (r.block_nr + n - 1)

InIo(t) == pc[t] \in {"io", "cw_write"}

\* Two calls are never both in their system calls when the ranges they lock
\* share a block.
RangesExclusive ==
    \A t, u \in Threads :
        (t # u /\ InIo(t) /\ InIo(u)) =>
            BlocksOf(req[t], LockedBlocks(req[t]))
                \cap BlocksOf(req[u], LockedBlocks(req[u])) = {}

\* The blocks cmpwrite() has compared and will write, but has not written yet.
Compared(t) ==
    LET r == req[t] IN
    CASE pc[t] = "io" /\ r.kind = "cmpwrite" -> BlocksOf(r, pos[t])
      [] pc[t] = "cw_write" -> BlocksOf(r, r.n_blocks) \ BlocksOf(r, pos[t])
      [] OTHER -> {}

\* u is in a part of its range that it did not lock: any block of a trim(),
\* any block after the first of a write().
InUnlockedPart(u) ==
    pc[u] = "io" /\ pos[u] >= LockedBlocks(req[u])

\* Between cmpwrite()'s comparison of a block and its overwriting of it, the
\* block changes only by a trim() or by a later block of a multi-block
\* write(); in particular never by another cmpwrite() or by a one-block write().
CmpWriteUndisturbed ==
    [][\A t \in Threads : \A b \in Compared(t) \cap Compared(t)' :
          disk'[b] # disk[b] => \E u \in Threads \ {t} : InUnlockedPart(u)]_vars

\* Whenever a call is under way some call gets through its unlock_range():
\* the range locks never bring all sessions to a halt.
SomeCallReturns ==
    \A t \in Threads :
        pc[t] # "idle" ~> \E u \in Threads : pc[u] = "unlock" /\ Held(u) = {}
=============================================================================
