-------------------------- MODULE BackendFileAtomic --------------------------
(***************************************************************************)
(* The file backend implements the atomic disk for the calls whose whole   *)
(* range is under lock: read(), cmpwrite() and write() of at most a block. *)
(***************************************************************************)
EXTENDS BackendFile

\* Free also stands for "in no call".
ASSUME FreeIsNoRequest == Free \notin Requests

\* cmpwrite() takes effect when its pwrite has returned.  Until then the
\* blocks it already overwrote count as what they were: what it compared with.
AbstractDisk ==
    [b \in Blocks |->
        IF \E t \in Threads : pc[t] = "cw_write" /\ b \in BlocksOf(req[t], pos[t])
        THEN req[CHOOSE t \in Threads :
                   pc[t] = "cw_write" /\ b \in BlocksOf(req[t], pos[t])].compare
        ELSE disk[b]]

AbstractCall == [t \in Threads |-> IF pc[t] = "idle" THEN Free ELSE req[t]]

\* A write() takes effect with its (only) block, the others when the call
\* has its result.
AbstractReply ==
    [t \in Threads |->
        IF pc[t] = "io" /\ req[t].kind = "write" /\ ~MoreBlocks(t)
        THEN <<"ok", <<>>>>
        ELSE <<result[t], buf[t]>>]

\* While reading, the buffer is private to the call.
VisibleReply ==
    [t \in Threads |->
        IF pc[t] = "io" /\ req[t].kind = "read" THEN <<"none", <<>>>> ELSE AbstractReply[t]]

Atomic == INSTANCE AtomicDisk
    WITH disk <- AbstractDisk, call <- AbstractCall, reply <- VisibleReply, NoCall <- Free

\* Every behaviour of the file backend is one of the atomic disk: concurrent
\* reads, one-block writes and compare-and-writes appear to happen one at a time.
ImplementsAtomicDisk == Atomic!Spec
=============================================================================
