---------------------------- MODULE MCBackendFile ----------------------------
(* Instances of the file backend for TLC. *)
EXTENDS BackendFileAtomic

Req(k, b, n, d, c) == [kind |-> k, block_nr |-> b, n_blocks |-> n, data |-> d, compare |-> c]

\* Locking only: overlapping ranges whose mutexes are not in block order, a
\* call that locks less than it touches, one that locks nothing.  The block
\* contents never differ.
LockRequests ==
    {Req("read", 0, 2, Zero, Zero), Req("read", 1, 2, Zero, Zero), Req("cmpwrite", 0, 3, Zero, Zero),
     Req("write", 1, 2, Zero, Zero), Req("trim", 0, 1, Zero, Zero)}

\* Calls that lock everything they touch: every range up to two blocks,
\* contents that differ.
LockedRequests ==
    {r \in {Req(k, b, n, d, c) : k \in Kinds, b \in 0 .. NBlocks - 1, n \in 1 .. 2,
                                 d \in Values, c \in Values} :
        /\ r.kind # "trim" /\ (r.kind = "write" => r.n_blocks = 1)
        /\ r.block_nr + r.n_blocks <= NBlocks
        /\ r.kind # "cmpwrite" => r.compare = Zero
        /\ r.kind = "read" => r.data = Zero
        /\ r.kind = "cmpwrite" => r.compare # r.data}
=============================================================================
