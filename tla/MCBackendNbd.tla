---------------------------- MODULE MCBackendNbd ----------------------------
(* Instances of the NBD backend for TLC. *)
EXTENDS BackendNbd

Req(k, b, n, d, c) == [kind |-> k, block_nr |-> b, n_blocks |-> n, data |-> d, compare |-> c]

\* Every call on every range, the empty one included.
AllRequests ==
    {r \in {Req(k, b, n, d, c) : k \in {"read", "write", "trim", "cmpwrite", "sync"},
                                 b \in Blocks, n \in 0 .. 2, d \in Values, c \in Values} :
        /\ r.block_nr + r.n_blocks <= NBlocks
        /\ r.kind # "cmpwrite" => r.compare = Zero
        /\ r.kind \in {"read", "trim", "sync"} => r.data = Zero
        /\ r.kind = "sync" => r.block_nr = 0 /\ r.n_blocks = 0
        /\ r.kind = "cmpwrite" => r.compare # r.data}

\* Two sessions, each with a block of its own.
SharedRequests ==
    {Req("write", b, 1, d, Zero) : b \in Blocks, d \in Values} \cup {Req("read", b, 1, Zero, Zero) : b \in Blocks}
=============================================================================
