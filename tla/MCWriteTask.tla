----------------------------- MODULE MCWriteTask -----------------------------
(* Instances of the write path for TLC: two blocks of two units. *)
EXTENDS WriteTask, TLC

Write(lba, tl, imm) ==
    [op |-> "write", lba |-> lba, tl |-> tl, edl |-> tl * BlockSize, imm |-> imm,
     fua |-> FALSE, unmap |-> FALSE]

Same(lba, tl, imm) == [Write(lba, tl, imm) EXCEPT !.op = "write_same", !.edl = BlockSize]

Fua(c) == [c EXCEPT !.fua = TRUE]

Unmap(c) == [c EXCEPT !.unmap = TRUE]

\* The tags are interchangeable.
TagSymmetry == Permutations(Tags)

\* Immediate data: none, half a block, a block, one and a half, everything.
Writes == {Write(0, 2, imm) : imm \in 0 .. 4} \cup {Write(1, 1, 0), Write(0, 1, 0), Write(0, 1, 2)}

\* A length that the CDB does not agree with: too long (with no and with half a
\* block of immediate data), and too short.
Mismatches ==
    {[Write(0, 1, imm) EXCEPT !.edl = 3] : imm \in {0, 1}} \cup {[Write(0, 2, 2) EXCEPT !.edl = 2]}

\* Refused, empty or with such a length.
OddWrites == {Write(1, 2, 0), Write(0, 0, 0)} \cup Mismatches

Sames == {Same(0, 2, 2), Same(1, 0, 2), Same(0, 0, 2), Same(0, 2, 0), Same(1, 2, 2), Unmap(Same(0, 1, 2))}

OkCommands == Writes \cup OddWrites \cup {Fua(Write(0, 1, 2))}

\* Immediate data that is longer than the CDB says, by a part of a block and by more.
LongWrites == {[Write(0, 1, imm) EXCEPT !.edl = 4] : imm \in {3, 4}}

\* Of the writes, those with immediate data that ends in the first or the second block.
FaultCommands ==
    (Writes \ {Write(0, 2, 2), Write(0, 2, 4), Write(0, 1, 2)}) \cup OddWrites \cup LongWrites \cup Sames
    \cup {Fua(Write(0, 2, 0)), Fua(Write(1, 1, 2)), Same(0, 1, 1), Same(0, 1, 0)}
=============================================================================
