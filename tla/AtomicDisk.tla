------------------------------ MODULE AtomicDisk ------------------------------
(***************************************************************************)
(* What callers of a backend rely on: between the call and the return      *)
(* there is one instant at which a read, a one-block write or a            *)
(* compare-and-write of any length takes effect, all of it, on the disk.   *)
(* A write that reports an error may have taken effect up to any block.   *)
(***************************************************************************)
EXTENDS Integers, Sequences

CONSTANTS Threads, NBlocks, Values, Zero, Requests, NoCall

VARIABLES
    disk,   \* block -> contents
    call,   \* thread -> the call it is in, or NoCall
    reply   \* thread -> <<result, blocks read>>, <<"none", <<>>>> until it took effect

vars == <<disk, call, reply>>

Pending == <<"none", <<>>>>

Range(r) == r.block_nr .. (r.block_nr + r.n_blocks - 1)

Contents(r) == [i \in 1 .. r.n_blocks |-> disk[r.block_nr + i - 1]]

\* The disk after the first n blocks of a range have been set to v.
Filled(r, n, v) ==
    [b \in 0 .. NBlocks - 1 |-> IF b \in r.block_nr .. (r.block_nr + n - 1) THEN v ELSE disk[b]]

Matches(r) == \A b \in Range(r) : disk[b] = r.compare

Init ==
    /\ disk = [b \in 0 .. NBlocks - 1 |-> Zero]
    /\ call = [t \in Threads |-> NoCall]
    /\ reply = [t \in Threads |-> Pending]

Invoke(t, r) ==
    /\ call[t] = NoCall
    /\ call' = [call EXCEPT ![t] = r]
    /\ UNCHANGED <<disk, reply>>

Effect(t) == call[t] # NoCall /\ reply[t] = Pending

Read(t) ==
    /\ Effect(t) /\ call[t].kind = "read"
    /\ \/ reply' = [reply EXCEPT ![t] = <<"ok", Contents(call[t])>>]
       \/ \E n \in 0 .. call[t].n_blocks :
              reply' = [reply EXCEPT ![t] = <<"failed", SubSeq(Contents(call[t]), 1, n)>>]
    /\ UNCHANGED <<disk, call>>

Write(t) ==
    /\ Effect(t) /\ call[t].kind = "write"
    /\ \/ /\ reply' = [reply EXCEPT ![t] = <<"ok", <<>>>>]
          /\ disk' = Filled(call[t], call[t].n_blocks, call[t].data)
       \/ /\ reply' = [reply EXCEPT ![t] = <<"failed", <<>>>>]
          /\ \E n \in 0 .. call[t].n_blocks : disk' = Filled(call[t], n, call[t].data)
    /\ UNCHANGED call

CompareAndWrite(t) ==
    /\ Effect(t) /\ call[t].kind = "cmpwrite"
    /\ \/ /\ Matches(call[t])
          /\ reply' = [reply EXCEPT ![t] = <<"ok", <<>>>>]
          /\ disk' = Filled(call[t], call[t].n_blocks, call[t].data)
       \/ /\ Matches(call[t])
          /\ reply' = [reply EXCEPT ![t] = <<"write_error", <<>>>>]
          /\ \E n \in 0 .. call[t].n_blocks : disk' = Filled(call[t], n, call[t].data)
       \/ /\ ~Matches(call[t])
          /\ reply' = [reply EXCEPT ![t] = <<"mismatch", <<>>>>]
          /\ UNCHANGED disk
       \/ /\ reply' = [reply EXCEPT ![t] = <<"read_error", <<>>>>]
          /\ UNCHANGED disk
    /\ UNCHANGED call

\* The contents of a trimmed block are zero, or what they were.
Trim(t) ==
    /\ Effect(t) /\ call[t].kind = "trim"
    /\ reply' \in {[reply EXCEPT ![t] = <<res, <<>>>>] : res \in {"ok", "failed"}}
    /\ \E S \in SUBSET Range(call[t]) :
          disk' = [b \in 0 .. NBlocks - 1 |-> IF b \in S THEN Zero ELSE disk[b]]
    /\ UNCHANGED call

Sync(t) ==
    /\ Effect(t) /\ call[t].kind = "sync"
    /\ reply' \in {[reply EXCEPT ![t] = <<res, <<>>>>] : res \in {"ok", "failed"}}
    /\ UNCHANGED <<disk, call>>

Return(t) ==
    /\ reply[t] # Pending
    /\ call' = [call EXCEPT ![t] = NoCall]
    /\ reply' = [reply EXCEPT ![t] = Pending]
    /\ UNCHANGED disk

Next == \E t \in Threads :
    \/ \E r \in Requests : Invoke(t, r)
    \/ Read(t)
    \/ Write(t)
    \/ CompareAndWrite(t)
    \/ Trim(t)
    \/ Sync(t)
    \/ Return(t)

Spec == Init /\ [][Next]_vars
=============================================================================
