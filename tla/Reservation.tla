----------------------------- MODULE Reservation -----------------------------
(***************************************************************************)
(* RESERVE(6)/RELEASE(6) (scsi.cpp): the reservation is the id of a        *)
(* session thread, guarded by its own mutex.  Reading, writing, trimming   *)
(* and syncing first consult locking_status() and then, with the mutex     *)
(* released again, call the backend; long commands (READ, WRITE SAME,      *)
(* UNMAP without trim) do so once per backend call.  A session that ends   *)
(* (server.cpp) syncs and gives its reservation back.                      *)
(***************************************************************************)
EXTENDS Integers

CONSTANTS
    Sessions,  \* session threads (thread ids)
    None,      \* locked_by without a value
    MaxCalls   \* bound: backend calls in one command

ASSUME NoneAssumption == None \notin Sessions

ASSUME MaxCallsAssumption == MaxCalls \in Nat

VARIABLES
    locked_by,  \* scsi::locked_by
    pc,         \* session -> where its thread is
    calls,      \* session -> backend calls its command still has to make
    granted,    \* session -> its initiator was told it has the reservation
    late        \* history: session -> backend calls it made since the current
                \* reservation by another session was granted

vars == <<locked_by, pc, calls, granted, late>>

\* "check"/"io": before and after locking_status() in scsi::read, write, ...
\* "end_...": the steps after the do loop of the session thread.
Phases == {"none", "ready", "check", "io", "end_check", "end_io", "end_status", "end_unlock"}

LockedOther(s) == locked_by \notin {None, s}

Goto(s, p) == pc' = [pc EXCEPT ![s] = p]

Init ==
    /\ locked_by = None
    /\ pc = [s \in Sessions |-> "none"]
    /\ calls = [s \in Sessions |-> 0]
    /\ granted = [s \in Sessions |-> FALSE]
    /\ late = [s \in Sessions |-> 0]

\* The accept loop starts a thread; a joined thread's id may be used again.
Connect(s) ==
    /\ pc[s] = "none"
    /\ Goto(s, "ready")
    /\ late' = [late EXCEPT ![s] = 0]
    /\ UNCHANGED <<locked_by, calls, granted>>

\* RESERVE(6): GOOD for whoever holds or gets it, a conflict for the others.
Reserve(s) ==
    /\ pc[s] = "ready" /\ ~LockedOther(s)
    /\ locked_by' = s
    /\ granted' = [granted EXCEPT ![s] = TRUE]
    /\ late' = IF locked_by = s THEN late ELSE [t \in Sessions |-> 0]
    /\ UNCHANGED <<pc, calls>>

\* Mutant: the owner is not looked at.
UnlockAnyDevice(s) ==
    /\ locked_by' = None
    /\ granted' = [granted EXCEPT ![s] = FALSE]

\* unlock_device(); whatever it returns, the command is answered with GOOD.
UnlockDevice(s) ==
    /\ locked_by' = IF locked_by = s THEN None ELSE locked_by
    /\ granted' = [granted EXCEPT ![s] = FALSE]

Release(s) ==
    /\ pc[s] = "ready"
    /\ UnlockDevice(s)
    /\ UNCHANGED <<pc, calls, late>>

\* Task management: logical unit reset, target warm reset, target cold reset.
\* The reservation of another session stays.
Reset(s) ==
    /\ pc[s] = "ready"
    /\ UnlockDevice(s)
    /\ UNCHANGED <<pc, calls, late>>

\* A command that takes n backend calls.
StartIo(s, n) ==
    /\ pc[s] = "ready"
    /\ Goto(s, "check")
    /\ calls' = [calls EXCEPT ![s] = n]
    /\ UNCHANGED <<locked_by, granted, late>>

CheckStatus(s) ==
    /\ pc[s] = "check"
    /\ \/ /\ LockedOther(s)
          /\ Goto(s, "ready")
          /\ calls' = [calls EXCEPT ![s] = 0]
       \/ /\ ~LockedOther(s)
          /\ Goto(s, "io")
          /\ UNCHANGED calls
    /\ UNCHANGED <<locked_by, granted, late>>

CountLate(s) == late' = IF LockedOther(s) THEN [late EXCEPT ![s] = @ + 1] ELSE late

\* Mutant: locking_status() once per command instead of once per backend call.
BackendCallUnchecked(s) ==
    /\ pc[s] = "io"
    /\ CountLate(s)
    /\ \/ /\ calls[s] > 1
          /\ Goto(s, "io")
          /\ calls' = [calls EXCEPT ![s] = @ - 1]
       \/ /\ Goto(s, "ready")
          /\ calls' = [calls EXCEPT ![s] = 0]
    /\ UNCHANGED <<locked_by, granted>>

\* The backend call; the command goes on to its next one, or ends because it
\* was the last or failed.
BackendCall(s) ==
    /\ pc[s] = "io"
    /\ CountLate(s)
    /\ \/ /\ calls[s] > 1
          /\ Goto(s, "check")
          /\ calls' = [calls EXCEPT ![s] = @ - 1]
       \/ /\ Goto(s, "ready")
          /\ calls' = [calls EXCEPT ![s] = 0]
    /\ UNCHANGED <<locked_by, granted>>

\* receive_pdu or a send failed, or too many errors in a row: the loop ends.
Disconnect(s) ==
    /\ pc[s] = "ready"
    /\ Goto(s, "end_check")
    /\ UNCHANGED <<locked_by, calls, granted, late>>

\* s->sync(): like any other access, first the reservation, then the backend.
EndCheck(s) ==
    /\ pc[s] = "end_check"
    /\ Goto(s, IF LockedOther(s) THEN "end_status" ELSE "end_io")
    /\ UNCHANGED <<locked_by, calls, granted, late>>

\* Mutant: syncs again and again.
EndSyncAgain(s) ==
    /\ pc[s] = "end_io"
    /\ CountLate(s)
    /\ Goto(s, "end_check")
    /\ UNCHANGED <<locked_by, calls, granted>>

EndSync(s) ==
    /\ pc[s] = "end_io"
    /\ CountLate(s)
    /\ Goto(s, "end_status")
    /\ UNCHANGED <<locked_by, calls, granted>>

\* Mutant: the thread ends without unlock_device().
EndStatusKeeps(s) ==
    /\ pc[s] = "end_status"
    /\ Goto(s, "none")
    /\ UNCHANGED <<locked_by, calls, granted, late>>

EndStatus(s) ==
    /\ pc[s] = "end_status"
    /\ Goto(s, IF locked_by = s THEN "end_unlock" ELSE "none")
    /\ UNCHANGED <<locked_by, calls, granted, late>>

EndUnlock(s) ==
    /\ pc[s] = "end_unlock"
    /\ UnlockDevice(s)
    /\ Goto(s, "none")
    /\ UNCHANGED <<calls, late>>

\* What a thread does without waiting for its initiator.
Run(s) ==
    \/ CheckStatus(s)
    \/ BackendCall(s)
    \/ EndCheck(s)
    \/ EndSync(s)
    \/ EndStatus(s)
    \/ EndUnlock(s)

Ask(s) ==
    \/ Connect(s)
    \/ Reserve(s)
    \/ Release(s)
    \/ Reset(s)
    \/ \E n \in 1 .. MaxCalls : StartIo(s, n)
    \/ Disconnect(s)

Next == \E s \in Sessions : Run(s) \/ Ask(s)

Spec == Init /\ [][Next]_vars

\* Threads that have something to do are scheduled, and the backend returns.
FairSpec == Spec /\ \A s \in Sessions : WF_vars(Run(s))

-----------------------------------------------------------------------------

\* Every variable has its type.
TypeOK ==
    /\ locked_by \in Sessions \cup {None}
    /\ pc \in [Sessions -> Phases]
    /\ calls \in [Sessions -> 0 .. MaxCalls]
    /\ granted \in [Sessions -> BOOLEAN]
    /\ late \in [Sessions -> Nat]

\* The device is never left reserved by a session that is gone: nobody could
\* release it any more, and a new thread with the same id would inherit it.
HolderIsAlive == locked_by # None => pc[locked_by] # "none"

\* The initiators and the target agree on who has the reservation: whoever was
\* told it has it still does, whatever RELEASEs, resets and disconnects of other
\* sessions came in between, and nobody has it without knowing.
GrantedIsHeld ==
    \A s \in Sessions :
        /\ granted[s] => locked_by = s
        /\ locked_by = s => granted[s]

\* A session that was past locking_status() when the device got reserved gets
\* that one backend call through, and no further one, however many calls its
\* command still has to make.
AtMostOneLateCall == \A s \in Sessions : late[s] <= 1

\* The reservation of a session that ends is given back.
ReservationGivenBack ==
    \A s \in Sessions : (locked_by = s /\ pc[s] = "end_check") ~> locked_by # s
=============================================================================
