-------------------------- MODULE ReservationProofs --------------------------
(***************************************************************************)
(* Proofs about reservations, for any number of sessions and any length of *)
(* commands.                                                               *)
(***************************************************************************)
EXTENDS Reservation, TLAPS

\* What makes AtMostOneLateCall inductive: a session that is past its check
\* while another holds the device has not had its late call yet.
LateOnce ==
    \A s \in Sessions :
        /\ late[s] <= 1
        /\ LockedOther(s) /\ pc[s] \in {"io", "end_io"} => late[s] = 0

\* The inductive invariant.
ResInv ==
    /\ TypeOK
    /\ HolderIsAlive
    /\ GrantedIsHeld
    /\ LateOnce

LEMMA ResInvInit == Init => ResInv
<1> SUFFICES ASSUME Init PROVE ResInv
    OBVIOUS
<1>1. TypeOK
    <2>1. 0 \in 0 .. MaxCalls
        BY MaxCallsAssumption
    <2>2. QED
        BY <2>1 DEF Init, TypeOK, Phases
<1>2. HolderIsAlive /\ GrantedIsHeld
    BY NoneAssumption DEF Init, HolderIsAlive, GrantedIsHeld
<1>3. LateOnce
    <2> SUFFICES ASSUME NEW s \in Sessions
                 PROVE  late[s] <= 1 /\ late[s] = 0
        BY DEF LateOnce
    <2>1. late[s] = 0
        BY DEF Init
    <2>2. QED
        BY <2>1
<1>4. QED
    BY <1>1, <1>2, <1>3 DEF ResInv

\* A step of s that moves only s's thread and its command, and does not take it
\* past a check or out of existence.
LEMMA QuietStep ==
    ASSUME ResInv, NEW s \in Sessions, UNCHANGED <<locked_by, granted, late>>,
           NEW p \in Phases, pc' = [pc EXCEPT ![s] = p],
           calls' \in [Sessions -> 0 .. MaxCalls],
           p \notin {"none", "io", "end_io"}
    PROVE  ResInv'
<1> USE DEF ResInv, TypeOK
<1>1. TypeOK'
    OBVIOUS
<1>2. HolderIsAlive'
    BY DEF HolderIsAlive
<1>3. GrantedIsHeld'
    BY DEF GrantedIsHeld
<1>4. LateOnce'
    BY DEF LateOnce, LockedOther
<1>5. QED
    BY <1>1, <1>2, <1>3, <1>4

\* A step of s past locking_status().
LEMMA CheckedStep ==
    ASSUME ResInv, NEW s \in Sessions, ~LockedOther(s),
           UNCHANGED <<locked_by, calls, granted, late>>,
           NEW p \in {"io", "end_io"}, pc' = [pc EXCEPT ![s] = p]
    PROVE  ResInv'
<1> USE DEF ResInv, TypeOK
<1>1. TypeOK'
    BY DEF Phases
<1>2. HolderIsAlive'
    BY DEF HolderIsAlive
<1>3. GrantedIsHeld'
    BY DEF GrantedIsHeld
<1>4. LateOnce'
    BY DEF LateOnce, LockedOther
<1>5. QED
    BY <1>1, <1>2, <1>3, <1>4

\* The backend call itself.
LEMMA AccessStep ==
    ASSUME ResInv, NEW s \in Sessions, pc[s] \in {"io", "end_io"}, CountLate(s),
           UNCHANGED <<locked_by, granted>>,
           NEW p \in {"check", "ready", "end_status"}, pc' = [pc EXCEPT ![s] = p],
           calls' \in [Sessions -> 0 .. MaxCalls]
    PROVE  ResInv'
<1> USE DEF ResInv, TypeOK
<1>1. TypeOK'
    <2>1. late' \in [Sessions -> Nat]
        BY DEF CountLate
    <2>2. pc' \in [Sessions -> Phases]
        BY DEF Phases
    <2>3. QED
        BY <2>1, <2>2
<1>2. HolderIsAlive'
    BY DEF HolderIsAlive
<1>3. GrantedIsHeld'
    BY DEF GrantedIsHeld
<1>4. LateOnce'
    <2>1. CASE LockedOther(s)
        <3>1. late[s] = 0 /\ late' = [late EXCEPT ![s] = late[s] + 1]
            BY <2>1 DEF LateOnce, CountLate
        <3>2. QED
            BY <3>1 DEF LateOnce, LockedOther
    <2>2. CASE ~LockedOther(s)
        BY <2>2 DEF LateOnce, CountLate, LockedOther
    <2>3. QED
        BY <2>1, <2>2
<1>5. QED
    BY <1>1, <1>2, <1>3, <1>4

\* unlock_device() by a live session, or by one on its way out.
LEMMA UnlockStep ==
    ASSUME ResInv, NEW s \in Sessions, UnlockDevice(s),
           UNCHANGED <<calls, late>>,
           NEW p \in {"ready", "none"}, pc' = [pc EXCEPT ![s] = p]
    PROVE  ResInv'
<1> USE DEF ResInv, TypeOK, UnlockDevice
<1>1. TypeOK'
    BY DEF Phases
<1>2. HolderIsAlive'
    BY NoneAssumption DEF HolderIsAlive
<1>3. GrantedIsHeld'
    BY NoneAssumption DEF GrantedIsHeld
<1>4. LateOnce'
    BY DEF LateOnce, LockedOther
<1>5. QED
    BY <1>1, <1>2, <1>3, <1>4

LEMMA ResInvStep == ResInv /\ [Next]_vars => ResInv'
<1> SUFFICES ASSUME ResInv, [Next]_vars PROVE ResInv'
    OBVIOUS
<1>0. TypeOK
    BY DEF ResInv
<1>1. ASSUME NEW s \in Sessions, Connect(s) PROVE ResInv'
    <2>1. /\ locked_by # s /\ locked_by' = locked_by /\ calls' = calls /\ granted' = granted
          /\ late' = [late EXCEPT ![s] = 0]
          /\ pc' = [pc EXCEPT ![s] = "ready"]
        BY <1>1, NoneAssumption DEF Connect, Goto, ResInv, HolderIsAlive
    <2>2. TypeOK'
        BY <1>0, <2>1 DEF TypeOK, Phases
    <2>3. HolderIsAlive' /\ GrantedIsHeld'
        BY <1>0, <2>1 DEF ResInv, TypeOK, HolderIsAlive, GrantedIsHeld
    <2>4. LateOnce'
        BY <1>0, <2>1 DEF ResInv, TypeOK, LateOnce, LockedOther
    <2>5. QED
        BY <2>2, <2>3, <2>4 DEF ResInv
<1>2. ASSUME NEW s \in Sessions, Reserve(s) PROVE ResInv'
    <2>1. TypeOK'
        BY <1>0, <1>2 DEF Reserve, TypeOK
    <2>2. HolderIsAlive'
        BY <1>0, <1>2 DEF Reserve, TypeOK, HolderIsAlive
    <2>3. GrantedIsHeld'
        BY <1>0, <1>2, NoneAssumption DEF Reserve, ResInv, TypeOK, GrantedIsHeld, LockedOther
    <2>4. LateOnce'
        <3>1. CASE locked_by = s
            BY <1>2, <3>1 DEF Reserve, ResInv, LateOnce, LockedOther
        <3>2. CASE locked_by # s
            BY <1>2, <3>2 DEF Reserve, LateOnce
        <3>3. QED
            BY <3>1, <3>2
    <2>5. QED
        BY <2>1, <2>2, <2>3, <2>4 DEF ResInv
<1>3. ASSUME NEW s \in Sessions, Release(s) \/ Reset(s) PROVE ResInv'
    <2>1. pc' = [pc EXCEPT ![s] = "ready"]
        BY <1>0, <1>3 DEF Release, Reset, TypeOK
    <2>2. UnlockDevice(s) /\ UNCHANGED <<calls, late>>
        BY <1>0, <1>3 DEF Release, Reset, TypeOK
    <2>3. QED
        BY <2>1, <2>2, UnlockStep
<1>4. ASSUME NEW s \in Sessions, NEW n \in 1 .. MaxCalls, StartIo(s, n) PROVE ResInv'
    <2>1. calls' \in [Sessions -> 0 .. MaxCalls]
        BY <1>0, <1>4, MaxCallsAssumption DEF StartIo, TypeOK
    <2>2. QED
        BY <1>4, <2>1, QuietStep DEF StartIo, Goto, Phases
<1>5. ASSUME NEW s \in Sessions, CheckStatus(s) PROVE ResInv'
    <2>1. CASE LockedOther(s)
        <3>1. calls' \in [Sessions -> 0 .. MaxCalls]
            BY <1>0, <1>5, <2>1, MaxCallsAssumption DEF CheckStatus, TypeOK
        <3>2. QED
            BY <1>5, <2>1, <3>1, QuietStep DEF CheckStatus, Goto, Phases
    <2>2. CASE ~LockedOther(s)
        BY <1>5, <2>2, CheckedStep DEF CheckStatus, Goto
    <2>3. QED
        BY <2>1, <2>2
<1>6. ASSUME NEW s \in Sessions, BackendCall(s) PROVE ResInv'
    <2>1. calls' \in [Sessions -> 0 .. MaxCalls]
        <3>1. CASE calls[s] > 1 /\ calls' = [calls EXCEPT ![s] = calls[s] - 1]
            BY <1>0, <3>1, MaxCallsAssumption DEF TypeOK
        <3>2. CASE calls' = [calls EXCEPT ![s] = 0]
            BY <1>0, <3>2, MaxCallsAssumption DEF TypeOK
        <3>3. QED
            BY <1>6, <3>1, <3>2 DEF BackendCall
    <2>2. QED
        BY <1>6, <2>1, AccessStep DEF BackendCall, Goto
<1>7. ASSUME NEW s \in Sessions, Disconnect(s) PROVE ResInv'
    BY <1>0, <1>7, QuietStep DEF Disconnect, Goto, Phases, TypeOK
<1>8. ASSUME NEW s \in Sessions, EndCheck(s) PROVE ResInv'
    <2>1. CASE LockedOther(s)
        BY <1>0, <1>8, <2>1, QuietStep DEF EndCheck, Goto, Phases, TypeOK
    <2>2. CASE ~LockedOther(s)
        BY <1>8, <2>2, CheckedStep DEF EndCheck, Goto
    <2>3. QED
        BY <2>1, <2>2
<1>9. ASSUME NEW s \in Sessions, EndSync(s) PROVE ResInv'
    BY <1>0, <1>9, AccessStep DEF EndSync, Goto, TypeOK
<1>10. ASSUME NEW s \in Sessions, EndStatus(s) PROVE ResInv'
    <2>1. CASE locked_by = s
        BY <1>0, <1>10, <2>1, QuietStep DEF EndStatus, Goto, Phases, TypeOK
    <2>2. CASE locked_by # s
        <3>1. UnlockDevice(s)
            BY <1>0, <1>10, <2>2 DEF EndStatus, UnlockDevice, ResInv, GrantedIsHeld, TypeOK
        <3>2. QED
            BY <1>0, <1>10, <2>2, <3>1, UnlockStep DEF EndStatus, Goto, TypeOK
    <2>3. QED
        BY <2>1, <2>2
<1>11. ASSUME NEW s \in Sessions, EndUnlock(s) PROVE ResInv'
    BY <1>0, <1>11, UnlockStep DEF EndUnlock, Goto, TypeOK
<1>12. CASE UNCHANGED vars
    BY <1>12 DEF vars, ResInv, TypeOK, HolderIsAlive, GrantedIsHeld, LateOnce, LockedOther
<1>13. QED
    BY <1>1, <1>2, <1>3, <1>4, <1>5, <1>6, <1>7, <1>8, <1>9, <1>10, <1>11, <1>12
        DEF Next, Run, Ask

\* The inductive invariant holds throughout.
THEOREM ResInvariant == Spec => []ResInv
BY ResInvInit, ResInvStep, PTL DEF Spec

\* Every variable of the reservation protocol keeps its type; in particular a
\* command never has less than no or more than MaxCalls backend calls to go.
THEOREM ReservationTyped == Spec => []TypeOK
<1>1. ResInv => TypeOK
    BY DEF ResInv
<1>2. QED
    BY <1>1, ResInvariant, PTL

\* The device is never reserved by a session that has ended.
THEOREM HolderAlive == Spec => []HolderIsAlive
<1>1. ResInv => HolderIsAlive
    BY DEF ResInv
<1>2. QED
    BY <1>1, ResInvariant, PTL

\* Who was told that it has the reservation has it, and nobody else.
THEOREM GrantsAreHeld == Spec => []GrantedIsHeld
<1>1. ResInv => GrantedIsHeld
    BY DEF ResInv
<1>2. QED
    BY <1>1, ResInvariant, PTL

\* The window between locking_status() and the backend lets at most one call
\* of each other session slip into a reservation.
THEOREM LateCallsBounded == Spec => []AtMostOneLateCall
<1>1. ResInv => AtMostOneLateCall
    BY DEF ResInv, LateOnce, AtMostOneLateCall
<1>2. QED
    BY <1>1, ResInvariant, PTL
=============================================================================
