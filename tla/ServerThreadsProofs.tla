------------------------ MODULE ServerThreadsProofs ------------------------
(* What holds of the threads of the program for any number of connections. *)
EXTENDS ServerThreads, TLAPS

-----------------------------------------------------------------------------
(* The list of threads as a sequence. *)

LEMMA InToSet ==
    ASSUME NEW S, NEW s \in Seq(S), NEW c
    PROVE  c \in ToSet(s) <=> \E i \in 1 .. Len(s) : s[i] = c
BY DEF ToSet

LEMMA OneMore ==
    ASSUME NEW n \in Nat, NEW m \in Nat, m <= 1
    PROVE  /\ \A i \in 1 .. n + m : i \in 1 .. n \/ (i = n + 1 /\ m = 1)
           /\ \A j \in 1 .. m : j = 1 /\ m = 1
OBVIOUS

LEMMA ConcatElements ==
    ASSUME NEW S, NEW s \in Seq(S), NEW t \in Seq(S)
    PROVE  /\ s \o t \in Seq(S) /\ Len(s \o t) = Len(s) + Len(t)
           /\ \A j \in 1 .. Len(s) : (s \o t)[j] = s[j]
           /\ \A j \in 1 .. Len(t) : (s \o t)[Len(s) + j] = t[j]
OBVIOUS

LEMMA RemoveAtElements ==
    ASSUME NEW S, NEW s \in Seq(S), NEW i \in 1 .. Len(s)
    PROVE  /\ RemoveAt(s, i) \in Seq(S) /\ Len(RemoveAt(s, i)) = Len(s) - 1
           /\ \A j \in 1 .. Len(s) - 1 : RemoveAt(s, i)[j] = IF j < i THEN s[j] ELSE s[j + 1]
<1>1. PICK a \in Seq(S), b \in Seq(S) :
          /\ RemoveAt(s, i) = a \o b
          /\ Len(a) = i - 1 /\ \A j \in 1 .. i - 1 : a[j] = s[j]
          /\ Len(b) = Len(s) - i /\ \A j \in 1 .. Len(s) - i : b[j] = s[j + i]
    <2> DEFINE x == SubSeq(s, 1, i - 1)
               y == SubSeq(s, i + 1, Len(s))
    <2>1. x \in Seq(S) /\ Len(x) = i - 1 /\ \A j \in 1 .. i - 1 : x[j] = s[j]
        OBVIOUS
    <2>2. y \in Seq(S) /\ Len(y) = Len(s) - i /\ \A j \in 1 .. Len(s) - i : y[j] = s[j + i]
        OBVIOUS
    <2>3. RemoveAt(s, i) = x \o y
        BY DEF RemoveAt
    <2> HIDE DEF x, y
    <2>4. QED
        BY <2>1, <2>2, <2>3
<1>2. /\ a \o b \in Seq(S) /\ Len(a \o b) = Len(a) + Len(b)
      /\ \A j \in 1 .. Len(a) : (a \o b)[j] = a[j]
      /\ \A j \in 1 .. Len(b) : (a \o b)[Len(a) + j] = b[j]
    <2>1. a \in Seq(S) /\ b \in Seq(S)
        OBVIOUS
    <2>2. QED
        BY ONLY <2>1, ConcatElements
<1>3. Len(a) \in Nat /\ Len(b) \in Nat /\ Len(s) \in Nat
    OBVIOUS
<1>4. ASSUME NEW j \in 1 .. Len(s) - 1, j < i PROVE (a \o b)[j] = s[j]
    BY <1>1, <1>2, <1>3, <1>4
<1>5. ASSUME NEW j \in 1 .. Len(s) - 1, ~(j < i) PROVE (a \o b)[j] = s[j + 1]
    <2>1. PICK k \in 1 .. Len(b) : j = Len(a) + k /\ k + i = j + 1
        <3>1. j - Len(a) \in 1 .. Len(b) /\ j = Len(a) + (j - Len(a)) /\ (j - Len(a)) + i = j + 1
            BY <1>1, <1>3, <1>5
        <3>2. QED
            BY <3>1
    <2>2. (a \o b)[j] = b[k] /\ b[k] = s[k + i]
        BY <1>1, <1>2, <2>1
    <2>3. QED
        BY <2>1, <2>2
<1>6. QED
    BY <1>1, <1>2, <1>3, <1>4, <1>5

LEMMA TailElements ==
    ASSUME NEW S, NEW s \in Seq(S), s # <<>>
    PROVE  /\ Head(s) = s[1] /\ Tail(s) \in Seq(S)
           /\ Len(s) > 0 /\ Len(Tail(s)) = Len(s) - 1
           /\ \A j \in 1 .. Len(s) - 1 : Tail(s)[j] = s[j + 1]
OBVIOUS

-----------------------------------------------------------------------------

\* Threads have ended when main() is past the join of them.
JoinedInOrder ==
    /\ main \notin {"reap", "spawn", "push"} => current = <<>>
    /\ main = "join" => scan = 1
    /\ main \in {"snmp", "join_snmp", "join_maint", "delete", "exited"} => threads = <<>>
    /\ main \in {"join_maint", "delete", "exited"} => snmp \in {"none", "joined"}
    /\ main \in {"delete", "exited"} => maint = "joined"
    /\ backend = "deleted" => main = "exited"

\* A connection is in the list once, and its thread is not joined while it is.
ListedOnce ==
    /\ Len(current) <= 1
    /\ \A i, j \in 1 .. Len(threads) : threads[i] = threads[j] => i = j
    /\ \A i \in 1 .. Len(threads) : \A j \in 1 .. Len(current) : threads[i] # current[j]
    /\ \A i \in 1 .. Len(threads) : conn[threads[i]] \in {"open", "closed"} /\ ses[threads[i]] # "joined"
    /\ \A j \in 1 .. Len(current) : /\ conn[current[j]] \in {"open", "closed"}
                                    /\ main = "push" => ses[current[j]] # "joined"

\* NoThreadForgotten by index.
Listed ==
    \A c \in Sessions : ses[c] \in Alive \cup {"done"} =>
        \/ \E i \in 1 .. Len(threads) : threads[i] = c
        \/ \E j \in 1 .. Len(current) : current[j] = c

\* What the loop that joins finished threads has passed was not finished when it began.
Scanned ==
    /\ main = "reap" => /\ \A d \in due : ses[d] \in {"done", "joined"}
                        /\ \A i \in 1 .. scan - 1 : threads[i] \notin due
    /\ main = "spawn" => \A i \in 1 .. Len(threads) : threads[i] \notin due

StopInv ==
    /\ StopForgotten
    /\ main \in {"begin", "begin_snmp"} => signal # "late"

\* The inductive invariant.
ThreadsInv == TypeOK /\ JoinedInOrder /\ ListedOnce /\ Listed /\ Scanned /\ StopInv

LEMMA ThreadsInvInit == Init => ThreadsInv
<1> SUFFICES ASSUME Init PROVE ThreadsInv
    OBVIOUS
<1>1. TypeOK
    <2>1. threads \in Seq(Sessions) /\ current \in Seq(Sessions) /\ scan \in 1 .. Len(threads) + 1
        BY DEF Init
    <2>2. stop \in BOOLEAN /\ use_snmp \in BOOLEAN /\ snmp_fd \in BOOLEAN
        BY DEF Init
    <2>3. QED
        BY <2>1, <2>2 DEF Init, TypeOK
<1>2. JoinedInOrder
    BY DEF Init, JoinedInOrder
<1>3. ListedOnce /\ Scanned
    BY DEF Init, ListedOnce, Scanned
<1>4. Listed
    BY DEF Init, Listed, Alive
<1>5. StopInv
    BY DEF Init, StopInv, StopForgotten
<1>6. QED
    BY <1>1, <1>2, <1>3, <1>4, <1>5 DEF ThreadsInv

-----------------------------------------------------------------------------
(* Every step keeps the invariant. *)

\* Steps of main() before and after the sessions, and of the outside.
LEMMA OtherSteps ==
    ASSUME ThreadsInv,
           \/ Signal \/ Begin \/ BeginSnmp \/ StartMaintenance \/ WritePid
           \/ CloseSnmp \/ JoinSnmp \/ JoinMaintenance \/ DeleteBackend
           \/ SnmpEnds \/ MaintenanceEnds \/ UNCHANGED vars
    PROVE  ThreadsInv'
<1>1. UNCHANGED <<conn, ses, threads, scan, due, current, use_snmp>>
    BY DEF Signal, Begin, BeginSnmp, StartMaintenance, WritePid, CloseSnmp, JoinSnmp, JoinMaintenance,
       DeleteBackend, SnmpEnds, MaintenanceEnds, vars, others, thread_list
<1>2. stop' \in BOOLEAN /\ snmp_fd' \in BOOLEAN
    <2>1. (stop' = stop \/ stop' = TRUE \/ stop' = FALSE) /\ (snmp_fd' = snmp_fd \/ snmp_fd' = TRUE \/ snmp_fd' = FALSE)
        BY DEF Signal, Begin, BeginSnmp, StartMaintenance, WritePid, CloseSnmp, JoinSnmp,
           JoinMaintenance, DeleteBackend, SnmpEnds, MaintenanceEnds, vars, others
    <2>2. QED
        BY <2>1, Zenon DEF ThreadsInv, TypeOK
<1>3. TypeOK'
    <2>1. /\ main' = main \/ main' \in {"begin_snmp", "failed", "maint", "pid", "while", "join_snmp", "join_maint", "delete", "exited"}
          /\ signal' = signal \/ signal' \in {"early", "late"}
        BY DEF Signal, Begin, BeginSnmp, StartMaintenance, WritePid, CloseSnmp,
           JoinSnmp, JoinMaintenance, DeleteBackend, SnmpEnds, MaintenanceEnds, vars, others, GoMain
    <2>2. /\ snmp' = snmp \/ snmp' \in {"run", "done", "joined"}
          /\ maint' = maint \/ maint' \in {"run", "done", "joined"}
          /\ backend' = backend \/ backend' = "deleted"
        BY DEF Signal, Begin, BeginSnmp, StartMaintenance, WritePid, CloseSnmp,
           JoinSnmp, JoinMaintenance, DeleteBackend, SnmpEnds, MaintenanceEnds, vars, others, GoMain
    <2>3. /\ main' \in {"begin", "begin_snmp", "maint", "pid", "while", "accept", "reap", "spawn", "push", "join",
                       "snmp", "join_snmp", "join_maint", "delete", "exited", "failed"}
          /\ signal' \in {"none", "early", "late"}
          /\ snmp' \in {"none", "run", "done", "joined"}
          /\ maint' \in {"none", "run", "done", "joined"}
          /\ backend' \in {"open", "deleted"}
        BY <2>1, <2>2 DEF ThreadsInv, TypeOK
    <2>4. QED
        BY <1>1, <1>2, <2>3 DEF ThreadsInv, TypeOK
<1>4. JoinedInOrder'
    BY <1>1 DEF ThreadsInv, TypeOK, JoinedInOrder, Signal, Begin, BeginSnmp, StartMaintenance, WritePid,
       CloseSnmp, JoinSnmp, JoinMaintenance, DeleteBackend, SnmpEnds, MaintenanceEnds, vars, others, GoMain, Running
<1>5. main' \notin {"reap", "spawn", "push"} \/ main' = main
    BY DEF Signal, Begin, BeginSnmp, StartMaintenance, WritePid, CloseSnmp, JoinSnmp, JoinMaintenance,
       DeleteBackend, SnmpEnds, MaintenanceEnds, vars, others, GoMain
<1>6. ListedOnce' /\ Listed' /\ Scanned'
    BY <1>1, <1>5 DEF ThreadsInv, ListedOnce, Listed, Scanned
<1>7. StopInv'
    BY <1>1 DEF ThreadsInv, TypeOK, StopInv, StopForgotten, Signal, Begin, BeginSnmp, StartMaintenance,
       WritePid, CloseSnmp, JoinSnmp, JoinMaintenance, DeleteBackend, SnmpEnds, MaintenanceEnds, vars, others,
       GoMain, Running
<1>8. QED
    BY <1>3, <1>4, <1>6, <1>7 DEF ThreadsInv

\* Steps of a session, or of its initiator.
LEMMA SessionSteps ==
    ASSUME ThreadsInv, NEW c \in Sessions,
           ConnectTo(c) \/ Hangup(c) \/ Exchange(c) \/ Answered(c) \/ Hang(c) \/ SessionStep(c)
    PROVE  ThreadsInv'
<1>1. UNCHANGED <<main, stop, signal, use_snmp, snmp, snmp_fd, maint, backend, threads, scan, due, current>>
    BY DEF ConnectTo, Hangup, Exchange, Answered, Hang, SessionStep, RecvEnds, EndSession, SetFlag,
       others, thread_list
<1>2. /\ ses' \in [Sessions -> {"none"} \cup Alive \cup {"done", "joined"}]
      /\ conn' \in [Sessions -> {"none", "waiting", "open", "closed"}]
    BY DEF ThreadsInv, TypeOK, Alive, ConnectTo, Hangup, Exchange, Answered, Hang, SessionStep, RecvEnds,
       EndSession, SetFlag, others, thread_list
<1>3. ASSUME NEW d \in Sessions
      PROVE  /\ ses'[d] = ses[d] \/ (ses[d] \in Alive /\ ses'[d] \in Alive \cup {"done"})
             /\ conn[d] \in {"open", "closed"} => conn'[d] \in {"open", "closed"}
    BY DEF ThreadsInv, TypeOK, Alive, ConnectTo, Hangup, Exchange, Answered, Hang, SessionStep, RecvEnds,
       EndSession, SetFlag, others, thread_list
<1>4. TypeOK'
    BY <1>1, <1>2 DEF ThreadsInv, TypeOK
<1>5. JoinedInOrder' /\ StopInv'
    BY <1>1 DEF ThreadsInv, JoinedInOrder, StopInv, StopForgotten
<1>6. /\ \A i \in 1 .. Len(threads) : threads[i] \in Sessions
      /\ \A j \in 1 .. Len(current) : current[j] \in Sessions
    BY DEF ThreadsInv, TypeOK
<1>7. ListedOnce'
    BY <1>1, <1>3, <1>6 DEF ThreadsInv, ListedOnce, Alive
<1>8. Listed'
    BY <1>1, <1>3 DEF ThreadsInv, Listed, Alive
<1>9. Scanned'
    BY <1>1, <1>3 DEF ThreadsInv, TypeOK, Scanned, Alive
<1>10. QED
    BY <1>4, <1>5, <1>7, <1>8, <1>9 DEF ThreadsInv

\* Steps of main() that change the list of threads.
LEMMA WhileStep == ASSUME ThreadsInv, While PROVE ThreadsInv'
<1>1. /\ UNCHANGED <<stop, signal, use_snmp, snmp, snmp_fd, maint, backend, conn, ses, threads, current>>
      /\ main = "while" /\ main' \in {"join", "accept"} /\ scan' = 1 /\ due' = {}
    BY DEF While, others, GoMain
<1>2. TypeOK'
    BY <1>1 DEF ThreadsInv, TypeOK
<1>3. JoinedInOrder' /\ ListedOnce'
    BY <1>1 DEF ThreadsInv, JoinedInOrder, ListedOnce
<1>4. Listed' /\ Scanned'
    BY <1>1 DEF ThreadsInv, Listed, Scanned
<1>5. StopInv'
    BY <1>1 DEF ThreadsInv, StopInv, StopForgotten
<1>6. QED
    BY <1>2, <1>3, <1>4, <1>5 DEF ThreadsInv

LEMMA AcceptStep == ASSUME ThreadsInv, Accept PROVE ThreadsInv'
<1>1. /\ UNCHANGED <<stop, signal, use_snmp, snmp, snmp_fd, maint, backend, ses, threads>>
      /\ main = "accept" /\ current = <<>>
    BY DEF ThreadsInv, JoinedInOrder, Accept, others
<1>2. StopInv'
    BY <1>1 DEF ThreadsInv, StopInv, StopForgotten, Accept, GoMain
<1>3. CASE main' = "while" /\ UNCHANGED <<conn, scan, due, current>>
    <2>1. TypeOK' /\ JoinedInOrder'
        BY <1>1, <1>3 DEF ThreadsInv, TypeOK, JoinedInOrder
    <2>2. ListedOnce' /\ Listed' /\ Scanned'
        BY <1>1, <1>3 DEF ThreadsInv, ListedOnce, Listed, Scanned
    <2>3. QED
        BY <1>2, <2>1, <2>2 DEF ThreadsInv
<1>4. ASSUME NEW c \in Sessions, conn[c] = "waiting", conn' = [conn EXCEPT ![c] = "open"],
             current' = <<c>>, scan' = 1, due' = {d \in ToSet(threads) : ses[d] = "done"}, main' = "reap"
      PROVE  ThreadsInv'
    <2>1. current' \in Seq(Sessions) /\ Len(current') = 1 /\ current'[1] = c
        BY <1>4
    <2>2. due' \subseteq Sessions /\ \A d \in due' : ses[d] = "done"
        BY <1>4, InToSet DEF ThreadsInv, TypeOK
    <2>3. TypeOK'
        BY <1>1, <1>4, <2>1, <2>2 DEF ThreadsInv, TypeOK
    <2>4. JoinedInOrder'
        BY <1>1, <1>4 DEF ThreadsInv, JoinedInOrder
    <2>5. \A i \in 1 .. Len(threads) : threads[i] \in Sessions /\ threads[i] # c
        BY <1>4 DEF ThreadsInv, TypeOK, ListedOnce
    <2>6. ListedOnce'
        BY <1>1, <1>4, <2>1, <2>5 DEF ThreadsInv, TypeOK, ListedOnce
    <2>7. Listed'
        BY <1>1 DEF ThreadsInv, Listed
    <2>8. Scanned'
        BY <1>1, <1>4, <2>2 DEF ThreadsInv, Scanned
    <2>9. QED
        BY <1>2, <2>3, <2>4, <2>6, <2>7, <2>8 DEF ThreadsInv
<1>5. QED
    BY <1>3, <1>4 DEF Accept, GoMain

LEMMA SpawnStep == ASSUME ThreadsInv, Spawn PROVE ThreadsInv'
<1>1. /\ UNCHANGED <<stop, signal, use_snmp, snmp, snmp_fd, maint, backend, conn, threads, scan, due, current>>
      /\ main = "spawn" /\ main' = "push"
      /\ ses' = [c \in Sessions |-> IF c \in ToSet(current) THEN "recv" ELSE ses[c]]
    BY DEF Spawn, others, thread_list, GoMain
<1>2. \A c \in Sessions : c \in ToSet(current) <=> \E j \in 1 .. Len(current) : current[j] = c
    BY InToSet DEF ThreadsInv, TypeOK
<1>3. TypeOK'
    <2>1. ses' \in [Sessions -> {"none"} \cup Alive \cup {"done", "joined"}]
        BY <1>1 DEF ThreadsInv, TypeOK, Alive
    <2>2. QED
        BY <1>1, <2>1 DEF ThreadsInv, TypeOK
<1>4. JoinedInOrder' /\ StopInv'
    BY <1>1 DEF ThreadsInv, JoinedInOrder, StopInv, StopForgotten
<1>5. /\ \A i \in 1 .. Len(threads) : threads[i] \in Sessions
      /\ \A j \in 1 .. Len(current) : current[j] \in Sessions
    BY DEF ThreadsInv, TypeOK
<1>6. /\ \A i \in 1 .. Len(threads) : ses'[threads[i]] = ses[threads[i]]
      /\ \A j \in 1 .. Len(current) : ses'[current[j]] = "recv"
    BY <1>1, <1>2, <1>5 DEF ThreadsInv, ListedOnce
<1>7. ListedOnce'
    BY <1>1, <1>6 DEF ThreadsInv, ListedOnce
<1>8. Listed' /\ Scanned'
    BY <1>1, <1>2 DEF ThreadsInv, Listed, Scanned
<1>9. QED
    BY <1>3, <1>4, <1>7, <1>8 DEF ThreadsInv

LEMMA ReapStep == ASSUME ThreadsInv, Reap PROVE ThreadsInv'
<1>1. /\ UNCHANGED <<stop, signal, use_snmp, snmp, snmp_fd, maint, backend, conn, due, current>>
      /\ main = "reap"
    BY DEF Reap, others
<1>2. threads \in Seq(Sessions) /\ Len(threads) \in Nat /\ scan \in 1 .. Len(threads) + 1
    BY DEF ThreadsInv, TypeOK
<1>3. ASSUME scan <= Len(threads), ses[threads[scan]] = "done", main' = main, scan' = scan,
             ses' = [ses EXCEPT ![threads[scan]] = "joined"], threads' = RemoveAt(threads, scan)
      PROVE  ThreadsInv'
    <2>1. scan \in 1 .. Len(threads) /\ threads[scan] \in Sessions
        BY <1>2, <1>3
    <2>2. /\ RemoveAt(threads, scan) \in Seq(Sessions) /\ Len(RemoveAt(threads, scan)) = Len(threads) - 1
          /\ \A j \in 1 .. Len(threads) - 1 :
                RemoveAt(threads, scan)[j] = IF j < scan THEN threads[j] ELSE threads[j + 1]
        BY ONLY <1>2, <2>1, RemoveAtElements
    <2>3. /\ threads' \in Seq(Sessions) /\ Len(threads') = Len(threads) - 1
          /\ \A j \in 1 .. Len(threads') : threads'[j] = IF j < scan THEN threads[j] ELSE threads[j + 1]
        BY <1>3, <2>2
    <2>4. /\ ses' \in [Sessions -> {"none"} \cup Alive \cup {"done", "joined"}]
          /\ ses'[threads[scan]] = "joined"
          /\ \A d \in Sessions : d # threads[scan] => ses'[d] = ses[d]
        BY <1>3, <2>1 DEF ThreadsInv, TypeOK
    <2>5. TypeOK'
        <3>1. scan' \in 1 .. Len(threads') + 1
            BY <1>2, <1>3, <2>1, <2>3
        <3>2. QED
            BY <1>1, <1>3, <2>3, <2>4, <3>1 DEF ThreadsInv, TypeOK
    <2>6. JoinedInOrder' /\ StopInv'
        BY <1>1, <1>3 DEF ThreadsInv, JoinedInOrder, StopInv, StopForgotten
    <2>7. \A i \in 1 .. Len(threads') : \E k \in 1 .. Len(threads) :
             threads'[i] = threads[k] /\ k # scan /\ k = (IF i < scan THEN i ELSE i + 1)
        BY <1>2, <2>1, <2>3
    <2>8. \A i \in 1 .. Len(threads') : threads'[i] \in Sessions /\ threads'[i] # threads[scan]
        BY <1>2, <2>1, <2>7 DEF ThreadsInv, ListedOnce
    <2>9. ListedOnce'
        <3>1. \A i, j \in 1 .. Len(threads') : threads'[i] = threads'[j] => i = j
            <4>1. SUFFICES ASSUME NEW i \in 1 .. Len(threads'), NEW j \in 1 .. Len(threads'), threads'[i] = threads'[j]
                           PROVE  i = j
                OBVIOUS
            <4>2. PICK k \in 1 .. Len(threads) : threads'[i] = threads[k] /\ k = (IF i < scan THEN i ELSE i + 1)
                BY <2>7
            <4>3. PICK l \in 1 .. Len(threads) : threads'[j] = threads[l] /\ l = (IF j < scan THEN j ELSE j + 1)
                BY <2>7
            <4>4. k = l
                BY <4>1, <4>2, <4>3 DEF ThreadsInv, ListedOnce
            <4>5. i \in Nat /\ j \in Nat /\ scan \in Nat
                BY <1>2, <2>3
            <4>6. QED
                BY <4>2, <4>3, <4>4, <4>5
        <3>2. \A i \in 1 .. Len(threads') : \A j \in 1 .. Len(current) : threads'[i] # current[j]
            BY <2>7 DEF ThreadsInv, ListedOnce
        <3>3. \A i \in 1 .. Len(threads') : conn[threads'[i]] \in {"open", "closed"} /\ ses'[threads'[i]] # "joined"
            BY <2>4, <2>7, <2>8 DEF ThreadsInv, ListedOnce
        <3>4. QED
            BY <1>1, <1>3, <3>1, <3>2, <3>3 DEF ThreadsInv, ListedOnce
    <2>10. Listed'
        <3>1. \A k \in 1 .. Len(threads) : k # scan => \E i \in 1 .. Len(threads') : threads'[i] = threads[k]
            <4>1. SUFFICES ASSUME NEW k \in 1 .. Len(threads), k # scan
                           PROVE  \E i \in 1 .. Len(threads') : threads'[i] = threads[k]
                OBVIOUS
            <4>2. CASE k < scan
                <5>1. k \in 1 .. Len(threads') /\ threads'[k] = threads[k]
                    BY <1>2, <2>1, <2>3, <4>2
                <5>2. QED
                    BY <5>1
            <4>3. CASE k > scan
                <5>1. k - 1 \in 1 .. Len(threads') /\ ~(k - 1 < scan) /\ (k - 1) + 1 = k
                    BY <1>2, <2>1, <2>3, <4>3
                <5>2. threads'[k - 1] = threads[k]
                    BY <2>3, <5>1
                <5>3. QED
                    BY <5>1, <5>2
            <4>4. QED
                BY <1>2, <4>1, <4>2, <4>3
        <3>2. ASSUME NEW c \in Sessions, ses'[c] \in Alive \cup {"done"}
              PROVE  \/ \E i \in 1 .. Len(threads') : threads'[i] = c
                     \/ \E j \in 1 .. Len(current) : current[j] = c
            <4>1. c # threads[scan] /\ ses[c] = ses'[c]
                BY <2>4, <3>2 DEF Alive
            <4>2. QED
                BY <3>1, <3>2, <4>1 DEF ThreadsInv, Listed
        <3>3. QED
            BY <1>1, <3>2 DEF Listed
    <2>11. Scanned'
        <3>1. \A d \in due : ses'[d] \in {"done", "joined"}
            BY <1>1, <2>1, <2>4 DEF ThreadsInv, TypeOK, Scanned
        <3>2. \A i \in 1 .. scan - 1 : threads'[i] = threads[i]
            BY <1>2, <2>1, <2>3
        <3>3. QED
            BY <1>1, <1>3, <3>1, <3>2 DEF ThreadsInv, Scanned
    <2>12. QED
        BY <2>5, <2>6, <2>9, <2>10, <2>11 DEF ThreadsInv
<1>4. ASSUME scan <= Len(threads), ses[threads[scan]] # "done", scan' = scan + 1, UNCHANGED <<main, ses, threads>>
      PROVE  ThreadsInv'
    <2>1. scan \in 1 .. Len(threads) /\ threads[scan] \in Sessions
        BY <1>2, <1>4
    <2>2. TypeOK'
        <3>1. scan' \in 1 .. Len(threads') + 1
            BY <1>2, <1>4, <2>1
        <3>2. QED
            BY <1>1, <1>4, <3>1 DEF ThreadsInv, TypeOK
    <2>3. JoinedInOrder' /\ StopInv'
        BY <1>1, <1>4 DEF ThreadsInv, JoinedInOrder, StopInv, StopForgotten
    <2>4. ListedOnce' /\ Listed'
        BY <1>1, <1>4 DEF ThreadsInv, ListedOnce, Listed
    <2>5. threads[scan] \notin due
        BY <1>1, <1>4, <2>1 DEF ThreadsInv, ListedOnce, Scanned
    <2>6. \A i \in 1 .. scan : threads[i] \notin due
        BY <1>1, <1>2, <2>1, <2>5 DEF ThreadsInv, Scanned
    <2>7. Scanned'
        BY <1>1, <1>2, <1>4, <2>6 DEF ThreadsInv, Scanned
    <2>8. QED
        BY <2>2, <2>3, <2>4, <2>7 DEF ThreadsInv
<1>5. ASSUME scan > Len(threads), main' = "spawn", UNCHANGED <<ses, threads, scan>>
      PROVE  ThreadsInv'
    <2>1. TypeOK'
        BY <1>1, <1>5 DEF ThreadsInv, TypeOK
    <2>2. JoinedInOrder' /\ StopInv'
        BY <1>1, <1>5 DEF ThreadsInv, JoinedInOrder, StopInv, StopForgotten
    <2>3. ListedOnce' /\ Listed'
        BY <1>1, <1>5 DEF ThreadsInv, ListedOnce, Listed
    <2>4. Scanned'
        BY <1>1, <1>2, <1>5 DEF ThreadsInv, Scanned
    <2>5. QED
        BY <2>1, <2>2, <2>3, <2>4 DEF ThreadsInv
<1>6. QED
    BY <1>3, <1>4, <1>5 DEF Reap, GoMain

LEMMA PushStep == ASSUME ThreadsInv, Push PROVE ThreadsInv'
<1>1. /\ UNCHANGED <<stop, signal, use_snmp, snmp, snmp_fd, maint, backend, conn, ses, scan, due>>
      /\ main = "push" /\ main' = "while" /\ current' = <<>> /\ threads' = threads \o current
    BY DEF Push, others, GoMain
<1>2. threads \in Seq(Sessions) /\ current \in Seq(Sessions)
    BY DEF ThreadsInv, TypeOK
<1>3. /\ threads \o current \in Seq(Sessions) /\ Len(threads \o current) = Len(threads) + Len(current)
      /\ \A j \in 1 .. Len(threads) : (threads \o current)[j] = threads[j]
      /\ \A j \in 1 .. Len(current) : (threads \o current)[Len(threads) + j] = current[j]
    BY ONLY <1>2, ConcatElements
<1>4. Len(threads) \in Nat /\ Len(current) \in Nat /\ Len(current) <= 1
    BY <1>2 DEF ThreadsInv, ListedOnce
<1>5. /\ threads' \in Seq(Sessions) /\ Len(threads') = Len(threads) + Len(current)
      /\ \A j \in 1 .. Len(threads) : threads'[j] = threads[j]
      /\ Len(current) = 1 => threads'[Len(threads) + 1] = current[1]
    BY <1>1, <1>3, <1>4
<1>6. TypeOK'
    <2>1. scan' \in 1 .. Len(threads') + 1
        BY <1>1, <1>4, <1>5 DEF ThreadsInv, TypeOK
    <2>2. current' \in Seq(Sessions)
        BY <1>1
    <2>3. QED
        BY <1>1, <1>5, <2>1, <2>2 DEF ThreadsInv, TypeOK
<1>7. JoinedInOrder' /\ StopInv'
    BY <1>1 DEF ThreadsInv, JoinedInOrder, StopInv, StopForgotten
<1>8. \A i \in 1 .. Len(threads') :
         \/ i \in 1 .. Len(threads) /\ threads'[i] = threads[i]
         \/ i = Len(threads) + 1 /\ Len(current) = 1 /\ threads'[i] = current[1]
    <2>1. SUFFICES ASSUME NEW i \in 1 .. Len(threads')
                   PROVE  \/ i \in 1 .. Len(threads) /\ threads'[i] = threads[i]
                          \/ i = Len(threads) + 1 /\ Len(current) = 1 /\ threads'[i] = current[1]
        OBVIOUS
    <2>2. i \in 1 .. Len(threads) \/ (i = Len(threads) + 1 /\ Len(current) = 1)
        <3>1. i \in 1 .. Len(threads) + Len(current)
            BY <1>5
        <3>2. QED
            BY ONLY <1>4, <3>1, OneMore
    <2>3. QED
        BY <1>5, <2>2
<1>9. ListedOnce'
    <2>1. Len(current') = 0
        BY <1>1
    <2>2. \A i, j \in 1 .. Len(threads') : threads'[i] = threads'[j] => i = j
        BY <1>4, <1>8 DEF ThreadsInv, ListedOnce
    <2>3. \A i \in 1 .. Len(threads') : conn[threads'[i]] \in {"open", "closed"} /\ ses[threads'[i]] # "joined"
        BY <1>1, <1>4, <1>8 DEF ThreadsInv, ListedOnce
    <2>4. QED
        BY <1>1, <2>1, <2>2, <2>3 DEF ListedOnce
<1>10. Listed'
    <2>1. ASSUME NEW c \in Sessions, ses[c] \in Alive \cup {"done"}
          PROVE  \E i \in 1 .. Len(threads') : threads'[i] = c
        <3>1. CASE \E i \in 1 .. Len(threads) : threads[i] = c
            BY <1>4, <1>5, <3>1
        <3>2. CASE \E j \in 1 .. Len(current) : current[j] = c
            <4>1. Len(current) = 1 /\ current[1] = c
                <5>1. PICK j \in 1 .. Len(current) : current[j] = c
                    BY <3>2
                <5>2. j = 1 /\ Len(current) = 1
                    BY ONLY <1>4, <5>1, OneMore
                <5>3. QED
                    BY <5>1, <5>2
            <4>2. QED
                BY <1>4, <1>5, <4>1
        <3>3. QED
            BY <2>1, <3>1, <3>2 DEF ThreadsInv, Listed
    <2>2. QED
        BY <1>1, <2>1 DEF Listed
<1>11. Scanned'
    BY <1>1 DEF Scanned
<1>12. QED
    BY <1>6, <1>7, <1>9, <1>10, <1>11 DEF ThreadsInv

LEMMA JoinStep == ASSUME ThreadsInv, JoinAll PROVE ThreadsInv'
<1>1. /\ UNCHANGED <<stop, signal, use_snmp, snmp, snmp_fd, maint, backend, conn, scan, due, current>>
      /\ main = "join" /\ scan = 1 /\ current = <<>>
    BY DEF ThreadsInv, JoinedInOrder, JoinAll, others
<1>2. threads \in Seq(Sessions) /\ Len(threads) \in Nat
    BY DEF ThreadsInv, TypeOK
<1>3. ASSUME threads # <<>>, ses' = [ses EXCEPT ![Head(threads)] = "joined"], threads' = Tail(threads), main' = main
      PROVE  ThreadsInv'
    <2>1. /\ Head(threads) = threads[1] /\ Tail(threads) \in Seq(Sessions)
          /\ Len(threads) > 0 /\ Len(Tail(threads)) = Len(threads) - 1
          /\ \A j \in 1 .. Len(threads) - 1 : Tail(threads)[j] = threads[j + 1]
        BY ONLY <1>2, <1>3, TailElements
    <2>2. /\ threads' \in Seq(Sessions) /\ Len(threads') = Len(threads) - 1
          /\ \A j \in 1 .. Len(threads') : j + 1 \in 1 .. Len(threads) /\ threads'[j] = threads[j + 1]
          /\ 1 \in 1 .. Len(threads) /\ threads[1] \in Sessions
        BY <1>2, <1>3, <2>1
    <2>3. /\ ses' \in [Sessions -> {"none"} \cup Alive \cup {"done", "joined"}]
          /\ ses'[threads[1]] = "joined"
          /\ \A d \in Sessions : d # threads[1] => ses'[d] = ses[d]
        BY <1>3, <2>1, <2>2 DEF ThreadsInv, TypeOK
    <2>4. TypeOK'
        <3>1. scan' \in 1 .. Len(threads') + 1
            BY <1>1, <1>2, <2>1, <2>2
        <3>2. QED
            BY <1>1, <1>3, <2>2, <2>3, <3>1 DEF ThreadsInv, TypeOK
    <2>5. JoinedInOrder' /\ StopInv'
        BY <1>1, <1>3 DEF ThreadsInv, JoinedInOrder, StopInv, StopForgotten
    <2>6. \A j \in 1 .. Len(threads') : threads'[j] \in Sessions /\ threads'[j] # threads[1]
        BY <1>2, <2>2 DEF ThreadsInv, ListedOnce
    <2>7. ListedOnce'
        <3>1. \A i, j \in 1 .. Len(threads') : threads'[i] = threads'[j] => i = j
            BY <1>2, <2>2 DEF ThreadsInv, ListedOnce
        <3>2. \A i \in 1 .. Len(threads') : conn[threads'[i]] \in {"open", "closed"} /\ ses'[threads'[i]] # "joined"
            BY <2>2, <2>3, <2>6 DEF ThreadsInv, ListedOnce
        <3>3. Len(current') = 0
            BY <1>1
        <3>4. QED
            BY <1>1, <3>1, <3>2, <3>3 DEF ListedOnce
    <2>8. Listed'
        <3>1. ASSUME NEW c \in Sessions, ses'[c] \in Alive \cup {"done"}
              PROVE  \E i \in 1 .. Len(threads') : threads'[i] = c
            <4>1. c # threads[1] /\ ses[c] = ses'[c]
                BY <2>3, <3>1 DEF Alive
            <4>2. Len(current) = 0
                BY <1>1
            <4>3. PICK k \in 1 .. Len(threads) : threads[k] = c
                BY <3>1, <4>1, <4>2 DEF ThreadsInv, Listed
            <4>4. k - 1 \in 1 .. Len(threads') /\ (k - 1) + 1 = k
                BY <1>2, <2>2, <4>1, <4>3
            <4>5. QED
                BY <2>2, <4>3, <4>4
        <3>2. QED
            BY <1>1, <3>1 DEF Listed
    <2>9. Scanned'
        BY <1>1, <1>3 DEF Scanned
    <2>10. QED
        BY <2>4, <2>5, <2>7, <2>8, <2>9 DEF ThreadsInv
<1>4. ASSUME threads = <<>>, main' = "snmp", UNCHANGED <<ses, threads>>
      PROVE  ThreadsInv'
    <2>1. TypeOK'
        BY <1>1, <1>4 DEF ThreadsInv, TypeOK
    <2>2. JoinedInOrder' /\ StopInv'
        BY <1>1, <1>4 DEF ThreadsInv, JoinedInOrder, StopInv, StopForgotten
    <2>3. ListedOnce' /\ Listed' /\ Scanned'
        BY <1>1, <1>4 DEF ThreadsInv, ListedOnce, Listed, Scanned
    <2>4. QED
        BY <2>1, <2>2, <2>3 DEF ThreadsInv
<1>5. QED
    BY <1>3, <1>4 DEF JoinAll, GoMain

LEMMA ThreadsInvStep == ThreadsInv /\ [Next]_vars => ThreadsInv'
<1> SUFFICES ASSUME ThreadsInv, [Next]_vars PROVE ThreadsInv'
    OBVIOUS
<1>1. CASE \/ Signal \/ Begin \/ BeginSnmp \/ StartMaintenance \/ WritePid
           \/ CloseSnmp \/ JoinSnmp \/ JoinMaintenance \/ DeleteBackend
           \/ SnmpEnds \/ MaintenanceEnds \/ UNCHANGED vars
    BY <1>1, OtherSteps
<1>2. ASSUME NEW c \in Sessions,
             ConnectTo(c) \/ Hangup(c) \/ Exchange(c) \/ Answered(c) \/ Hang(c) \/ SessionStep(c)
      PROVE  ThreadsInv'
    BY <1>2, SessionSteps
<1>3. CASE While \/ Accept \/ Reap \/ Spawn \/ Push \/ JoinAll
    BY <1>3, WhileStep, AcceptStep, ReapStep, SpawnStep, PushStep, JoinStep
<1>4. QED
    BY <1>1, <1>2, <1>3 DEF Next, Main

LEMMA ThreadsInvariant == Spec => []ThreadsInv
BY ThreadsInvInit, ThreadsInvStep, PTL DEF Spec

-----------------------------------------------------------------------------

(* The variables of main() and of the threads keep their types, for any number of connections:
   in particular the index of the loop that joins threads stays within the list. *)
THEOREM ThreadsTyped == Spec => []TypeOK
<1>1. ThreadsInv => TypeOK
    BY DEF ThreadsInv
<1>2. QED
    BY <1>1, ThreadsInvariant, PTL

(* Every session thread of handler() that is not joined is in its list, or about to be put there. *)
THEOREM ThreadsListed == Spec => []NoThreadForgotten
<1>1. ThreadsInv => NoThreadForgotten
    <2>1. SUFFICES ASSUME ThreadsInv, NEW c \in Sessions, ses[c] \in Alive \cup {"done"}
                   PROVE  c \in ToSet(threads \o current)
        BY DEF NoThreadForgotten
    <2>2. threads \in Seq(Sessions) /\ current \in Seq(Sessions)
        BY <2>1 DEF ThreadsInv, TypeOK
    <2>3. /\ threads \o current \in Seq(Sessions) /\ Len(threads \o current) = Len(threads) + Len(current)
          /\ \A j \in 1 .. Len(threads) : (threads \o current)[j] = threads[j]
          /\ \A j \in 1 .. Len(current) : (threads \o current)[Len(threads) + j] = current[j]
        BY ONLY <2>2, ConcatElements
    <2>4. Len(threads) \in Nat /\ Len(current) \in Nat
        BY <2>2
    <2>5. \E i \in 1 .. Len(threads \o current) : (threads \o current)[i] = c
        <3>1. CASE \E i \in 1 .. Len(threads) : threads[i] = c
            BY <2>3, <2>4, <3>1
        <3>2. CASE \E j \in 1 .. Len(current) : current[j] = c
            <4>1. PICK j \in 1 .. Len(current) : current[j] = c
                BY <3>2
            <4>2. Len(threads) + j \in 1 .. Len(threads \o current)
                BY <2>3, <2>4
            <4>3. QED
                BY <2>3, <4>1, <4>2
        <3>3. QED
            BY <2>1, <3>1, <3>2 DEF ThreadsInv, Listed
    <2>6. QED
        BY ONLY <2>3, <2>5, InToSet
<1>2. QED
    BY <1>1, ThreadsInvariant, PTL

(* main() deletes the backend, and returns 0, only when the session threads, the SNMP thread and
   the maintenance thread are joined. *)
THEOREM BackendOutlives == Spec => []NoThreadOutlivesBackend
<1>1. ThreadsInv => NoThreadOutlivesBackend
    <2>1. SUFFICES ASSUME ThreadsInv, main = "exited" PROVE NoThreadOutlivesBackend
        BY DEF ThreadsInv, JoinedInOrder, NoThreadOutlivesBackend
    <2>2. threads = <<>> /\ current = <<>>
        BY <2>1 DEF ThreadsInv, JoinedInOrder
    <2>3. Len(threads) = 0 /\ Len(current) = 0
        BY <2>2
    <2>4. \A c \in Sessions : ses[c] \notin Alive \cup {"done"}
        BY <2>1, <2>3 DEF ThreadsInv, Listed
    <2>5. \A c \in Sessions : ses[c] \in {"none", "joined"}
        BY <2>1, <2>4 DEF ThreadsInv, TypeOK
    <2>6. QED
        BY <2>1, <2>5 DEF ThreadsInv, JoinedInOrder, NoThreadOutlivesBackend
<1>2. QED
    BY <1>1, ThreadsInvariant, PTL

(* When handler() starts a session, no thread that had finished when the connection was accepted is
   left in its list, although the list is changed while it is walked. *)
THEOREM FinishedJoined == Spec => []FinishedAreJoined
<1>1. ThreadsInv => FinishedAreJoined
    <2>1. SUFFICES ASSUME ThreadsInv, main = "spawn", NEW d \in due, d \in ToSet(threads) PROVE FALSE
        BY DEF FinishedAreJoined
    <2>2. threads \in Seq(Sessions)
        BY <2>1 DEF ThreadsInv, TypeOK
    <2>3. \E i \in 1 .. Len(threads) : threads[i] = d
        BY ONLY <2>1, <2>2, InToSet
    <2>4. QED
        BY <2>1, <2>3 DEF ThreadsInv, Scanned
<1>2. QED
    BY <1>1, ThreadsInvariant, PTL

(* Only snmp::begin() can make the program forget a stop signal, and only one that came before it. *)
THEOREM StopKept == Spec => []StopForgotten
<1>1. ThreadsInv => StopForgotten
    BY DEF ThreadsInv, StopInv
<1>2. QED
    BY <1>1, ThreadsInvariant, PTL
=============================================================================
