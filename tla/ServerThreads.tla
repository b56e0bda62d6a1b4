---------------------------- MODULE ServerThreads ----------------------------
(***************************************************************************)
(* The threads of the program, from main() to its end: main() itself,      *)
(* which accepts connections in server::handler(), a thread per session,   *)
(* the SNMP thread and the maintenance thread.  They end because of the    *)
(* flag stop, which the signal handler sets and snmp::begin() clears.      *)
(***************************************************************************)
EXTENDS Integers, SequencesExt

CONSTANT Sessions    \* bound: connections that initiators make

VARIABLES
    main,       \* where main() is
    stop,       \* the global stop flag
    signal,     \* "none", or how the (only) stop signal came: "early" is before snmp::begin()
    use_snmp,   \* option -S
    snmp,       \* the SNMP thread
    snmp_fd,    \* snmp::fd # -1
    maint,      \* the maintenance thread
    backend,    \* "open", "deleted"
    conn,       \* connection -> its state as initiators see it
    ses,        \* connection -> the session thread that serves it
    threads,    \* server::threads, in order
    scan,       \* index into threads of the loop that joins finished ones
    due,        \* threads that had finished when that loop began (only for a property)
    current     \* the connection that handler() has accepted and not yet put in threads

vars == <<main, stop, signal, use_snmp, snmp, snmp_fd, maint, backend, conn, ses, threads, scan, due, current>>

others == <<snmp, snmp_fd, maint, backend>>
thread_list == <<threads, scan, due, current>>

Alive == {"recv", "busy", "stuck", "end", "flag"}

\* After main() has returned the process is gone.
Running == main \notin {"exited", "failed"}

Init ==
    /\ main = "begin"
    /\ stop = FALSE /\ signal = "none"
    /\ use_snmp \in BOOLEAN
    /\ snmp = "none" /\ snmp_fd = FALSE /\ maint = "none"
    /\ backend = "open"
    /\ conn = [c \in Sessions |-> "none"]
    /\ ses = [c \in Sessions |-> "none"]
    /\ threads = <<>> /\ scan = 1 /\ due = {} /\ current = <<>>

-----------------------------------------------------------------------------
(* Outside: the operator and the initiators. *)

\* sigh() for SIGINT and SIGTERM.
Signal ==
    /\ signal = "none" /\ Running
    /\ stop' = TRUE
    /\ signal' = IF main \in {"begin", "begin_snmp"} THEN "early" ELSE "late"
    /\ UNCHANGED <<main, use_snmp, others, conn, ses, thread_list>>

ConnectTo(c) ==
    /\ conn[c] = "none" /\ Running /\ main # "begin"
    /\ conn' = [conn EXCEPT ![c] = "waiting"]
    /\ UNCHANGED <<main, stop, signal, use_snmp, others, ses, thread_list>>

\* An initiator leaves.
Hangup(c) ==
    /\ conn[c] = "open"
    /\ conn' = [conn EXCEPT ![c] = "closed"]
    /\ UNCHANGED <<main, stop, signal, use_snmp, others, ses, thread_list>>

\* A PDU arrives.  Until its answer is sent the session is in calls that know
\* no stop: the backend's, and WRITE() to an initiator that may not be reading.
Exchange(c) ==
    /\ Running /\ conn[c] = "open" /\ ~stop
    /\ ses[c] = "recv"
    /\ ses' = [ses EXCEPT ![c] = "busy"]
    /\ UNCHANGED <<main, stop, signal, use_snmp, others, conn, thread_list>>

Answered(c) ==
    /\ Running /\ ses[c] = "busy"
    /\ ses' = [ses EXCEPT ![c] = IF conn[c] = "open" THEN "recv" ELSE "end"]
    /\ UNCHANGED <<main, stop, signal, use_snmp, others, conn, thread_list>>

\* One of these calls, or the sync() at the end, does not return at all, and does
\* not look at stop either: an AHS of length 0, a READ in empty segments, or an NBD
\* server that is gone for good.
Hang(c) ==
    /\ Running /\ ses[c] \in {"busy", "end"}
    /\ ses' = [ses EXCEPT ![c] = "stuck"]
    /\ UNCHANGED <<main, stop, signal, use_snmp, others, conn, thread_list>>

-----------------------------------------------------------------------------
(* main() *)

GoMain(l) == main' = l

\* The backend and the listening socket, without which main() returns 1.
Begin ==
    /\ main = "begin"
    /\ main' \in {"begin_snmp", "failed"}
    /\ UNCHANGED <<stop, signal, use_snmp, others, conn, ses, thread_list>>

\* snmp::begin() ends with *stop_flag = false and its thread; when it fails
\* main() goes on without.
BeginSnmp ==
    /\ main = "begin_snmp"
    /\ \/ /\ use_snmp
          /\ stop' = FALSE
          /\ snmp' = "run" /\ snmp_fd' = TRUE
       \/ UNCHANGED <<stop, snmp, snmp_fd>>
    /\ GoMain("maint")
    /\ UNCHANGED <<signal, use_snmp, maint, backend, conn, ses, thread_list>>

StartMaintenance ==
    /\ main = "maint"
    /\ maint' = "run"
    /\ GoMain("pid")
    /\ UNCHANGED <<stop, signal, use_snmp, snmp, snmp_fd, backend, conn, ses, thread_list>>

\* The PID file: main() returns 1 when it cannot be written.
WritePid ==
    /\ main = "pid"
    /\ main' \in {"while", "failed"}
    /\ UNCHANGED <<stop, signal, use_snmp, others, conn, ses, thread_list>>

\* while(!stop) of handler()
While ==
    /\ main = "while"
    /\ GoMain(IF stop THEN "join" ELSE "accept")
    /\ scan' = 1 /\ due' = {}
    /\ UNCHANGED <<stop, signal, use_snmp, others, conn, ses, threads, current>>

\* com_sockets::accept(): a connection comes before the stop flag.  nullptr
\* (stop, or poll() interrupted by the signal) goes back to the while.
Accept ==
    /\ main = "accept"
    /\ \/ \E c \in Sessions :
            /\ conn[c] = "waiting"
            /\ conn' = [conn EXCEPT ![c] = "open"]
            /\ current' = <<c>>
            /\ scan' = 1
            /\ due' = {d \in ToSet(threads) : ses[d] = "done"}
            /\ GoMain("reap")
       \/ /\ stop
          /\ GoMain("while")
          /\ UNCHANGED <<conn, scan, due, current>>
    /\ UNCHANGED <<stop, signal, use_snmp, others, ses, threads>>

\* Mutant: the index goes on after an erase.
ReapSkips ==
    /\ main = "reap"
    /\ \/ /\ scan <= Len(threads) /\ ses[threads[scan]] = "done"
          /\ ses' = [ses EXCEPT ![threads[scan]] = "joined"]
          /\ threads' = RemoveAt(threads, scan)
          /\ scan' = scan + 1
          /\ UNCHANGED main
       \/ /\ scan <= Len(threads) /\ ses[threads[scan]] # "done"
          /\ scan' = scan + 1
          /\ UNCHANGED <<main, ses, threads>>
       \/ /\ scan > Len(threads)
          /\ GoMain("spawn")
          /\ UNCHANGED <<ses, threads, scan>>
    /\ UNCHANGED <<stop, signal, use_snmp, others, conn, due, current>>

\* The loop over threads, under threads_lock: those whose flag is set are
\* joined and erased.
Reap ==
    /\ main = "reap"
    /\ \/ /\ scan <= Len(threads) /\ ses[threads[scan]] = "done"
          /\ ses' = [ses EXCEPT ![threads[scan]] = "joined"]
          /\ threads' = RemoveAt(threads, scan)
          /\ UNCHANGED <<main, scan>>
       \/ /\ scan <= Len(threads) /\ ses[threads[scan]] # "done"
          /\ scan' = scan + 1
          /\ UNCHANGED <<main, ses, threads>>
       \/ /\ scan > Len(threads)
          /\ GoMain("spawn")
          /\ UNCHANGED <<ses, threads, scan>>
    /\ UNCHANGED <<stop, signal, use_snmp, others, conn, due, current>>

Spawn ==
    /\ main = "spawn"
    /\ ses' = [c \in Sessions |-> IF c \in ToSet(current) THEN "recv" ELSE ses[c]]
    /\ GoMain("push")
    /\ UNCHANGED <<stop, signal, use_snmp, others, conn, thread_list>>

\* Mutant: a thread that has already finished is not put in the list.
PushRunning ==
    /\ main = "push"
    /\ threads' = threads \o SelectSeq(current, LAMBDA c : ses[c] # "done")
    /\ current' = <<>>
    /\ GoMain("while")
    /\ UNCHANGED <<stop, signal, use_snmp, others, conn, ses, scan, due>>

\* By now the thread may already have ended.
Push ==
    /\ main = "push"
    /\ threads' = threads \o current
    /\ current' = <<>>
    /\ GoMain("while")
    /\ UNCHANGED <<stop, signal, use_snmp, others, conn, ses, scan, due>>

\* The end of handler(): every thread is joined, one after the other.
JoinAll ==
    /\ main = "join"
    /\ \/ /\ threads # <<>> /\ ses[Head(threads)] = "done"
          /\ ses' = [ses EXCEPT ![Head(threads)] = "joined"]
          /\ threads' = Tail(threads)
          /\ UNCHANGED main
       \/ /\ threads = <<>>
          /\ GoMain("snmp")
          /\ UNCHANGED <<ses, threads>>
    /\ UNCHANGED <<stop, signal, use_snmp, others, conn, scan, due, current>>

\* Mutant: the flag is given the wrong value.
CloseSnmpClears ==
    /\ main = "snmp"
    /\ snmp_fd' = FALSE
    /\ stop' = IF snmp = "none" THEN stop ELSE FALSE
    /\ GoMain("join_snmp")
    /\ UNCHANGED <<signal, use_snmp, snmp, maint, backend, conn, ses, thread_list>>

\* delete snmp_: close(fd), fd = -1, *stop_flag = true, join().
CloseSnmp ==
    /\ main = "snmp"
    /\ snmp_fd' = FALSE
    /\ stop' = IF snmp = "none" THEN stop ELSE TRUE
    /\ GoMain("join_snmp")
    /\ UNCHANGED <<signal, use_snmp, snmp, maint, backend, conn, ses, thread_list>>

JoinSnmp ==
    /\ main = "join_snmp"
    /\ snmp \in {"none", "done"}
    /\ snmp' = IF snmp = "done" THEN "joined" ELSE snmp
    /\ GoMain("join_maint")
    /\ UNCHANGED <<stop, signal, use_snmp, snmp_fd, maint, backend, conn, ses, thread_list>>

\* Mutant: does not wait for the thread.
JoinMaintenanceLater ==
    /\ main = "join_maint"
    /\ maint' = maint
    /\ GoMain("delete")
    /\ UNCHANGED <<stop, signal, use_snmp, snmp, snmp_fd, backend, conn, ses, thread_list>>

JoinMaintenance ==
    /\ main = "join_maint"
    /\ maint = "done"
    /\ maint' = "joined"
    /\ GoMain("delete")
    /\ UNCHANGED <<stop, signal, use_snmp, snmp, snmp_fd, backend, conn, ses, thread_list>>

\* delete b, unlink the PID file, return 0.
DeleteBackend ==
    /\ main = "delete"
    /\ backend' = "deleted"
    /\ GoMain("exited")
    /\ UNCHANGED <<stop, signal, use_snmp, snmp, snmp_fd, maint, conn, ses, thread_list>>

Main ==
    \/ Begin \/ BeginSnmp \/ StartMaintenance \/ WritePid
    \/ While \/ Accept \/ Reap \/ Spawn \/ Push \/ JoinAll
    \/ CloseSnmp \/ JoinSnmp \/ JoinMaintenance \/ DeleteBackend

-----------------------------------------------------------------------------
(* The other threads. *)

\* Mutant: recv() only notices that the connection is closed.
RecvEndsOnClose(c) ==
    /\ ses[c] = "recv"
    /\ conn[c] = "closed"
    /\ ses' = [ses EXCEPT ![c] = "end"]
    /\ UNCHANGED <<main, stop, signal, use_snmp, others, conn, thread_list>>

\* recv() looks at stop every 100 ms and before it reads.
RecvEnds(c) ==
    /\ ses[c] = "recv"
    /\ stop \/ conn[c] = "closed"
    /\ ses' = [ses EXCEPT ![c] = "end"]
    /\ UNCHANGED <<main, stop, signal, use_snmp, others, conn, thread_list>>

\* sync(), unlock_device(), delete cc, delete ses.
EndSession(c) ==
    /\ ses[c] = "end"
    /\ ses' = [ses EXCEPT ![c] = "flag"]
    /\ conn' = [conn EXCEPT ![c] = "closed"]
    /\ UNCHANGED <<main, stop, signal, use_snmp, others, thread_list>>

\* *flag = true is the last thing a session thread does.
SetFlag(c) ==
    /\ ses[c] = "flag"
    /\ ses' = [ses EXCEPT ![c] = "done"]
    /\ UNCHANGED <<main, stop, signal, use_snmp, others, conn, thread_list>>

SessionStep(c) == Running /\ (RecvEnds(c) \/ EndSession(c) \/ SetFlag(c))

\* snmp::thread(): ends with stop, or when recvfrom() fails on the closed socket.
SnmpEnds ==
    /\ Running /\ snmp = "run"
    /\ stop \/ ~snmp_fd
    /\ snmp' = "done"
    /\ UNCHANGED <<main, stop, signal, use_snmp, snmp_fd, maint, backend, conn, ses, thread_list>>

\* maintenance_thread(): looks at stop every second.
MaintenanceEnds ==
    /\ Running /\ maint = "run"
    /\ stop
    /\ maint' = "done"
    /\ UNCHANGED <<main, stop, signal, use_snmp, snmp, snmp_fd, backend, conn, ses, thread_list>>

-----------------------------------------------------------------------------

Next ==
    \/ Signal
    \/ \E c \in Sessions : ConnectTo(c) \/ Hangup(c) \/ Exchange(c) \/ Answered(c) \/ Hang(c)
    \/ Main
    \/ \E c \in Sessions : SessionStep(c)
    \/ SnmpEnds
    \/ MaintenanceEnds

Spec == Init /\ [][Next]_vars

\* Every thread is scheduled; the kernel accepts; a call that does not hang
\* returns, so an initiator reads the answers to what it sent, or goes away.
FairSpec ==
    /\ Spec
    /\ WF_vars(Main) /\ WF_vars(SnmpEnds) /\ WF_vars(MaintenanceEnds)
    /\ \A c \in Sessions : WF_vars(SessionStep(c)) /\ WF_vars(Answered(c))

-----------------------------------------------------------------------------

\* Every variable has its type.
TypeOK ==
    /\ main \in {"begin", "begin_snmp", "maint", "pid", "while", "accept", "reap", "spawn", "push", "join",
                 "snmp", "join_snmp", "join_maint", "delete", "exited", "failed"}
    /\ stop \in BOOLEAN /\ use_snmp \in BOOLEAN /\ snmp_fd \in BOOLEAN
    /\ signal \in {"none", "early", "late"}
    /\ snmp \in {"none", "run", "done", "joined"}
    /\ maint \in {"none", "run", "done", "joined"}
    /\ backend \in {"open", "deleted"}
    /\ conn \in [Sessions -> {"none", "waiting", "open", "closed"}]
    /\ ses \in [Sessions -> {"none"} \cup Alive \cup {"done", "joined"}]
    /\ threads \in Seq(Sessions) /\ scan \in 1 .. Len(threads) + 1
    /\ due \subseteq Sessions
    /\ current \in Seq(Sessions)

\* main() does not delete the backend, nor return 0, while a thread that uses
\* the backend or the variables of main() is running.
NoThreadOutlivesBackend ==
    backend = "deleted" \/ main = "exited" =>
        /\ maint = "joined" /\ snmp \in {"none", "joined"}
        /\ \A c \in Sessions : ses[c] \in {"none", "joined"}

\* Every session thread that is not yet joined is in the list, from which it
\* will be joined, or about to be put there: also one that ended at once.
NoThreadForgotten ==
    \A c \in Sessions : ses[c] \in Alive \cup {"done"} => c \in ToSet(threads \o current)

\* Threads that have finished are joined before the next session starts, so
\* they do not pile up: however many there are and wherever in the list.
FinishedAreJoined == main = "spawn" => due \cap ToSet(threads) = {}

\* A stop signal is forgotten only when it came before snmp::begin().
StopForgotten == signal # "none" /\ ~stop => signal = "early" /\ use_snmp

\* A stop signal ends the program, whatever the sessions are doing and however
\* many there are; but for the forgotten signal, and for a session that hangs, on
\* which main() waits for ever.
StopEndsProgram ==
    signal = "late" \/ (signal = "early" /\ ~use_snmp)
        ~> main \in {"exited", "failed"} \/ \E c \in Sessions : ses[c] = "stuck"
=============================================================================
