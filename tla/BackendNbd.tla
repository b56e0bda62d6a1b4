----------------------------- MODULE BackendNbd -----------------------------
(***************************************************************************)
(* The NBD backend: every call becomes requests on one TCP connection that *)
(* all session threads share; a lost connection is made again and the      *)
(* request sent again.  Only calls for common blocks exclude each other    *)
(* (lock_range(), see BackendFile); sync() takes no lock.                  *)
(*                                                                         *)
(* The NBD server is external: it carries out what it received in order    *)
(* and answers each request.  Losing a connection drops the requests that  *)
(* the server has not looked at yet and any number of its last answers.    *)
(***************************************************************************)
EXTENDS Integers, Sequences

CONSTANTS
    Threads,
    NBlocks,    \* size of the device of the server, in blocks
    Values,     \* contents of a block
    Zero,       \* contents of a trimmed block
    Requests,   \* calls that threads make
    MaxFaults,  \* bound: errors of the network and of the server
    NoCall

Blocks == 0 .. NBlocks - 1

RequestRecords ==
    [kind : {"read", "write", "trim", "cmpwrite", "sync"}, block_nr : Nat, n_blocks : Nat,
     data : Values, compare : Values]

ASSUME NbdAssumption ==
    /\ NBlocks \in Nat \ {0} /\ MaxFaults \in Nat /\ Zero \in Values
    /\ Requests \subseteq RequestRecords /\ NoCall \notin RequestRecords
    /\ \A r \in Requests : r.block_nr + r.n_blocks <= NBlocks

VARIABLES
    disk,       \* the server's device: block -> contents
    fd,         \* is there a socket (fd # -1)?
    up,         \* is its connection alive?
    to_server,  \* what was written to it and not handled by the server
    to_client,  \* what the server sent and was not read
    dev_size,   \* in blocks
    req,        \* thread -> the call it is in, or NoCall
    pc,         \* thread -> where it is
    block,      \* thread -> index of the block that cmpwrite() compares, n_blocks when it writes
    buf,        \* thread -> blocks that the call has read
    result,     \* thread -> what the call will return, "none" until that is known
    saved,      \* thread -> the disk when the call got its lock (only for the refinement)
    faults      \* errors so far

socket == <<fd, up, to_server, to_client>>
vars == <<disk, fd, up, to_server, to_client, dev_size, req, pc, block, buf, result, saved, faults>>

Range(r) == r.block_nr .. (r.block_nr + r.n_blocks - 1)

\* get_block_size()
BlockSize == 4096

\* get_size_in_blocks()
SizeInBlocks(bytes) == bytes \div BlockSize

Hello == [is |-> "hello", size |-> NBlocks * BlockSize]

Init ==
    /\ disk = [b \in Blocks |-> Zero]
    /\ fd = TRUE /\ up = TRUE      \* begin() has succeeded
    /\ to_server = <<>> /\ to_client = <<>>
    /\ dev_size = NBlocks
    /\ req = [t \in Threads |-> NoCall]
    /\ pc = [t \in Threads |-> "idle"]
    /\ block = [t \in Threads |-> 0]
    /\ buf = [t \in Threads |-> <<>>]
    /\ result = [t \in Threads |-> "none"]
    /\ saved = [t \in Threads |-> disk]
    /\ faults = 0

Fault ==
    /\ faults < MaxFaults
    /\ faults' = faults + 1

Goto(t, l) == pc' = [pc EXCEPT ![t] = l]

-----------------------------------------------------------------------------
(* The calls. *)

Call(t, r) ==
    /\ pc[t] = "idle"
    /\ req' = [req EXCEPT ![t] = r]
    /\ Goto(t, "lock")
    /\ UNCHANGED <<disk, socket, dev_size, block, buf, result, saved, faults>>

\* Does t hold the locks of its range?
Locked(t) == pc[t] \notin {"idle", "lock"} /\ req[t].kind # "sync"

LockRange(t) ==
    /\ pc[t] = "lock"
    /\ \A s \in Threads : Locked(s) /\ req[t].kind # "sync" => Range(req[s]) \cap Range(req[t]) = {}
    /\ saved' = [saved EXCEPT ![t] = disk]
    /\ Goto(t, "connect")
    /\ UNCHANGED <<disk, socket, dev_size, req, block, buf, result, faults>>

\* What invoke_nbd() is asked for at this point of the call: cmpwrite() reads
\* its blocks one by one and then writes all of them.
Comparing(t) == req[t].kind = "cmpwrite" /\ block[t] < req[t].n_blocks

Command(t) ==
    [is |-> "request",
     cmd |-> IF Comparing(t) THEN "read" ELSE IF req[t].kind = "cmpwrite" THEN "write" ELSE req[t].kind,
     block_nr |-> IF Comparing(t) THEN req[t].block_nr + block[t] ELSE req[t].block_nr,
     n_blocks |-> IF Comparing(t) THEN 1 ELSE req[t].n_blocks]

\* Mutant: compares nothing.
InvokedBlind(t, ok) ==
    \/ /\ Comparing(t)
       /\ block' = [block EXCEPT ![t] = req[t].n_blocks]
       /\ buf' = [buf EXCEPT ![t] = <<>>]
       /\ Goto(t, "connect")
       /\ UNCHANGED result
    \/ /\ ~Comparing(t)
       /\ result' = [result EXCEPT ![t] = IF ok THEN "ok" ELSE "failed"]
       /\ Goto(t, "unlock")
       /\ UNCHANGED <<block, buf>>

\* invoke_nbd() has returned ok to the call.
Invoked(t, ok) ==
    \/ /\ Comparing(t) /\ ok /\ buf[t] = <<req[t].compare>>
       /\ block' = [block EXCEPT ![t] = @ + 1]
       /\ buf' = [buf EXCEPT ![t] = <<>>]
       /\ Goto(t, "connect")
       /\ UNCHANGED result
    \/ /\ Comparing(t) /\ ~(ok /\ buf[t] = <<req[t].compare>>)
       /\ result' = [result EXCEPT ![t] = IF ok THEN "mismatch" ELSE "read_error"]
       /\ buf' = [buf EXCEPT ![t] = <<>>]
       /\ Goto(t, "unlock")
       /\ UNCHANGED block
    \/ /\ ~Comparing(t)
       /\ result' = [result EXCEPT ![t] =
             IF ok THEN "ok" ELSE IF req[t].kind = "cmpwrite" THEN "write_error" ELSE "failed"]
       /\ Goto(t, "unlock")
       /\ UNCHANGED <<block, buf>>

\* unlock_range() and the return to scsi.
Return(t) ==
    /\ pc[t] = "unlock"
    /\ req' = [req EXCEPT ![t] = NoCall]
    /\ block' = [block EXCEPT ![t] = 0]
    /\ buf' = [buf EXCEPT ![t] = <<>>]
    /\ result' = [result EXCEPT ![t] = "none"]
    /\ saved' = [saved EXCEPT ![t] = [b \in Blocks |-> Zero]]
    /\ Goto(t, "idle")
    /\ UNCHANGED <<disk, socket, dev_size, faults>>

-----------------------------------------------------------------------------
(* connect() *)

\* Nothing to do when there is a socket, even one whose hello is still to be
\* read by another thread.
Connect(t) ==
    /\ pc[t] = "connect"
    /\ Goto(t, IF fd THEN "send" ELSE "dial")
    /\ UNCHANGED <<disk, socket, dev_size, req, block, buf, result, saved, faults>>

\* getaddrinfo(), socket() and connect(); tried again until they work.
Dial(t) ==
    /\ pc[t] = "dial"
    /\ \/ /\ Fault
          /\ UNCHANGED <<pc, socket>>
       \/ /\ fd' = TRUE /\ up' = TRUE
          /\ to_server' = <<>> /\ to_client' = <<Hello>>
          /\ Goto(t, "hello")
          /\ UNCHANGED faults
    /\ UNCHANGED <<disk, dev_size, req, block, buf, result, saved>>

CloseSocket ==
    /\ fd' = FALSE /\ up' = FALSE
    /\ to_server' = <<>> /\ to_client' = <<>>

\* READ(): blocks until there is something, fails without a live connection.
Readable == fd /\ to_client # <<>>
ReadFails == ~fd \/ (~up /\ to_client = <<>>)

\* What is read has the magic that is expected, or has not.
Reads(is) == Readable /\ Head(to_client).is = is
Misreads(is) == ReadFails \/ (Readable /\ Head(to_client).is # is)

\* Mutant: the socket is kept when the hello cannot be read.
ReadHelloKept(t) ==
    /\ pc[t] = "hello"
    /\ \/ /\ Reads("hello")
          /\ dev_size' = SizeInBlocks(Head(to_client).size)
          /\ to_client' = Tail(to_client)
          /\ Goto(t, "send")
          /\ UNCHANGED <<fd, up, to_server>>
       \/ /\ ReadFails
          /\ dev_size' = 0
          /\ Goto(t, "send")
          /\ UNCHANGED socket
    /\ UNCHANGED <<disk, req, block, buf, result, saved, faults>>

\* dev_size is set even when the hello could not be read or has no magic.
ReadHello(t) ==
    /\ pc[t] = "hello"
    /\ \/ /\ Reads("hello")
          /\ dev_size' = SizeInBlocks(Head(to_client).size)
          /\ to_client' = Tail(to_client)
          /\ Goto(t, "send")
          /\ UNCHANGED <<fd, up, to_server>>
       \/ /\ Misreads("hello")
          /\ dev_size' = 0
          /\ CloseSocket
          /\ Goto(t, "dial")
    /\ UNCHANGED <<disk, req, block, buf, result, saved, faults>>

-----------------------------------------------------------------------------
(* invoke_nbd() *)

\* A READ() or WRITE() failed: close(fd), fd = -1, sleep(1), continue.
LostConnection(t) ==
    /\ CloseSocket
    /\ Goto(t, "while")
    /\ UNCHANGED buf

\* while(fd == -1): a thread whose connection was lost looks here whether
\* there is a connection again, whoever made it.
While(t) ==
    /\ pc[t] = "while"
    /\ Goto(t, IF fd THEN "done" ELSE "connect")
    /\ UNCHANGED <<disk, socket, dev_size, req, block, buf, result, saved, faults>>

\* return fd != -1: the socket may have been closed by another thread since.
Done(t) ==
    /\ pc[t] = "done"
    /\ Invoked(t, fd)
    /\ UNCHANGED <<disk, socket, dev_size, req, saved, faults>>

\* Writing to a connection that broke may go unnoticed.
Send(t, item, next) ==
    /\ \/ /\ fd
          /\ to_server' = IF up THEN Append(to_server, item) ELSE to_server
          /\ Goto(t, next)
          /\ UNCHANGED <<fd, up, to_client, buf>>
       \/ /\ ~up
          /\ LostConnection(t)
    /\ UNCHANGED <<disk, dev_size, req, block, result, saved, faults>>

\* Mutant: the answer to a flush is not waited for.
SendRequestNoReply(t) ==
    /\ pc[t] = "send"
    /\ Send(t, Command(t),
            CASE Command(t).cmd = "write" -> "payload"
              [] Command(t).cmd = "sync" -> "while"
              [] OTHER -> "reply")

\* The handle of a request is always 0, so it is left out.
SendRequest(t) ==
    /\ pc[t] = "send"
    /\ Send(t, Command(t), IF Command(t).cmd = "write" THEN "payload" ELSE "reply")

SendPayload(t) ==
    /\ pc[t] = "payload"
    /\ Send(t, [is |-> "data", blocks |-> [i \in 1 .. req[t].n_blocks |-> req[t].data]], "reply")

\* Mutant: after a lost answer the reply of the new connection is waited for
\* without sending the request again.
ReadReplyNoResend(t) ==
    /\ pc[t] = "reply"
    /\ \/ /\ ReadFails
          /\ fd' = TRUE /\ up' = TRUE /\ to_server' = <<>> /\ to_client' = <<>>
          /\ UNCHANGED <<pc, block, buf, result>>
       \/ /\ Readable /\ ~Head(to_client).error
          /\ to_client' = Tail(to_client)
          /\ Goto(t, IF Command(t).cmd = "read" THEN "data" ELSE "while")
          /\ UNCHANGED <<fd, up, to_server, block, buf, result>>
       \/ /\ Readable /\ Head(to_client).error
          /\ to_client' = Tail(to_client)
          /\ Invoked(t, FALSE)
          /\ UNCHANGED <<fd, up, to_server>>
    /\ UNCHANGED <<disk, dev_size, req, saved, faults>>

\* The header of the answer.  Something else has no magic; an error returns.
ReadReply(t) ==
    /\ pc[t] = "reply"
    /\ \/ /\ Misreads("reply")
          /\ LostConnection(t)
          /\ UNCHANGED <<block, result>>
       \/ /\ Reads("reply") /\ ~Head(to_client).error
          /\ to_client' = Tail(to_client)
          /\ Goto(t, IF Command(t).cmd = "read" THEN "data" ELSE "while")
          /\ UNCHANGED <<fd, up, to_server, block, buf, result>>
       \/ /\ Reads("reply") /\ Head(to_client).error
          /\ to_client' = Tail(to_client)
          /\ Invoked(t, FALSE)
          /\ UNCHANGED <<fd, up, to_server>>
    /\ UNCHANGED <<disk, dev_size, req, saved, faults>>

\* The data of a read; whatever comes is taken for it.
ReadData(t) ==
    /\ pc[t] = "data"
    /\ \/ /\ ReadFails
          /\ LostConnection(t)
       \/ /\ Readable
          /\ buf' = [buf EXCEPT ![t] =
                IF Head(to_client).is = "data" THEN Head(to_client).blocks ELSE <<>>]
          /\ to_client' = Tail(to_client)
          /\ Goto(t, "while")
          /\ UNCHANGED <<fd, up, to_server>>
    /\ UNCHANGED <<disk, dev_size, req, block, result, saved, faults>>

Step(t) ==
    \/ LockRange(t) \/ Return(t)
    \/ Connect(t) \/ Dial(t) \/ ReadHello(t)
    \/ While(t) \/ Done(t) \/ SendRequest(t) \/ SendPayload(t) \/ ReadReply(t) \/ ReadData(t)

-----------------------------------------------------------------------------
(* The NBD server and the network. *)

Contents(m) == [i \in 1 .. m.n_blocks |-> disk[m.block_nr + i - 1]]

ReplyHeader(error) == [is |-> "reply", error |-> error]

\* A write waits for its data (and for ever when something else is next).  What
\* fails may have been carried out in part; a trim clears what it likes.
Serve ==
    /\ to_server # <<>>
    /\ LET m == Head(to_server)
           write == m.is = "request" /\ m.cmd = "write"
           Filled(n) == [b \in Blocks |->
               IF b \in m.block_nr .. (m.block_nr + n - 1) THEN to_server[2].blocks[b - m.block_nr + 1] ELSE disk[b]]
           Cleared(S) == [b \in Blocks |-> IF b \in S THEN Zero ELSE disk[b]]
       IN
       /\ m.is = "request" /\ (write => Len(to_server) > 1 /\ to_server[2].is = "data")
       /\ to_server' = IF write THEN Tail(Tail(to_server)) ELSE Tail(to_server)
       /\ \/ /\ \/ /\ m.cmd \in {"read", "sync"} /\ UNCHANGED disk
                \/ write /\ disk' = Filled(m.n_blocks)
                \/ m.cmd = "trim" /\ \E S \in SUBSET Range(m) : disk' = Cleared(S)
             /\ to_client' = to_client \o <<ReplyHeader(FALSE)>>
                   \o (IF m.cmd = "read" THEN <<[is |-> "data", blocks |-> Contents(m)]>> ELSE <<>>)
             /\ UNCHANGED faults
          \/ /\ Fault
             /\ \/ ~write /\ UNCHANGED disk
                \/ write /\ \E n \in 0 .. m.n_blocks : disk' = Filled(n)
             /\ to_client' = Append(to_client, ReplyHeader(TRUE))
    /\ UNCHANGED <<fd, up, dev_size, req, pc, block, buf, result, saved>>

Lose ==
    /\ up /\ Fault
    /\ up' = FALSE
    /\ to_server' = <<>>
    /\ \E n \in 0 .. Len(to_client) : to_client' = SubSeq(to_client, 1, n)
    /\ UNCHANGED <<disk, fd, dev_size, req, pc, block, buf, result, saved>>

-----------------------------------------------------------------------------

Next ==
    \/ \E t \in Threads : Step(t) \/ \E r \in Requests : Call(t, r)
    \/ Serve
    \/ Lose

Spec == Init /\ [][Next]_vars

\* The threads are scheduled and the server answers.
FairSpec == Spec /\ WF_vars(Serve) /\ \A t \in Threads : WF_vars(Step(t))

-----------------------------------------------------------------------------

Items ==
    {Hello}
    \cup [is : {"data"}, blocks : Seq(Values)] \cup [is : {"reply"}, error : BOOLEAN]
    \cup [is : {"request"}, cmd : {"read", "write", "trim", "sync"}, block_nr : Nat, n_blocks : Nat]

\* Every variable has its type.
TypeOK ==
    /\ disk \in [Blocks -> Values]
    /\ fd \in BOOLEAN /\ up \in BOOLEAN
    /\ to_server \in Seq(Items) /\ to_client \in Seq(Items)
    /\ dev_size \in {0, NBlocks}
    /\ req \in [Threads -> Requests \cup {NoCall}]
    /\ pc \in [Threads -> {"idle", "lock", "connect", "dial", "hello", "send", "payload",
                           "reply", "data", "while", "done", "unlock"}]
    /\ block \in [Threads -> 0 .. NBlocks]
    /\ buf \in [Threads -> Seq(Values)]
    /\ result \in [Threads ->
          {"none", "ok", "failed", "mismatch", "read_error", "write_error"}]
    /\ saved \in [Threads -> [Blocks -> Values]]
    /\ faults \in 0 .. MaxFaults

\* "what is written, is readable later on": a write that returns success, however
\* often it was sent, is on the device, and a read that returns success has its contents.
OkMeansDone ==
    \A t \in Threads : pc[t] = "unlock" /\ result[t] = "ok" =>
        \A b \in Range(req[t]) :
            /\ req[t].kind \in {"write", "cmpwrite"} => disk[b] = req[t].data
            /\ req[t].kind = "read" => buf[t] = [i \in 1 .. req[t].n_blocks |-> disk[req[t].block_nr + i - 1]]

\* dev_size, with which scsi validates requests, is only wrong while connect()
\* is at work: no request is sent to a server whose hello was not understood.
SizeKnown == dev_size # NBlocks => \E t \in Threads : pc[t] \in {"dial", "hello"}

\* The stream stays in step: on a connection there is never more than the
\* answer to the one request that was sent last.
OneAnswer ==
    /\ \A i, j \in 1 .. Len(to_client) :
          to_client[i].is = "reply" /\ to_client[j].is = "reply" => i = j
    /\ \A t \in Threads : pc[t] \in {"idle", "lock", "unlock"} => to_client = <<>>

\* Every call returns, however often the connection is lost underneath it.
EveryCallReturns == \A t \in Threads : req[t] # NoCall ~> req[t] = NoCall

\* A call takes effect when its last request has been answered.  Until then
\* the blocks that it may have written, perhaps more than once, count as before.
AbstractDisk ==
    [b \in Blocks |->
        LET writers == {t \in Threads : Locked(t) /\ result[t] = "none" /\ b \in Range(req[t])} IN
        IF writers = {} THEN disk[b] ELSE saved[CHOOSE t \in writers : TRUE][b]]

AbstractReply ==
    [t \in Threads |-> IF result[t] = "none" THEN <<"none", <<>>>> ELSE <<result[t], buf[t]>>]

Atomic == INSTANCE AtomicDisk WITH disk <- AbstractDisk, call <- req, reply <- AbstractReply

\* The NBD backend implements the atomic disk: resending a request after its
\* answer was lost, also halfway through a cmpwrite(), has no effect that a
\* caller can see.
NbdImplementsAtomicDisk == Atomic!Spec
=============================================================================
