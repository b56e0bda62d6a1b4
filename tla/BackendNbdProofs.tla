-------------------------- MODULE BackendNbdProofs --------------------------
(***************************************************************************)
(* Proofs about the NBD backend: for any number of threads that its size   *)
(* is known whenever no connect() is at work; for one thread, any device   *)
(* and any number of faults, that the stream stays in step and that        *)
(* sending requests again cannot be told from an atomic disk.              *)
(***************************************************************************)
EXTENDS BackendNbd, TLAPS

(* Queues of at most two items. *)

LEMMA IsOne == ASSUME NEW S, NEW x \in S, NEW s \in Seq(S), Len(s) = 1, s[1] = x PROVE s = <<x>>
OBVIOUS

LEMMA IsTwo ==
    ASSUME NEW S, NEW x \in S, NEW y \in S, NEW s \in Seq(S), Len(s) = 2, s[1] = x, s[2] = y
    PROVE  s = <<x, y>>
OBVIOUS

LEMMA Parts ==
    ASSUME NEW x, NEW y
    PROVE  /\ Head(<<x>>) = x /\ Tail(<<x>>) = <<>> /\ <<x>> # <<>> /\ Len(<<x>>) = 1
           /\ Head(<<x, y>>) = x /\ Tail(<<x, y>>) = <<y>> /\ <<x, y>> # <<>> /\ Len(<<x, y>>) = 2
           /\ <<x, y>>[2] = y
OBVIOUS

LEMMA Joined ==
    ASSUME NEW x, NEW y
    PROVE  /\ Append(<<>>, x) = <<x>> /\ Append(<<x>>, y) = <<x, y>>
           /\ <<>> \o <<x>> = <<x>> /\ <<x>> \o <<>> = <<x>> /\ <<x>> \o <<y>> = <<x, y>>
<1> DEFINE S == {x, y}
<1>1. x \in S /\ y \in S
    OBVIOUS
<1> HIDE DEF S
<1>2. /\ <<>> \in Seq(S) /\ <<x>> \in Seq(S) /\ <<y>> \in Seq(S)
      /\ Len(<<x>>) = 1 /\ <<x>>[1] = x /\ Len(<<y>>) = 1 /\ <<y>>[1] = y
    BY <1>1
<1>3. Append(<<>>, x) = <<x>>
    <2>1. Append(<<>>, x) \in Seq(S) /\ Len(Append(<<>>, x)) = 1 /\ Append(<<>>, x)[1] = x
        BY <1>1, <1>2
    <2>2. QED
        BY <1>1, <2>1, IsOne
<1>4. Append(<<x>>, y) = <<x, y>>
    <2>1. /\ Append(<<x>>, y) \in Seq(S) /\ Len(Append(<<x>>, y)) = 2
          /\ Append(<<x>>, y)[1] = x /\ Append(<<x>>, y)[2] = y
        BY <1>1, <1>2
    <2>2. QED
        BY <1>1, <2>1, IsTwo
<1>5. <<>> \o <<x>> = <<x>> /\ <<x>> \o <<>> = <<x>>
    <2>1. <<>> \o <<x>> \in Seq(S) /\ Len(<<>> \o <<x>>) = 1 /\ (<<>> \o <<x>>)[1] = x
        BY <1>1, <1>2
    <2>2. <<x>> \o <<>> \in Seq(S) /\ Len(<<x>> \o <<>>) = 1 /\ (<<x>> \o <<>>)[1] = x
        BY <1>1, <1>2
    <2>3. QED
        BY <1>1, <2>1, <2>2, IsOne
<1>6. <<x>> \o <<y>> = <<x, y>>
    <2>1. /\ <<x>> \o <<y>> \in Seq(S) /\ Len(<<x>> \o <<y>>) = 2
          /\ (<<x>> \o <<y>>)[1] = x /\ (<<x>> \o <<y>>)[2] = y
        BY <1>1, <1>2
    <2>2. QED
        BY <1>1, <2>1, IsTwo
<1>7. QED
    BY <1>3, <1>4, <1>5, <1>6

\* What is left of a queue of which the end is lost.
LEMMA Cut ==
    ASSUME NEW x, NEW y
    PROVE  /\ \A n \in 0 .. Len(<<>>) : SubSeq(<<>>, 1, n) = <<>>
           /\ \A n \in 0 .. Len(<<x>>) : SubSeq(<<x>>, 1, n) \in {<<>>, <<x>>}
           /\ \A n \in 0 .. Len(<<x, y>>) : SubSeq(<<x, y>>, 1, n) \in {<<>>, <<x>>, <<x, y>>}
<1> DEFINE S == {x, y}
<1>1. x \in S /\ y \in S
    OBVIOUS
<1> HIDE DEF S
<1>2. /\ <<x, y>> \in Seq(S) /\ Len(<<x, y>>) = 2 /\ <<x, y>>[1] = x /\ <<x, y>>[2] = y
      /\ <<x>> \in Seq(S) /\ Len(<<x>>) = 1 /\ <<x>>[1] = x
    BY <1>1
<1>3. SubSeq(<<>>, 1, 0) = <<>> /\ SubSeq(<<x>>, 1, 0) = <<>> /\ SubSeq(<<x, y>>, 1, 0) = <<>>
    OBVIOUS
<1>4. SubSeq(<<x>>, 1, 1) = <<x>>
    <2>1. SubSeq(<<x>>, 1, 1) \in Seq(S) /\ Len(SubSeq(<<x>>, 1, 1)) = 1 /\ SubSeq(<<x>>, 1, 1)[1] = x
        BY <1>1, <1>2
    <2>2. QED
        BY <1>1, <2>1, IsOne
<1>5. SubSeq(<<x, y>>, 1, 1) = <<x>>
    <2>1. /\ SubSeq(<<x, y>>, 1, 1) \in Seq(S) /\ Len(SubSeq(<<x, y>>, 1, 1)) = 1
          /\ SubSeq(<<x, y>>, 1, 1)[1] = x
        BY <1>1, <1>2
    <2>2. QED
        BY <1>1, <2>1, IsOne
<1>6. SubSeq(<<x, y>>, 1, 2) = <<x, y>>
    <2>1. /\ SubSeq(<<x, y>>, 1, 2) \in Seq(S) /\ Len(SubSeq(<<x, y>>, 1, 2)) = 2
          /\ SubSeq(<<x, y>>, 1, 2)[1] = x /\ SubSeq(<<x, y>>, 1, 2)[2] = y
        BY <1>1, <1>2
    <2>2. QED
        BY <1>1, <2>1, IsTwo
<1>7. Len(<<>>) = 0 /\ 0 .. 0 = {0} /\ 0 .. 1 = {0, 1} /\ 0 .. 2 = {0, 1, 2}
    OBVIOUS
<1>8. QED
    BY <1>2, <1>3, <1>4, <1>5, <1>6, <1>7

-----------------------------------------------------------------------------
(* The size of the device. *)

Places ==
    {"idle", "lock", "connect", "dial", "hello", "send", "payload", "reply", "data", "while", "done",
     "unlock"}

\* Every hello in the stream is one of the server's.
Greets(q) ==
    /\ \E X : q \in Seq(X)
    /\ \A i \in 1 .. Len(q) : q[i].is = "hello" => q[i] = Hello

SizeInv == pc \in [Threads -> Places] /\ Greets(to_client) /\ SizeKnown

LEMMA HelloSize == SizeInBlocks(Hello.size) = NBlocks
<1>1. NBlocks \in Nat
    BY NbdAssumption
<1>2. (NBlocks * 4096) \div 4096 = NBlocks
    BY <1>1
<1>3. QED
    BY <1>2 DEF SizeInBlocks, Hello, BlockSize

LEMMA GreetsEmpty == Greets(<<>>) /\ Greets(<<Hello>>)
<1>1. ASSUME NEW x PROVE Greets(<<>>) /\ (x = Hello => Greets(<<x>>))
    <2>1. <<>> \in Seq({x}) /\ <<x>> \in Seq({x})
        OBVIOUS
    <2>2. Len(<<>>) = 0 /\ Len(<<x>>) = 1 /\ <<x>>[1] = x
        OBVIOUS
    <2>3. \A i \in 1 .. Len(<<>>) : FALSE
        BY <2>2
    <2>4. \A i \in 1 .. Len(<<x>>) : <<x>>[i] = x
        BY <2>2
    <2>5. QED
        BY <2>1, <2>3, <2>4 DEF Greets
<1>2. QED
    BY <1>1

\* Without its first item or its last ones.
LEMMA GreetsPart ==
    ASSUME NEW q, Greets(q)
    PROVE  /\ q # <<>> => Greets(Tail(q)) /\ (Head(q).is = "hello" => Head(q) = Hello)
           /\ \A n \in 0 .. Len(q) : Greets(SubSeq(q, 1, n))
<1>1. PICK X : q \in Seq(X)
    BY DEF Greets
<1>2. ASSUME q # <<>> PROVE Greets(Tail(q)) /\ (Head(q).is = "hello" => Head(q) = Hello)
    <2>1. /\ Tail(q) \in Seq(X) /\ Len(Tail(q)) = Len(q) - 1 /\ Len(q) \in Nat \ {0} /\ Head(q) = q[1]
          /\ \A i \in 1 .. Len(q) - 1 : Tail(q)[i] = q[i + 1]
        BY <1>1, <1>2
    <2>2. \A i \in 1 .. Len(q) - 1 : i + 1 \in 1 .. Len(q)
        BY <2>1
    <2>3. QED
        BY <2>1, <2>2 DEF Greets
<1>3. ASSUME NEW n \in 0 .. Len(q) PROVE Greets(SubSeq(q, 1, n))
    <2>1. /\ SubSeq(q, 1, n) \in Seq(X) /\ Len(SubSeq(q, 1, n)) = n /\ n <= Len(q) /\ Len(q) \in Nat
          /\ \A i \in 1 .. n : SubSeq(q, 1, n)[i] = q[i]
        BY <1>1, <1>3
    <2>2. \A i \in 1 .. n : i \in 1 .. Len(q)
        BY <2>1
    <2>3. \A i \in 1 .. n : q[i].is = "hello" => q[i] = Hello
        BY <2>2 DEF Greets
    <2>4. QED
        BY <2>1, <2>3 DEF Greets
<1>4. QED
    BY <1>2, <1>3

\* Something else is put behind it.
LEMMA GreetsPush ==
    ASSUME NEW q, Greets(q), NEW x, x.is # "hello"
    PROVE  Greets(Append(q, x)) /\ q \o <<x>> = Append(q, x) /\ q \o <<>> = q
<1>1. PICK X : q \in Seq(X)
    BY DEF Greets
<1> DEFINE Y == X \cup {x}
<1>2. q \in Seq(Y) /\ x \in Y
    BY <1>1
<1> HIDE DEF Y
<1>3. /\ Append(q, x) \in Seq(Y) /\ Len(Append(q, x)) = Len(q) + 1 /\ Len(q) \in Nat
      /\ \A i \in 1 .. Len(q) : Append(q, x)[i] = q[i]
      /\ Append(q, x)[Len(q) + 1] = x
    BY <1>2
<1>4. q \o <<x>> = Append(q, x) /\ q \o <<>> = q
    BY <1>2
<1>5. QED
    BY <1>3, <1>4 DEF Greets

LEMMA SizeInvInit == Init => SizeInv
BY GreetsEmpty DEF Init, SizeInv, SizeKnown, Places

\* A thread that stays in connect(), or a step that is not of connect().
LEMMA SizeStays ==
    ASSUME SizeInv, NEW t \in Threads, NEW l \in Places, Goto(t, l), dev_size' = dev_size,
           pc[t] \in {"dial", "hello"} => l \in {"dial", "hello"}
    PROVE  pc' \in [Threads -> Places] /\ SizeKnown'
<1>1. pc \in [Threads -> Places] /\ pc' = [pc EXCEPT ![t] = l]
    BY DEF SizeInv, Goto
<1>2. ASSUME NEW s \in Threads, pc[s] \in {"dial", "hello"} PROVE pc'[s] \in {"dial", "hello"}
    BY <1>1, <1>2
<1>3. QED
    BY <1>1, <1>2 DEF SizeInv, SizeKnown

LEMMA SizeInvStep == SizeInv /\ [Next]_vars => SizeInv'
<1> SUFFICES ASSUME SizeInv, [Next]_vars PROVE SizeInv'
    OBVIOUS
<1>0. pc \in [Threads -> Places] /\ Greets(to_client) /\ SizeKnown
    BY DEF SizeInv
<1>a. Greets(to_client)' = Greets(to_client')
    BY DEF Greets, Hello
<1>1. CASE UNCHANGED vars
    BY <1>0, <1>1 DEF vars, SizeInv, SizeKnown, Greets, Hello
<1>2. CASE Lose
    <2>1. Greets(to_client')
        BY <1>0, <1>2, GreetsPart DEF Lose
    <2>2. QED
        BY <1>0, <1>2, <1>a, <2>1 DEF Lose, SizeInv, SizeKnown
<1>3. CASE Serve
    <2> DEFINE m == Head(to_server)
               R(e) == ReplyHeader(e)
               D == [is |-> "data", blocks |-> Contents(m)]
    <2>1. \/ to_client' = to_client \o <<R(FALSE)>> \o <<D>>
          \/ to_client' = to_client \o <<R(FALSE)>> \o <<>>
          \/ to_client' = Append(to_client, R(TRUE))
        BY <1>3 DEF Serve
    <2>2. R(FALSE).is # "hello" /\ R(TRUE).is # "hello" /\ D.is # "hello"
        BY DEF ReplyHeader
    <2> HIDE DEF R, D
    <2>3. /\ Greets(Append(to_client, R(FALSE))) /\ Greets(Append(to_client, R(TRUE)))
          /\ to_client \o <<R(FALSE)>> = Append(to_client, R(FALSE))
        BY <1>0, <2>2, GreetsPush
    <2>4. /\ Greets(Append(Append(to_client, R(FALSE)), D))
          /\ Append(to_client, R(FALSE)) \o <<D>> = Append(Append(to_client, R(FALSE)), D)
          /\ Append(to_client, R(FALSE)) \o <<>> = Append(to_client, R(FALSE))
        BY <2>2, <2>3, GreetsPush
    <2>5. Greets(to_client')
        BY <2>1, <2>3, <2>4
    <2>6. QED
        BY <1>0, <1>3, <1>a, <2>5 DEF Serve, SizeInv, SizeKnown
<1>4. ASSUME NEW t \in Threads, NEW r \in Requests, Call(t, r) PROVE SizeInv'
    <2>1. pc[t] = "idle" /\ Goto(t, "lock") /\ UNCHANGED <<to_client, dev_size>>
        BY <1>4 DEF Call, socket
    <2>2. QED
        BY <1>0, <1>a, <2>1, SizeStays DEF SizeInv, Places
<1>5. ASSUME NEW t \in Threads,
             LockRange(t) \/ Return(t) \/ Connect(t) \/ While(t) \/ Done(t)
      PROVE  SizeInv'
    <2>1. /\ pc[t] \notin {"dial", "hello"} /\ UNCHANGED <<to_client, dev_size>>
          /\ \E l \in Places : Goto(t, l)
        BY <1>5 DEF LockRange, Return, Connect, While, Done, Invoked, socket, Places
    <2>2. QED
        BY <1>0, <1>a, <2>1, SizeStays DEF SizeInv
<1>6. ASSUME NEW t \in Threads, Dial(t) PROVE SizeInv'
    <2>1. CASE UNCHANGED <<pc, socket>>
        BY <1>0, <1>6, <1>a, <2>1 DEF Dial, SizeInv, SizeKnown, socket
    <2>2. CASE Goto(t, "hello") /\ to_client' = <<Hello>>
        <3>1. dev_size' = dev_size
            BY <1>6 DEF Dial
        <3>2. QED
            BY <1>a, <2>2, <3>1, GreetsEmpty, SizeStays DEF SizeInv, Places
    <2>3. QED
        BY <1>6, <2>1, <2>2 DEF Dial
<1>7. ASSUME NEW t \in Threads, ReadHello(t) PROVE SizeInv'
    <2>1. CASE /\ Reads("hello") /\ dev_size' = SizeInBlocks(Head(to_client).size)
               /\ to_client' = Tail(to_client) /\ Goto(t, "send")
        <3>1. Head(to_client) = Hello /\ Greets(Tail(to_client))
            BY <1>0, <2>1, GreetsPart DEF Reads, Readable
        <3>2. dev_size' = NBlocks
            BY <2>1, <3>1, HelloSize
        <3>3. pc' \in [Threads -> Places]
            BY <1>0, <2>1 DEF Goto, Places
        <3>4. QED
            BY <1>a, <2>1, <3>1, <3>2, <3>3 DEF SizeInv, SizeKnown
    <2>2. CASE CloseSocket /\ Goto(t, "dial")
        <3>1. pc' = [pc EXCEPT ![t] = "dial"] /\ to_client' = <<>>
            BY <2>2 DEF Goto, CloseSocket
        <3>2. pc' \in [Threads -> Places] /\ pc'[t] = "dial"
            BY <1>0, <3>1 DEF Places
        <3>3. QED
            BY <1>a, <3>1, <3>2, GreetsEmpty DEF SizeInv, SizeKnown
    <2>3. QED
        BY <1>7, <2>1, <2>2 DEF ReadHello
<1>8. ASSUME NEW t \in Threads, SendRequest(t) \/ SendPayload(t) \/ ReadReply(t) \/ ReadData(t)
      PROVE  SizeInv'
    <2>1. /\ pc[t] \notin {"dial", "hello"} /\ dev_size' = dev_size
          /\ \E l \in Places : Goto(t, l)
        BY <1>8 DEF SendRequest, SendPayload, ReadReply, ReadData, Send, LostConnection, Invoked, Places
    <2>2. \/ to_client' = to_client
          \/ to_client' = <<>>
          \/ to_client # <<>> /\ to_client' = Tail(to_client)
        BY <1>8 DEF SendRequest, SendPayload, ReadReply, ReadData, Send, LostConnection, CloseSocket,
                    Reads, Readable
    <2>3. Greets(to_client')
        BY <1>0, <2>2, GreetsEmpty, GreetsPart
    <2>4. QED
        BY <1>a, <2>1, <2>3, SizeStays DEF SizeInv
<1>9. QED
    BY <1>1, <1>2, <1>3, <1>4, <1>5, <1>6, <1>7, <1>8 DEF Next, Step

\* No call of scsi is validated against a size of 0 while all threads are
\* outside connect(), however many of them share the connection: connect()
\* returns only after a hello with the size was read.
THEOREM SizeAlwaysKnown == Spec => []SizeKnown
<1>1. SizeInv => SizeKnown
    BY DEF SizeInv
<1>2. QED
    BY <1>1, SizeInvInit, SizeInvStep, PTL DEF Spec

-----------------------------------------------------------------------------
(* One thread: what a call and the stream know of each other. *)

OneThread == \E t : Threads = {t}

TypeInv ==
    /\ disk \in [Blocks -> Values] /\ fd \in BOOLEAN /\ up \in BOOLEAN
    /\ req \in [Threads -> Requests \cup {NoCall}]
    /\ pc \in [Threads -> Places]
    /\ block \in [Threads -> Nat]
    /\ buf \in [Threads -> Seq(Values)]
    /\ result \in [Threads -> {"none", "ok", "failed", "mismatch", "read_error", "write_error"}]
    /\ saved \in [Threads -> [Blocks -> Values]]

\* In invoke_nbd().
Working(t) == pc[t] \notin {"idle", "lock", "unlock"}

\* s with n blocks of a range set to v.
Prefix(s, r, n, v) ==
    [b \in Blocks |-> IF b \in r.block_nr .. (r.block_nr + n - 1) THEN v ELSE s[b]]

Trimmed(s, X) == [b \in Blocks |-> IF b \in X THEN Zero ELSE s[b]]

\* The call, and how far cmpwrite() is: what it has compared was right.
CallOf(t) ==
    /\ pc[t] = "idle" <=> req[t] = NoCall
    /\ result[t] = "none" <=> pc[t] # "unlock"
    /\ pc[t] \in {"idle", "lock"} => block[t] = 0
    /\ Working(t) =>
          /\ req[t].kind # "cmpwrite" => block[t] = 0
          /\ block[t] <= req[t].n_blocks
          /\ \A b \in req[t].block_nr .. (req[t].block_nr + block[t] - 1) : saved[t][b] = req[t].compare

\* What the requests of a call have made of the disk, sent once or more often,
\* carried out whole or in part.
DiskOf(t) ==
    Working(t) =>
        /\ Command(t).cmd \in {"read", "sync"} => disk = saved[t]
        /\ Command(t).cmd = "write" =>
              \E n \in 0 .. req[t].n_blocks : disk = Prefix(saved[t], req[t], n, req[t].data)
        /\ Command(t).cmd = "trim" => \E X \in SUBSET Range(req[t]) : disk = Trimmed(saved[t], X)

\* The last request was carried out.
Carried(t) ==
    Command(t).cmd = "write" => disk = Prefix(saved[t], req[t], req[t].n_blocks, req[t].data)

Payload(t) == [is |-> "data", blocks |-> [i \in 1 .. req[t].n_blocks |-> req[t].data]]

Sent(t) == IF Command(t).cmd = "write" THEN <<Command(t), Payload(t)>> ELSE <<Command(t)>>

Found(t) == [is |-> "data", blocks |-> Contents(Command(t))]

\* What may be in the stream while an answer is waited for: the request; or the
\* answer, as far as it was not lost; or nothing.
Awaiting(t) ==
    \/ to_server = Sent(t) /\ to_client = <<>>
    \/ /\ to_server = <<>>
       /\ \/ to_client \in {<<>>, <<ReplyHeader(TRUE)>>}
          \/ to_client = <<ReplyHeader(FALSE)>> /\ Carried(t)
          \/ to_client = <<ReplyHeader(FALSE), Found(t)>> /\ Command(t).cmd = "read"

StreamOf(t) ==
    /\ pc[t] \notin {"hello", "payload", "reply", "data"} => to_server = <<>> /\ to_client = <<>>
    /\ pc[t] = "hello" => to_server = <<>> /\ to_client \in {<<>>, <<Hello>>}
    /\ pc[t] = "payload" =>
          /\ Command(t).cmd = "write" /\ to_client = <<>>
          /\ to_server = IF up THEN <<Command(t)>> ELSE <<>>
    /\ pc[t] = "reply" => Awaiting(t)
    /\ pc[t] = "data" =>
          Command(t).cmd = "read" /\ to_server = <<>> /\ to_client \in {<<>>, <<Found(t)>>}

\* invoke_nbd() has what it was called for.
Complete(t) == pc[t] = "done" \/ (pc[t] = "while" /\ fd)

BufOf(t) ==
    /\ pc[t] = "done" => fd
    /\ Working(t) /\ ~Complete(t) => buf[t] = <<>>
    /\ pc[t] \in {"idle", "lock"} => buf[t] = <<>>
    /\ Complete(t) =>
          /\ Carried(t)
          /\ buf[t] = IF Command(t).cmd = "read" THEN Contents(Command(t)) ELSE <<>>

CallInv == \A t \in Threads : CallOf(t)
DiskInv == \A t \in Threads : DiskOf(t)
StreamInv == \A t \in Threads : StreamOf(t)
BufInv == \A t \in Threads : BufOf(t)

Inv(t) == CallOf(t) /\ DiskOf(t) /\ StreamOf(t) /\ BufOf(t)

LEMMA RequestFacts ==
    ASSUME NEW r \in Requests
    PROVE  /\ r # NoCall /\ r.kind \in {"read", "write", "trim", "cmpwrite", "sync"}
           /\ r.block_nr \in Nat /\ r.n_blocks \in Nat /\ r.data \in Values /\ r.compare \in Values
           /\ r.block_nr + r.n_blocks <= NBlocks
<1>1. r \in RequestRecords /\ NoCall \notin RequestRecords /\ r.block_nr + r.n_blocks <= NBlocks
    BY NbdAssumption
<1>2. QED
    BY <1>1 DEF RequestRecords

LEMMA CommandFacts ==
    ASSUME NEW t \in Threads, req[t] \in Requests, block[t] \in Nat
    PROVE  LET m == Command(t) IN
           /\ m.is = "request" /\ m.cmd \in {"read", "write", "trim", "sync"}
           /\ m.block_nr \in Nat /\ m.n_blocks \in Nat /\ m.block_nr + m.n_blocks <= NBlocks
           /\ ~Comparing(t) => m.block_nr = req[t].block_nr /\ m.n_blocks = req[t].n_blocks
           /\ Comparing(t) =>
                /\ m.cmd = "read" /\ m.n_blocks = 1 /\ m.block_nr = req[t].block_nr + block[t]
                /\ req[t].kind = "cmpwrite" /\ block[t] < req[t].n_blocks
           /\ m.cmd # "read" => ~Comparing(t)
           /\ m.cmd = "write" => req[t].kind \in {"write", "cmpwrite"}
           /\ m.cmd = "read" /\ ~Comparing(t) => req[t].kind = "read"
           /\ m.cmd = "sync" => req[t].kind = "sync"
           /\ m.cmd = "trim" => req[t].kind = "trim"
<1>1. /\ req[t].kind \in {"read", "write", "trim", "cmpwrite", "sync"}
      /\ req[t].block_nr \in Nat /\ req[t].n_blocks \in Nat /\ req[t].block_nr + req[t].n_blocks <= NBlocks
      /\ NBlocks \in Nat
    BY RequestFacts, NbdAssumption
<1>2. CASE Comparing(t)
    <2>1. /\ Command(t).is = "request" /\ Command(t).cmd = "read" /\ Command(t).n_blocks = 1
          /\ Command(t).block_nr = req[t].block_nr + block[t]
        BY <1>2 DEF Command
    <2>2. req[t].kind = "cmpwrite" /\ block[t] < req[t].n_blocks
        BY <1>2 DEF Comparing
    <2>3. QED
        BY <1>1, <1>2, <2>1, <2>2
<1>3. CASE ~Comparing(t)
    BY <1>1, <1>3 DEF Command
<1>4. QED
    BY <1>2, <1>3

\* A call has a request from the moment it is made.
LEMMA HasRequest ==
    ASSUME TypeInv, NEW t \in Threads, CallOf(t), pc[t] # "idle"
    PROVE  req[t] \in Requests /\ block[t] \in Nat
BY DEF TypeInv, CallOf

LEMMA PrefixAgain ==
    ASSUME NEW s, NEW r, r.block_nr \in Nat, NEW v, NEW k \in Nat, NEW n \in Nat
    PROVE  /\ k <= n => Prefix(Prefix(s, r, k, v), r, n, v) = Prefix(s, r, n, v)
           /\ n <= k => Prefix(Prefix(s, r, k, v), r, n, v) = Prefix(s, r, k, v)
<1>1. \A b \in Blocks : Prefix(Prefix(s, r, k, v), r, n, v)[b] =
        IF b \in r.block_nr .. (r.block_nr + n - 1) THEN v
        ELSE IF b \in r.block_nr .. (r.block_nr + k - 1) THEN v ELSE s[b]
    BY DEF Prefix
<1>2. CASE k <= n
    <2>1. r.block_nr .. (r.block_nr + k - 1) \subseteq r.block_nr .. (r.block_nr + n - 1)
        BY <1>2
    <2>2. QED
        BY <2>1, <1>2 DEF Prefix
<1>3. CASE n <= k
    <2>1. r.block_nr .. (r.block_nr + n - 1) \subseteq r.block_nr .. (r.block_nr + k - 1)
        BY <1>3
    <2>2. QED
        BY <2>1, <1>3 DEF Prefix
<1>4. QED
    BY <1>2, <1>3

LEMMA PrefixNone ==
    ASSUME NEW s \in [Blocks -> Values], NEW r, r.block_nr \in Nat, NEW v PROVE Prefix(s, r, 0, v) = s
<1>1. r.block_nr .. (r.block_nr + 0 - 1) = {}
    OBVIOUS
<1>2. QED
    BY <1>1 DEF Prefix

LEMMA TrimmedAgain ==
    ASSUME NEW s, NEW X, NEW Y PROVE Trimmed(Trimmed(s, X), Y) = Trimmed(s, X \cup Y)
BY DEF Trimmed

\* What the server does with a request, whole or in part.
ServedWell(t) ==
    \/ Command(t).cmd = "sync" /\ to_client' = <<ReplyHeader(FALSE)>> /\ disk' = disk
    \/ Command(t).cmd = "read" /\ to_client' = <<ReplyHeader(FALSE), Found(t)>> /\ disk' = disk
    \/ /\ Command(t).cmd = "write" /\ to_client' = <<ReplyHeader(FALSE)>>
       /\ disk' = Prefix(disk, req[t], req[t].n_blocks, req[t].data)
    \/ /\ Command(t).cmd = "trim" /\ to_client' = <<ReplyHeader(FALSE)>>
       /\ \E X \in SUBSET Range(req[t]) : disk' = Trimmed(disk, X)

ServedInPart(t) ==
    /\ to_client' = <<ReplyHeader(TRUE)>>
    /\ \/ disk' = disk
       \/ /\ Command(t).cmd = "write"
          /\ \E n \in 0 .. req[t].n_blocks : disk' = Prefix(disk, req[t], n, req[t].data)

LEMMA ServeCases ==
    ASSUME TypeInv, NEW t \in Threads, Inv(t), Serve
    PROVE  /\ pc[t] = "reply" /\ to_server = Sent(t) /\ to_server' = <<>>
           /\ UNCHANGED <<fd, up, req, pc, block, buf, result, saved>>
           /\ ServedWell(t) \/ ServedInPart(t)
<1>1. to_server # <<>> /\ UNCHANGED <<fd, up, req, pc, block, buf, result, saved>>
    BY DEF Serve
<1>2. pc[t] \in {"payload", "reply"}
    BY <1>1 DEF Inv, StreamOf, TypeInv, Places
<1>3. req[t] \in Requests /\ block[t] \in Nat
    BY <1>2, HasRequest DEF Inv
<1> DEFINE c == Command(t)
<1>4. /\ c.is = "request" /\ c.cmd \in {"read", "write", "trim", "sync"}
      /\ c.cmd \in {"write", "trim"} => c.block_nr = req[t].block_nr /\ c.n_blocks = req[t].n_blocks
      /\ c.block_nr \in Nat /\ c.n_blocks \in Nat
    BY <1>3, CommandFacts
<1> HIDE DEF c
<1>5. pc[t] = "reply"
    <2>1. CASE pc[t] = "payload"
        <3>1. to_server = <<c>> /\ c.cmd = "write"
            BY <1>1, <2>1 DEF Inv, StreamOf, c
        <3>2. Len(to_server) > 1
            BY <1>4, <3>1, Parts DEF Serve
        <3>3. QED
            BY <3>1, <3>2, Parts
    <2>2. QED
        BY <1>2, <2>1
<1>6. to_server = Sent(t) /\ to_client = <<>>
    BY <1>1, <1>5 DEF Inv, StreamOf, Awaiting
<1>7. /\ Head(to_server) = c
      /\ to_server = IF c.cmd = "write" THEN <<c, Payload(t)>> ELSE <<c>>
    BY <1>6, Parts DEF Sent, c
<1>8. to_server' = <<>>
    <2>1. to_server' = IF c.cmd = "write" THEN Tail(Tail(to_server)) ELSE Tail(to_server)
        BY <1>4, <1>7 DEF Serve
    <2>2. QED
        BY <1>7, <2>1, Parts
<1> DEFINE Fill(n) == [b \in Blocks |-> IF b \in c.block_nr .. (c.block_nr + n - 1)
                                       THEN to_server[2].blocks[b - c.block_nr + 1] ELSE disk[b]]
<1>9. ASSUME NEW n \in 0 .. c.n_blocks, c.cmd = "write"
      PROVE  Fill(n) = Prefix(disk, req[t], n, req[t].data)
    <2>1. to_server[2].blocks = [i \in 1 .. req[t].n_blocks |-> req[t].data]
        <3>1. to_server[2] = Payload(t)
            BY <1>7, <1>9, Parts
        <3>2. QED
            BY <3>1 DEF Payload
    <2>2. c.block_nr = req[t].block_nr /\ c.n_blocks = req[t].n_blocks
        BY <1>4, <1>9
    <2>3. ASSUME NEW b \in c.block_nr .. (c.block_nr + n - 1)
          PROVE  to_server[2].blocks[b - c.block_nr + 1] = req[t].data
        <3>1. b - c.block_nr + 1 \in 1 .. req[t].n_blocks
            BY <1>4, <1>9, <2>2, <2>3
        <3>2. QED
            BY <2>1, <3>1
    <2>4. QED
        BY <2>2, <2>3 DEF Prefix
<1>10. \/ /\ \/ c.cmd \in {"read", "sync"} /\ UNCHANGED disk
             \/ c.cmd = "write" /\ disk' = Fill(c.n_blocks)
             \/ c.cmd = "trim" /\ \E S \in SUBSET Range(c) : disk' = Trimmed(disk, S)
          /\ to_client' = to_client \o <<ReplyHeader(FALSE)>>
               \o (IF c.cmd = "read" THEN <<[is |-> "data", blocks |-> Contents(c)]>> ELSE <<>>)
       \/ /\ \/ UNCHANGED disk
             \/ c.cmd = "write" /\ \E n \in 0 .. c.n_blocks : disk' = Fill(n)
          /\ to_client' = Append(to_client, ReplyHeader(TRUE))
    BY <1>4, <1>7 DEF Serve, Trimmed
<1> HIDE DEF Fill
<1>11. CASE /\ \/ c.cmd \in {"read", "sync"} /\ UNCHANGED disk
               \/ c.cmd = "write" /\ disk' = Fill(c.n_blocks)
               \/ c.cmd = "trim" /\ \E S \in SUBSET Range(c) : disk' = Trimmed(disk, S)
            /\ to_client' = to_client \o <<ReplyHeader(FALSE)>>
                 \o (IF c.cmd = "read" THEN <<[is |-> "data", blocks |-> Contents(c)]>> ELSE <<>>)
    <2>1. Found(t) = [is |-> "data", blocks |-> Contents(c)]
        BY DEF Found, c
    <2>2. \A x, y : <<>> \o <<x>> \o <<y>> = <<x, y>> /\ <<>> \o <<x>> \o <<>> = <<x>>
        BY Joined
    <2>3. to_client' = IF c.cmd = "read" THEN <<ReplyHeader(FALSE), Found(t)>> ELSE <<ReplyHeader(FALSE)>>
        BY <1>6, <1>11, <2>1, <2>2
    <2>4. CASE c.cmd \in {"read", "sync"} /\ UNCHANGED disk
        BY <1>1, <1>5, <1>6, <1>8, <2>3, <2>4 DEF ServedWell, c
    <2>5. CASE c.cmd = "write" /\ disk' = Fill(c.n_blocks)
        <3>1. c.n_blocks \in 0 .. c.n_blocks
            BY <1>4
        <3>2. disk' = Prefix(disk, req[t], req[t].n_blocks, req[t].data)
            BY <1>4, <1>9, <2>5, <3>1
        <3>3. QED
            BY <1>1, <1>5, <1>6, <1>8, <2>3, <2>5, <3>2 DEF ServedWell, c
    <2>6. CASE c.cmd = "trim" /\ \E S \in SUBSET Range(c) : disk' = Trimmed(disk, S)
        <3>1. Range(c) = Range(req[t])
            BY <1>4, <2>6 DEF Range
        <3>2. QED
            BY <1>1, <1>5, <1>6, <1>8, <2>3, <2>6, <3>1 DEF ServedWell, c
    <2>7. QED
        BY <1>1, <1>5, <1>6, <1>8, <1>11, <2>4, <2>5, <2>6
<1>12. CASE /\ \/ UNCHANGED disk
               \/ c.cmd = "write" /\ \E n \in 0 .. c.n_blocks : disk' = Fill(n)
            /\ to_client' = Append(to_client, ReplyHeader(TRUE))
    <2>1. to_client' = <<ReplyHeader(TRUE)>>
        BY <1>6, <1>12, Joined
    <2>2. CASE c.cmd = "write" /\ \E n \in 0 .. c.n_blocks : disk' = Fill(n)
        <3>1. PICK n \in 0 .. c.n_blocks : disk' = Fill(n)
            BY <2>2
        <3>2. disk' = Prefix(disk, req[t], n, req[t].data) /\ c.n_blocks = req[t].n_blocks
            BY <1>4, <1>9, <2>2, <3>1
        <3>3. QED
            BY <1>1, <1>5, <1>6, <1>8, <2>1, <2>2, <3>2 DEF ServedInPart, c
    <2>3. QED
        BY <1>1, <1>5, <1>6, <1>8, <1>12, <2>1, <2>2 DEF ServedInPart
<1>13. QED
    BY <1>10, <1>11, <1>12

-----------------------------------------------------------------------------
(* Steps inside invoke_nbd(). *)

LEMMA SameCall ==
    ASSUME NEW t \in Threads, UNCHANGED <<disk, req, block, saved>>
    PROVE  /\ Command(t)' = Command(t) /\ Sent(t)' = Sent(t) /\ Found(t)' = Found(t)
           /\ Carried(t)' <=> Carried(t)
           /\ Contents(Command(t))' = Contents(Command(t))
<1>1. Command(t)' = Command(t)
    BY DEF Command, Comparing
<1>2. Contents(Command(t))' = Contents(Command(t))
    BY <1>1 DEF Contents
<1>3. Found(t)' = Found(t)
    BY <1>2 DEF Found
<1>4. Payload(t)' = Payload(t)
    BY DEF Payload
<1>5. Sent(t)' = Sent(t)
    BY <1>1, <1>4 DEF Sent
<1>6. Carried(t)' <=> Carried(t)
    BY <1>1 DEF Carried, Prefix, Blocks
<1>7. QED
    BY <1>1, <1>2, <1>3, <1>5, <1>6

LEMMA SameDisk ==
    ASSUME NEW t \in Threads, CallOf(t), DiskOf(t), Working(t), Working(t)',
           UNCHANGED <<disk, req, block, saved, result>>
    PROVE  CallOf(t)' /\ DiskOf(t)'
<1>1. Command(t)' = Command(t)
    BY SameCall
<1>2. CallOf(t)'
    BY DEF CallOf, Working
<1>3. DiskOf(t)'
    <2>1. CASE Command(t).cmd = "write"
        BY <1>1, <2>1 DEF DiskOf, Prefix, Blocks
    <2>2. CASE Command(t).cmd = "trim"
        BY <1>1, <2>2 DEF DiskOf, Trimmed, Range, Blocks
    <2>3. CASE Command(t).cmd \notin {"write", "trim"}
        BY <1>1, <2>3 DEF DiskOf
    <2>4. QED
        BY <2>1, <2>2, <2>3
<1>4. QED
    BY <1>2, <1>3

\* The stream is empty and nothing has been answered.
LEMMA QuietStep ==
    ASSUME NEW t \in Threads, Inv(t), Working(t), UNCHANGED <<disk, req, block, saved, result, buf>>,
           pc'[t] \in {"connect", "dial", "send", "while"}, to_server' = <<>>, to_client' = <<>>,
           pc'[t] = "while" => ~fd', buf[t] = <<>>
    PROVE  Inv(t)'
<1>1. Working(t)'
    BY DEF Working
<1>2. CallOf(t)' /\ DiskOf(t)'
    BY <1>1, SameDisk DEF Inv
<1>3. StreamOf(t)'
    BY DEF StreamOf
<1>4. BufOf(t)'
    BY DEF BufOf, Complete
<1>5. QED
    BY <1>2, <1>3, <1>4 DEF Inv

LEMMA ConnectStep ==
    ASSUME TypeInv, NEW t \in Threads, Inv(t), Connect(t) PROVE TypeInv' /\ Inv(t)'
<1>1. /\ pc[t] = "connect" /\ pc'[t] = (IF fd THEN "send" ELSE "dial")
      /\ UNCHANGED <<disk, socket, req, block, buf, result, saved>>
    BY DEF Connect, Goto, TypeInv
<1>2. TypeInv'
    BY <1>1 DEF TypeInv, Connect, Goto, Places, socket
<1>3. Inv(t)'
    <2>1. to_server' = <<>> /\ to_client' = <<>> /\ buf[t] = <<>> /\ Working(t)
        BY <1>1 DEF Inv, StreamOf, BufOf, socket, Complete, Working
    <2>2. QED
        BY <1>1, <2>1, QuietStep
<1>4. QED
    BY <1>2, <1>3

LEMMA DialStep ==
    ASSUME TypeInv, NEW t \in Threads, Inv(t), Dial(t) PROVE TypeInv' /\ Inv(t)'
<1>1. pc[t] = "dial" /\ UNCHANGED <<disk, req, block, buf, result, saved>>
    BY DEF Dial
<1>2. buf[t] = <<>> /\ to_server = <<>> /\ to_client = <<>> /\ Working(t)
    BY <1>1 DEF Inv, StreamOf, BufOf, Complete, Working
<1>3. CASE UNCHANGED <<pc, socket>>
    <2>1. TypeInv'
        BY <1>1, <1>3 DEF TypeInv, socket
    <2>2. Inv(t)'
        BY <1>1, <1>2, <1>3, QuietStep DEF socket
    <2>3. QED
        BY <2>1, <2>2
<1>4. CASE /\ fd' = TRUE /\ up' = TRUE /\ to_server' = <<>> /\ to_client' = <<Hello>>
           /\ Goto(t, "hello")
    <2>1. pc'[t] = "hello"
        BY <1>4 DEF Goto, TypeInv
    <2>2. TypeInv'
        BY <1>1, <1>4 DEF TypeInv, Goto, Places
    <2>3. Working(t)'
        BY <2>1 DEF Working
    <2>4. CallOf(t)' /\ DiskOf(t)'
        BY <1>1, <1>2, <2>3, SameDisk DEF Inv
    <2>5. Hello' = Hello
        BY DEF Hello
    <2>6. StreamOf(t)'
        BY <1>4, <2>1, <2>5 DEF StreamOf
    <2>7. BufOf(t)'
        BY <1>1, <1>2, <2>1 DEF BufOf, Complete
    <2>8. QED
        BY <2>2, <2>4, <2>6, <2>7 DEF Inv
<1>5. QED
    BY <1>3, <1>4 DEF Dial

LEMMA HelloStep ==
    ASSUME TypeInv, NEW t \in Threads, Inv(t), ReadHello(t) PROVE TypeInv' /\ Inv(t)'
<1>1. pc[t] = "hello" /\ UNCHANGED <<disk, req, block, buf, result, saved>>
    BY DEF ReadHello
<1>2. buf[t] = <<>> /\ to_server = <<>> /\ to_client \in {<<>>, <<Hello>>} /\ Working(t)
    BY <1>1 DEF Inv, StreamOf, BufOf, Complete, Working
<1>3. CASE /\ Reads("hello") /\ to_client' = Tail(to_client)
           /\ Goto(t, "send") /\ UNCHANGED <<fd, up, to_server>>
    <2>1. pc'[t] = "send" /\ to_client' = <<>>
        BY <1>2, <1>3, Parts DEF Goto, TypeInv, Reads, Readable
    <2>2. TypeInv'
        BY <1>1, <1>3 DEF TypeInv, Goto, Places
    <2>3. Inv(t)'
        BY <1>1, <1>2, <1>3, <2>1, QuietStep
    <2>4. QED
        BY <2>2, <2>3
<1>4. CASE CloseSocket /\ Goto(t, "dial")
    <2>1. pc'[t] = "dial"
        BY <1>4 DEF Goto, TypeInv
    <2>2. TypeInv'
        BY <1>1, <1>4 DEF TypeInv, Goto, Places, CloseSocket
    <2>3. Inv(t)'
        BY <1>1, <1>2, <1>4, <2>1, QuietStep DEF CloseSocket
    <2>4. QED
        BY <2>2, <2>3
<1>5. QED
    BY <1>3, <1>4 DEF ReadHello

LEMMA WhileStep ==
    ASSUME TypeInv, NEW t \in Threads, Inv(t), While(t) PROVE TypeInv' /\ Inv(t)'
<1>1. /\ pc[t] = "while" /\ pc'[t] = (IF fd THEN "done" ELSE "connect") /\ Working(t)
      /\ UNCHANGED <<disk, socket, req, block, buf, result, saved>>
    BY DEF While, Goto, TypeInv, Working
<1>2. TypeInv'
    BY <1>1 DEF TypeInv, While, Goto, Places, socket
<1>3. to_server = <<>> /\ to_client = <<>> /\ UNCHANGED <<to_server, to_client, fd>>
    BY <1>1 DEF Inv, StreamOf, socket
<1>4. CASE ~fd
    <2>1. buf[t] = <<>>
        BY <1>1, <1>4 DEF Inv, BufOf, Complete
    <2>2. QED
        BY <1>1, <1>2, <1>3, <1>4, <2>1, QuietStep
<1>5. CASE fd
    <2>1. Working(t)' /\ pc'[t] = "done"
        BY <1>1, <1>5 DEF Working
    <2>2. CallOf(t)' /\ DiskOf(t)'
        BY <1>1, <2>1, SameDisk DEF Inv
    <2>3. StreamOf(t)'
        BY <1>3, <2>1 DEF StreamOf
    <2>4. /\ Carried(t)
          /\ buf[t] = IF Command(t).cmd = "read" THEN Contents(Command(t)) ELSE <<>>
        BY <1>1, <1>5 DEF Inv, BufOf, Complete
    <2>5. /\ Carried(t)'
          /\ buf'[t] = IF Command(t)'.cmd = "read" THEN Contents(Command(t))' ELSE <<>>
        BY <1>1, <2>4, SameCall
    <2>6. BufOf(t)'
        BY <1>3, <1>5, <2>1, <2>5 DEF BufOf, Complete
    <2>7. QED
        BY <1>2, <2>2, <2>3, <2>6 DEF Inv
<1>6. QED
    BY <1>4, <1>5 DEF TypeInv

\* A READ() or WRITE() failed.
LEMMA LostStep ==
    ASSUME TypeInv, NEW t \in Threads, Inv(t), LostConnection(t), Working(t), buf[t] = <<>>,
           UNCHANGED <<disk, req, block, result, saved>>
    PROVE  TypeInv' /\ Inv(t)'
<1>1. /\ pc'[t] = "while" /\ ~fd' /\ to_server' = <<>> /\ to_client' = <<>> /\ UNCHANGED buf
      /\ fd' \in BOOLEAN /\ up' \in BOOLEAN
    BY DEF LostConnection, CloseSocket, Goto, TypeInv
<1>2. TypeInv'
    BY <1>1 DEF TypeInv, LostConnection, Goto, Places
<1>3. QED
    BY <1>1, <1>2, QuietStep

LEMMA SendRequestStep ==
    ASSUME TypeInv, NEW t \in Threads, Inv(t), SendRequest(t) PROVE TypeInv' /\ Inv(t)'
<1> DEFINE next == IF Command(t).cmd = "write" THEN "payload" ELSE "reply"
<1>1. pc[t] = "send" /\ UNCHANGED <<disk, req, block, result, saved>>
    BY DEF SendRequest, Send
<1>2. buf[t] = <<>> /\ to_server = <<>> /\ to_client = <<>> /\ Working(t)
    BY <1>1 DEF Inv, StreamOf, BufOf, Complete, Working
<1>3. CASE ~up /\ LostConnection(t)
    BY <1>1, <1>2, <1>3, LostStep
<1>4. CASE /\ to_server' = IF up THEN Append(to_server, Command(t)) ELSE to_server
           /\ Goto(t, next) /\ UNCHANGED <<fd, up, to_client, buf>>
    <2>1. pc'[t] = next
        BY <1>4 DEF Goto, TypeInv
    <2>2. TypeInv'
        BY <1>1, <1>4 DEF TypeInv, Goto, Places
    <2>3. Working(t)'
        BY <2>1 DEF Working
    <2>4. CallOf(t)' /\ DiskOf(t)'
        BY <1>1, <1>2, <2>3, SameDisk DEF Inv
    <2>5. to_server' = IF up THEN <<Command(t)>> ELSE <<>>
        BY <1>2, <1>4, Joined
    <2>6. Command(t)' = Command(t) /\ Sent(t)' = Sent(t)
        BY <1>1, SameCall
    <2>7. pc'[t] = "reply" => Awaiting(t)'
        <3>1. Command(t).cmd # "write" => Sent(t) = <<Command(t)>>
            BY DEF Sent
        <3>2. pc'[t] = "reply" => Command(t).cmd # "write"
            BY <2>1
        <3>3. QED
            BY <1>2, <1>4, <2>5, <2>6, <3>1, <3>2 DEF Awaiting
    <2>8. StreamOf(t)'
        BY <1>2, <1>4, <2>1, <2>5, <2>6, <2>7 DEF StreamOf
    <2>9. BufOf(t)'
        BY <1>2, <1>4, <2>1 DEF BufOf, Complete
    <2>10. QED
        BY <2>2, <2>4, <2>8, <2>9 DEF Inv
<1>5. QED
    BY <1>3, <1>4 DEF SendRequest, Send

LEMMA SendPayloadStep ==
    ASSUME TypeInv, NEW t \in Threads, Inv(t), SendPayload(t) PROVE TypeInv' /\ Inv(t)'
<1>1. pc[t] = "payload" /\ UNCHANGED <<disk, req, block, result, saved>>
    BY DEF SendPayload, Send
<1>2. /\ buf[t] = <<>> /\ to_client = <<>> /\ Working(t) /\ Command(t).cmd = "write"
      /\ to_server = IF up THEN <<Command(t)>> ELSE <<>>
    BY <1>1 DEF Inv, StreamOf, BufOf, Complete, Working
<1>3. CASE ~up /\ LostConnection(t)
    BY <1>1, <1>2, <1>3, LostStep
<1>4. CASE /\ to_server' = IF up THEN Append(to_server, Payload(t)) ELSE to_server
           /\ Goto(t, "reply") /\ UNCHANGED <<fd, up, to_client, buf>>
    <2>1. pc'[t] = "reply"
        BY <1>4 DEF Goto, TypeInv
    <2>2. TypeInv'
        BY <1>1, <1>4 DEF TypeInv, Goto, Places
    <2>3. Working(t)'
        BY <2>1 DEF Working
    <2>4. CallOf(t)' /\ DiskOf(t)'
        BY <1>1, <1>2, <2>3, SameDisk DEF Inv
    <2>5. Sent(t) = <<Command(t), Payload(t)>>
        BY <1>2 DEF Sent
    <2>6. to_server' = IF up THEN Sent(t) ELSE <<>>
        BY <1>2, <1>4, <2>5, Joined
    <2>7. Sent(t)' = Sent(t)
        BY <1>1, SameCall
    <2>8. Awaiting(t)'
        BY <1>2, <1>4, <2>6, <2>7 DEF Awaiting
    <2>9. StreamOf(t)'
        BY <2>1, <2>8 DEF StreamOf
    <2>10. BufOf(t)'
        BY <1>2, <1>4, <2>1 DEF BufOf, Complete
    <2>11. QED
        BY <2>2, <2>4, <2>9, <2>10 DEF Inv
<1>5. QED
    BY <1>3, <1>4 DEF SendPayload, Send, Payload

\* What a read finds is blocks.
LEMMA ContentsType ==
    ASSUME TypeInv, NEW t \in Threads, req[t] \in Requests PROVE Contents(Command(t)) \in Seq(Values)
<1> DEFINE m == Command(t)
<1>1. block[t] \in Nat
    BY DEF TypeInv
<1>2. m.block_nr \in Nat /\ m.n_blocks \in Nat /\ m.block_nr + m.n_blocks <= NBlocks /\ NBlocks \in Nat
    BY <1>1, CommandFacts, NbdAssumption
<1> HIDE DEF m
<1>3. \A i \in 1 .. m.n_blocks : m.block_nr + i - 1 \in Blocks
    BY <1>2 DEF Blocks
<1>4. \A i \in 1 .. m.n_blocks : disk[m.block_nr + i - 1] \in Values
    BY <1>3 DEF TypeInv
<1>5. Contents(m) \in [1 .. m.n_blocks -> Values]
    BY <1>4 DEF Contents
<1>6. QED
    BY <1>2, <1>5 DEF m

\* The answer to a request that is not a read, or the header of one.
LEMMA ReplyStep ==
    ASSUME TypeInv, NEW t \in Threads, Inv(t), pc[t] = "reply", Reads("reply"), ~Head(to_client).error,
           to_client' = Tail(to_client),
           Goto(t, IF Command(t).cmd = "read" THEN "data" ELSE "while"),
           UNCHANGED <<disk, req, saved, fd, up, to_server, block, buf, result>>
    PROVE  TypeInv' /\ Inv(t)'
<1>1. buf[t] = <<>> /\ Awaiting(t) /\ Working(t) /\ fd
    BY DEF Inv, StreamOf, BufOf, Complete, Working, Reads, Readable
<1>2. ReplyHeader(TRUE).error
    BY DEF ReplyHeader
<1>3. /\ to_server = <<>>
      /\ \/ to_client = <<ReplyHeader(FALSE)>> /\ Carried(t)
         \/ to_client = <<ReplyHeader(FALSE), Found(t)>> /\ Command(t).cmd = "read"
    <2>1. to_client # <<>>
        BY DEF Reads, Readable
    <2>2. to_client # <<ReplyHeader(TRUE)>>
        <3>1. Head(<<ReplyHeader(TRUE)>>) = ReplyHeader(TRUE)
            BY Parts
        <3>2. QED
            BY <1>2, <3>1
    <2>3. QED
        BY <1>1, <2>1, <2>2 DEF Awaiting
<1>4. to_client' \in {<<>>, <<Found(t)>>} /\ (Command(t).cmd # "read" => to_client' = <<>> /\ Carried(t))
    <2>1. \A x, y : Tail(<<x>>) = <<>> /\ Tail(<<x, y>>) = <<y>>
        BY Parts
    <2>2. CASE to_client = <<ReplyHeader(FALSE)>> /\ Carried(t)
        BY <2>1, <2>2
    <2>3. CASE to_client = <<ReplyHeader(FALSE), Found(t)>> /\ Command(t).cmd = "read"
        BY <2>1, <2>3
    <2>4. QED
        BY <1>3, <2>2, <2>3
<1>5. pc'[t] = IF Command(t).cmd = "read" THEN "data" ELSE "while"
    BY DEF Goto, TypeInv
<1>6. TypeInv'
    BY DEF TypeInv, Goto, Places
<1>7. Working(t)'
    BY <1>5 DEF Working
<1>8. CallOf(t)' /\ DiskOf(t)'
    BY <1>1, <1>7, SameDisk DEF Inv
<1>9. Command(t)' = Command(t) /\ Found(t)' = Found(t) /\ (Carried(t)' <=> Carried(t))
    BY SameCall
<1>10. StreamOf(t)'
    BY <1>3, <1>4, <1>5, <1>9 DEF StreamOf
<1>11. BufOf(t)'
    BY <1>1, <1>4, <1>5, <1>9 DEF BufOf, Complete
<1>12. QED
    BY <1>6, <1>8, <1>10, <1>11 DEF Inv

LEMMA DataStep ==
    ASSUME TypeInv, NEW t \in Threads, Inv(t), ReadData(t) PROVE TypeInv' /\ Inv(t)'
<1>1. pc[t] = "data" /\ UNCHANGED <<disk, req, block, result, saved>>
    BY DEF ReadData
<1>2. /\ buf[t] = <<>> /\ to_server = <<>> /\ to_client \in {<<>>, <<Found(t)>>} /\ Working(t)
      /\ Command(t).cmd = "read"
    BY <1>1 DEF Inv, StreamOf, BufOf, Complete, Working
<1>3. CASE LostConnection(t)
    BY <1>1, <1>2, <1>3, LostStep
<1>4. CASE /\ Readable
           /\ buf' = [buf EXCEPT ![t] =
                IF Head(to_client).is = "data" THEN Head(to_client).blocks ELSE <<>>]
           /\ to_client' = Tail(to_client) /\ Goto(t, "while") /\ UNCHANGED <<fd, up, to_server>>
    <2>1. pc'[t] = "while" /\ fd'
        BY <1>4 DEF Goto, TypeInv, Readable
    <2>2. Head(to_client) = Found(t) /\ to_client' = <<>>
        BY <1>2, <1>4, Parts DEF Readable
    <2>3. Found(t).is = "data" /\ Found(t).blocks = Contents(Command(t))
        BY DEF Found
    <2>4. buf' = [buf EXCEPT ![t] = Contents(Command(t))]
        BY <1>4, <2>2, <2>3
    <2>5. Contents(Command(t)) \in Seq(Values)
        BY <1>1, HasRequest, ContentsType DEF Inv
    <2>6. TypeInv'
        BY <1>1, <1>4, <2>4, <2>5 DEF TypeInv, Goto, Places
    <2>7. Working(t)'
        BY <2>1 DEF Working
    <2>8. CallOf(t)' /\ DiskOf(t)'
        BY <1>1, <1>2, <2>7, SameDisk DEF Inv
    <2>9. Command(t)' = Command(t) /\ Contents(Command(t))' = Contents(Command(t))
        BY <1>1, SameCall
    <2>10. StreamOf(t)'
        BY <1>2, <1>4, <2>1, <2>2 DEF StreamOf
    <2>11. buf'[t] = Contents(Command(t))
        BY <2>4 DEF TypeInv
    <2>12. Carried(t)'
        BY <1>2, <2>9 DEF Carried
    <2>13. BufOf(t)'
        BY <1>2, <2>1, <2>9, <2>11, <2>12 DEF BufOf, Complete
    <2>14. QED
        BY <2>6, <2>8, <2>10, <2>13 DEF Inv
<1>5. QED
    BY <1>3, <1>4 DEF ReadData

-----------------------------------------------------------------------------
(* The server and the network. *)

\* Sending a request again adds nothing that its blocks may not hold already.
LEMMA ServeDisk ==
    ASSUME TypeInv, NEW t \in Threads, Inv(t), Serve
    PROVE  disk' \in [Blocks -> Values] /\ DiskOf(t)' /\ (ServedWell(t) => Carried(t)')
<1>1. /\ pc[t] = "reply" /\ UNCHANGED <<req, pc, block, saved>>
      /\ ServedWell(t) \/ ServedInPart(t)
    BY ServeCases
<1>2. req[t] \in Requests /\ block[t] \in Nat /\ Working(t)
    BY <1>1, HasRequest DEF Inv, Working
<1>3. /\ req[t].block_nr \in Nat /\ req[t].n_blocks \in Nat /\ req[t].data \in Values
      /\ Zero \in Values /\ Command(t).cmd \in {"read", "write", "trim", "sync"}
      /\ disk \in [Blocks -> Values]
    BY <1>2, RequestFacts, CommandFacts, NbdAssumption DEF TypeInv
<1>4. Command(t)' = Command(t)
    BY <1>1 DEF Command, Comparing
<1>5. /\ \A n : Prefix(saved[t], req[t], n, req[t].data)' = Prefix(saved[t], req[t], n, req[t].data)
      /\ \A X : Trimmed(saved[t], X)' = Trimmed(saved[t], X)
      /\ Range(req[t])' = Range(req[t])
    BY <1>1 DEF Prefix, Trimmed, Blocks, Range
<1>6. CASE disk' = disk /\ Command(t).cmd # "write"
    <2>1. DiskOf(t)'
        BY <1>1, <1>2, <1>4, <1>5, <1>6 DEF DiskOf, Inv
    <2>2. Carried(t)'
        BY <1>4, <1>6 DEF Carried
    <2>3. QED
        BY <1>3, <1>6, <2>1, <2>2
<1>7. CASE disk' = disk /\ ~ServedWell(t)
    <2>1. DiskOf(t)'
        BY <1>1, <1>2, <1>4, <1>5, <1>7 DEF DiskOf, Inv
    <2>2. QED
        BY <1>3, <1>7, <2>1
<1>8. ASSUME NEW n \in 0 .. req[t].n_blocks, Command(t).cmd = "write",
             disk' = Prefix(disk, req[t], n, req[t].data)
      PROVE  /\ disk' \in [Blocks -> Values] /\ DiskOf(t)'
             /\ n = req[t].n_blocks => Carried(t)'
    <2>1. PICK k \in 0 .. req[t].n_blocks : disk = Prefix(saved[t], req[t], k, req[t].data)
        BY <1>2, <1>8 DEF Inv, DiskOf
    <2>2. k \in Nat /\ n \in Nat /\ (k <= n \/ n <= k) /\ k <= req[t].n_blocks
        BY <1>3, <2>1
    <2>3. /\ k <= n => disk' = Prefix(saved[t], req[t], n, req[t].data)
          /\ n <= k => disk' = Prefix(saved[t], req[t], k, req[t].data)
        BY <1>3, <1>8, <2>1, <2>2, PrefixAgain
    <2>4. \E j \in 0 .. req[t].n_blocks : disk' = Prefix(saved[t], req[t], j, req[t].data)
        BY <2>1, <2>2, <2>3
    <2>5. DiskOf(t)'
        BY <1>1, <1>4, <1>5, <1>8, <2>4 DEF DiskOf
    <2>6. n = req[t].n_blocks => Carried(t)'
        <3>1. n = req[t].n_blocks => disk' = Prefix(saved[t], req[t], req[t].n_blocks, req[t].data)
            BY <2>2, <2>3
        <3>2. QED
            BY <1>1, <1>5, <3>1 DEF Carried
    <2>7. disk' \in [Blocks -> Values]
        BY <1>3, <1>8 DEF Prefix
    <2>8. QED
        BY <2>5, <2>6, <2>7
<1>9. ASSUME NEW X \in SUBSET Range(req[t]), Command(t).cmd = "trim", disk' = Trimmed(disk, X)
      PROVE  disk' \in [Blocks -> Values] /\ DiskOf(t)' /\ Carried(t)'
    <2>1. PICK Y \in SUBSET Range(req[t]) : disk = Trimmed(saved[t], Y)
        BY <1>2, <1>9 DEF Inv, DiskOf
    <2>2. disk' = Trimmed(saved[t], Y \cup X) /\ Y \cup X \in SUBSET Range(req[t])
        BY <1>9, <2>1, TrimmedAgain
    <2>3. DiskOf(t)'
        BY <1>1, <1>4, <1>5, <1>9, <2>2 DEF DiskOf
    <2>4. disk' \in [Blocks -> Values]
        BY <1>3, <1>9 DEF Trimmed
    <2>5. Carried(t)'
        BY <1>4, <1>9 DEF Carried
    <2>6. QED
        BY <2>3, <2>4, <2>5
<1>10. CASE ServedWell(t)
    <2>1. req[t].n_blocks \in 0 .. req[t].n_blocks
        BY <1>3
    <2>2. QED
        BY <1>6, <1>8, <1>9, <1>10, <2>1 DEF ServedWell
<1>11. CASE ServedInPart(t) /\ ~ServedWell(t)
    BY <1>7, <1>8, <1>11 DEF ServedInPart
<1>12. QED
    BY <1>1, <1>10, <1>11

LEMMA ServeStep ==
    ASSUME TypeInv, NEW t \in Threads, Inv(t), Serve PROVE TypeInv' /\ Inv(t)'
<1>1. /\ pc[t] = "reply" /\ to_server' = <<>>
      /\ UNCHANGED <<fd, up, req, pc, block, buf, result, saved>>
      /\ ServedWell(t) \/ ServedInPart(t)
    BY ServeCases
<1>2. disk' \in [Blocks -> Values] /\ DiskOf(t)' /\ (ServedWell(t) => Carried(t)')
    BY ServeDisk
<1>3. TypeInv'
    BY <1>1, <1>2 DEF TypeInv
<1>4. CallOf(t)'
    BY <1>1 DEF Inv, CallOf, Working
<1>5. Command(t)' = Command(t)
    BY <1>1 DEF Command, Comparing
<1>6. Awaiting(t)'
    <2>1. \A e : ReplyHeader(e)' = ReplyHeader(e)
        BY DEF ReplyHeader
    <2>2. CASE ServedInPart(t)
        BY <1>1, <2>1, <2>2 DEF ServedInPart, Awaiting
    <2>3. CASE ServedWell(t) /\ to_client' = <<ReplyHeader(FALSE)>>
        BY <1>1, <1>2, <2>1, <2>3 DEF Awaiting
    <2>4. CASE /\ Command(t).cmd = "read" /\ to_client' = <<ReplyHeader(FALSE), Found(t)>>
               /\ disk' = disk
        <3>1. Found(t)' = Found(t)
            BY <1>1, <2>4, SameCall
        <3>2. QED
            BY <1>1, <1>5, <2>1, <2>4, <3>1 DEF Awaiting
    <2>5. QED
        BY <1>1, <2>2, <2>3, <2>4 DEF ServedWell
<1>7. StreamOf(t)'
    BY <1>1, <1>6 DEF StreamOf
<1>8. BufOf(t)'
    BY <1>1 DEF Inv, BufOf, Complete, Working
<1>9. QED
    BY <1>2, <1>3, <1>4, <1>7, <1>8 DEF Inv

LEMMA LoseStep ==
    ASSUME TypeInv, NEW t \in Threads, Inv(t), Lose PROVE TypeInv' /\ Inv(t)'
<1>1. /\ UNCHANGED <<disk, fd, req, pc, block, buf, result, saved>> /\ up' = FALSE /\ to_server' = <<>>
      /\ \E n \in 0 .. Len(to_client) : to_client' = SubSeq(to_client, 1, n)
    BY DEF Lose
<1>2. TypeInv'
    BY <1>1 DEF TypeInv
<1>3. /\ Command(t)' = Command(t) /\ Found(t)' = Found(t) /\ (Carried(t)' <=> Carried(t))
      /\ Contents(Command(t))' = Contents(Command(t)) /\ Hello' = Hello
      /\ \A e : ReplyHeader(e)' = ReplyHeader(e)
    BY <1>1, SameCall DEF Hello, ReplyHeader
<1>4. CallOf(t)'
    BY <1>1 DEF Inv, CallOf, Working
<1>5. DiskOf(t)'
    <2>1. Working(t)' <=> Working(t)
        BY <1>1 DEF Working
    <2>2. CASE Working(t)
        BY <1>1, <2>1, <2>2, SameDisk DEF Inv
    <2>3. CASE ~Working(t)
        BY <2>1, <2>3 DEF DiskOf
    <2>4. QED
        BY <2>2, <2>3
<1>6. BufOf(t)'
    BY <1>1, <1>3 DEF Inv, BufOf, Complete, Working
<1>7. /\ to_client = <<>> => to_client' = <<>>
      /\ \A x : to_client = <<x>> => to_client' \in {<<>>, <<x>>}
      /\ \A x, y : to_client = <<x, y>> => to_client' \in {<<>>, <<x>>, <<x, y>>}
    <2>1. PICK n \in 0 .. Len(to_client) : to_client' = SubSeq(to_client, 1, n)
        BY <1>1
    <2>2. ASSUME to_client = <<>> PROVE to_client' = <<>>
        BY <2>1, <2>2, Cut
    <2>3. ASSUME NEW x, to_client = <<x>> PROVE to_client' \in {<<>>, <<x>>}
        BY <2>1, <2>3, Cut
    <2>4. ASSUME NEW x, NEW y, to_client = <<x, y>> PROVE to_client' \in {<<>>, <<x>>, <<x, y>>}
        BY <2>1, <2>4, Cut
    <2>5. QED
        BY <2>2, <2>3, <2>4
<1>8. pc[t] = "reply" => Awaiting(t)'
    <2>1. SUFFICES ASSUME pc[t] = "reply" PROVE Awaiting(t)'
        OBVIOUS
    <2>2. Awaiting(t)
        BY <2>1 DEF Inv, StreamOf
    <2>3. CASE to_client = <<>>
        BY <1>1, <1>7, <2>3 DEF Awaiting
    <2>4. CASE to_client = <<ReplyHeader(TRUE)>>
        BY <1>1, <1>3, <1>7, <2>4 DEF Awaiting
    <2>5. CASE to_client = <<ReplyHeader(FALSE)>> /\ Carried(t)
        BY <1>1, <1>3, <1>7, <2>5 DEF Awaiting
    <2>6. CASE to_client = <<ReplyHeader(FALSE), Found(t)>> /\ Command(t).cmd = "read"
        <3>1. Carried(t)
            BY <2>6 DEF Carried
        <3>2. to_client' \in {<<>>, <<ReplyHeader(FALSE)>>, <<ReplyHeader(FALSE), Found(t)>>}
            BY <1>7, <2>6
        <3>3. QED
            BY <1>1, <1>3, <2>6, <3>1, <3>2 DEF Awaiting
    <2>7. QED
        BY <2>2, <2>3, <2>4, <2>5, <2>6 DEF Awaiting
<1>9. pc[t] = "data" => to_client' \in {<<>>, <<Found(t)>>}
    BY <1>7 DEF Inv, StreamOf
<1>10. pc[t] = "hello" => to_client' \in {<<>>, <<Hello>>}
    BY <1>7 DEF Inv, StreamOf
<1>11. StreamOf(t)'
    BY <1>1, <1>3, <1>7, <1>8, <1>9, <1>10 DEF Inv, StreamOf
<1>12. QED
    BY <1>2, <1>4, <1>5, <1>6, <1>11 DEF Inv

-----------------------------------------------------------------------------
(* The calls. *)

LEMMA CallStep ==
    ASSUME TypeInv, NEW t \in Threads, Inv(t), NEW r \in Requests, Call(t, r) PROVE TypeInv' /\ Inv(t)'
<1>1. /\ pc[t] = "idle" /\ pc'[t] = "lock" /\ req'[t] = r
      /\ UNCHANGED <<disk, socket, block, buf, result, saved>>
    BY DEF Call, Goto, TypeInv
<1>2. TypeInv'
    BY <1>1 DEF TypeInv, Call, Goto, Places, socket
<1>3. r # NoCall
    BY RequestFacts
<1>4. CallOf(t)'
    BY <1>1, <1>3 DEF Inv, CallOf, Working
<1>5. DiskOf(t)'
    BY <1>1 DEF DiskOf, Working
<1>6. StreamOf(t)'
    BY <1>1 DEF Inv, StreamOf, socket
<1>7. BufOf(t)'
    BY <1>1 DEF Inv, BufOf, Working, Complete
<1>8. QED
    BY <1>2, <1>4, <1>5, <1>6, <1>7 DEF Inv

\* Nothing has been done to the disk yet.
LEMMA FreshDisk ==
    ASSUME NEW t \in Threads, NEW r \in Requests, NEW d \in [Blocks -> Values]
    PROVE  /\ \E n \in 0 .. r.n_blocks : d = Prefix(d, r, n, r.data)
           /\ \E X \in SUBSET Range(r) : d = Trimmed(d, X)
<1>1. r.block_nr \in Nat /\ r.n_blocks \in Nat
    BY RequestFacts
<1>2. d = Prefix(d, r, 0, r.data) /\ 0 \in 0 .. r.n_blocks
    BY <1>1, PrefixNone
<1>3. d = Trimmed(d, {})
    BY DEF Trimmed
<1>4. QED
    BY <1>2, <1>3

LEMMA LockStep ==
    ASSUME TypeInv, NEW t \in Threads, Inv(t), LockRange(t) PROVE TypeInv' /\ Inv(t)'
<1>1. /\ pc[t] = "lock" /\ pc'[t] = "connect" /\ saved'[t] = disk
      /\ UNCHANGED <<disk, socket, req, block, buf, result>>
    BY DEF LockRange, Goto, TypeInv
<1>2. TypeInv'
    BY <1>1 DEF TypeInv, LockRange, Goto, Places, socket
<1>3. req[t] \in Requests /\ block[t] = 0
    BY <1>1, HasRequest DEF Inv, CallOf
<1>4. req[t].block_nr \in Nat /\ req[t].n_blocks \in Nat /\ disk \in [Blocks -> Values]
    BY <1>3, RequestFacts DEF TypeInv
<1>5. CallOf(t)'
    <2>1. req[t].block_nr .. (req[t].block_nr + 0 - 1) = {}
        BY <1>4
    <2>2. QED
        BY <1>1, <1>3, <1>4, <2>1 DEF Inv, CallOf, Working
<1>6. DiskOf(t)'
    <2>1. /\ \E n \in 0 .. req[t].n_blocks : disk = Prefix(disk, req[t], n, req[t].data)
          /\ \E X \in SUBSET Range(req[t]) : disk = Trimmed(disk, X)
        BY <1>3, <1>4, FreshDisk
    <2>2. QED
        BY <1>1, <2>1 DEF DiskOf, Prefix, Trimmed, Range, Blocks
<1>7. StreamOf(t)'
    BY <1>1 DEF Inv, StreamOf, socket
<1>8. BufOf(t)'
    BY <1>1 DEF Inv, BufOf, Working, Complete
<1>9. QED
    BY <1>2, <1>5, <1>6, <1>7, <1>8 DEF Inv

LEMMA ReturnStep ==
    ASSUME TypeInv, NEW t \in Threads, Inv(t), Return(t) PROVE TypeInv' /\ Inv(t)'
<1>1. /\ pc[t] = "unlock" /\ pc'[t] = "idle" /\ req'[t] = NoCall /\ block'[t] = 0 /\ buf'[t] = <<>>
      /\ result'[t] = "none" /\ UNCHANGED <<disk, socket>>
    BY DEF Return, Goto, TypeInv
<1>2. TypeInv'
    <2>1. [b \in Blocks |-> Zero] \in [Blocks -> Values]
        BY NbdAssumption
    <2>2. <<>> \in Seq(Values)
        OBVIOUS
    <2> DEFINE z == [b \in Blocks |-> Zero]
               e == <<>>
    <2>3. saved' = [saved EXCEPT ![t] = z] /\ buf' = [buf EXCEPT ![t] = e]
        BY DEF Return
    <2> HIDE DEF z, e
    <2>4. saved' \in [Threads -> [Blocks -> Values]] /\ buf' \in [Threads -> Seq(Values)]
        BY <2>1, <2>2, <2>3 DEF TypeInv, z, e
    <2>5. QED
        BY <1>1, <2>4 DEF TypeInv, Return, Goto, Places, socket
<1>3. CallOf(t)' /\ DiskOf(t)'
    BY <1>1 DEF CallOf, DiskOf, Working
<1>4. StreamOf(t)'
    BY <1>1 DEF Inv, StreamOf, socket
<1>5. BufOf(t)'
    BY <1>1 DEF BufOf, Working, Complete
<1>6. QED
    BY <1>2, <1>3, <1>4, <1>5 DEF Inv

\* What cmpwrite() has read is what was on the disk when it got its lock.
LEMMA ComparedBlock ==
    ASSUME TypeInv, NEW t \in Threads, Inv(t), Complete(t), Comparing(t), NEW v
    PROVE  /\ disk = saved[t] /\ req[t].block_nr + block[t] \in Range(req[t])
           /\ buf[t] = <<v>> <=> saved[t][req[t].block_nr + block[t]] = v
<1>1. Working(t) /\ req[t] \in Requests /\ block[t] \in Nat
    BY HasRequest DEF Inv, Complete, Working
<1>2. req[t].block_nr \in Nat /\ req[t].n_blocks \in Nat
    BY <1>1, RequestFacts
<1>3. /\ Command(t).cmd = "read" /\ Command(t).n_blocks = 1
      /\ Command(t).block_nr = req[t].block_nr + block[t] /\ block[t] < req[t].n_blocks
    BY <1>1, CommandFacts
<1>4. disk = saved[t]
    BY <1>1, <1>3 DEF Inv, DiskOf
<1>5. buf[t] = [i \in 1 .. 1 |-> disk[req[t].block_nr + block[t] + i - 1]]
    BY <1>3 DEF Inv, BufOf, Contents
<1> DEFINE x == disk[req[t].block_nr + block[t]]
<1>6. buf[t] \in Seq({x}) /\ Len(buf[t]) = 1 /\ buf[t][1] = x
    <2>1. \A i \in 1 .. 1 : req[t].block_nr + block[t] + i - 1 = req[t].block_nr + block[t]
        BY <1>1, <1>2
    <2>2. buf[t] = [i \in 1 .. 1 |-> x]
        BY <1>5, <2>1
    <2> HIDE DEF x
    <2>3. QED
        BY <2>2
<1>7. buf[t] = <<x>>
    <2> HIDE DEF x
    <2>1. QED
        BY <1>6, IsOne
<1>8. req[t].block_nr + block[t] \in Range(req[t])
    BY <1>1, <1>2, <1>3 DEF Range
<1>9. buf[t] = <<v>> <=> x = v
    <2> HIDE DEF x
    <2>1. <<x>> = <<v>> <=> x = v
        OBVIOUS
    <2>2. QED
        BY <1>7, <2>1
<1>10. QED
    BY <1>4, <1>8, <1>9

LEMMA InvokedStep ==
    ASSUME TypeInv, NEW t \in Threads, Inv(t), NEW ok \in BOOLEAN, Invoked(t, ok), ok => Complete(t),
           pc[t] \in {"done", "reply"}, to_server' = <<>>, to_client' = <<>>,
           UNCHANGED <<disk, req, saved, fd, up>>
    PROVE  TypeInv' /\ Inv(t)'
<1>1. req[t] \in Requests /\ block[t] \in Nat /\ Working(t)
    BY HasRequest DEF Inv, Working
<1>2. /\ req[t] # NoCall /\ req[t].block_nr \in Nat /\ req[t].n_blocks \in Nat
      /\ disk \in [Blocks -> Values]
    BY <1>1, RequestFacts DEF TypeInv
<1>3. CASE /\ Comparing(t) /\ ok /\ buf[t] = <<req[t].compare>>
           /\ block' = [block EXCEPT ![t] = @ + 1]
           /\ buf' = [buf EXCEPT ![t] = <<>>]
           /\ Goto(t, "connect")
           /\ UNCHANGED result
    <2>1. pc'[t] = "connect" /\ block'[t] = block[t] + 1 /\ buf'[t] = <<>> /\ Working(t)'
        BY <1>3 DEF Goto, TypeInv, Working
    <2>2. TypeInv'
        <3>1. block' \in [Threads -> Nat]
            BY <1>1, <1>3 DEF TypeInv
        <3>2. buf' \in [Threads -> Seq(Values)]
            <4>1. <<>> \in Seq(Values)
                OBVIOUS
            <4> DEFINE e == <<>>
            <4>2. buf' = [buf EXCEPT ![t] = e] /\ e \in Seq(Values)
                BY <1>3, <4>1
            <4> HIDE DEF e
            <4>3. QED
                BY <4>2 DEF TypeInv
        <3>3. QED
            BY <1>3, <3>1, <3>2 DEF TypeInv, Goto, Places
    <2>3. disk = saved[t] /\ saved[t][req[t].block_nr + block[t]] = req[t].compare
        BY <1>3, ComparedBlock
    <2>4. req[t].kind = "cmpwrite" /\ block[t] < req[t].n_blocks
        BY <1>3 DEF Comparing
    <2>5. CallOf(t)'
        <3>1. \A b \in req[t].block_nr .. (req[t].block_nr + block[t] - 1) : saved[t][b] = req[t].compare
            BY <1>1 DEF Inv, CallOf
        <3>2. ASSUME NEW b \in req[t].block_nr .. (req[t].block_nr + (block[t] + 1) - 1)
              PROVE  saved[t][b] = req[t].compare
            <4>1. \/ b \in req[t].block_nr .. (req[t].block_nr + block[t] - 1)
                  \/ b = req[t].block_nr + block[t]
                BY <1>1, <1>2, <3>2
            <4>2. QED
                BY <2>3, <3>1, <4>1
        <3>3. result[t] = "none"
            BY <1>1 DEF Inv, CallOf, Working
        <3>4. block[t] + 1 <= req[t].n_blocks
            BY <1>1, <1>2, <2>4
        <3>5. QED
            BY <1>2, <1>3, <2>1, <2>4, <3>2, <3>3, <3>4 DEF CallOf
    <2>6. DiskOf(t)'
        <3>1. Command(t)'.cmd \in {"read", "write"}
            BY <2>4 DEF Command, Comparing
        <3>2. \E n \in 0 .. req[t].n_blocks : disk = Prefix(disk, req[t], n, req[t].data)
            BY <1>1, <1>2, FreshDisk
        <3>3. QED
            BY <2>3, <3>1, <3>2 DEF DiskOf, Prefix, Blocks
    <2>7. StreamOf(t)'
        BY <2>1 DEF StreamOf
    <2>8. BufOf(t)'
        BY <2>1 DEF BufOf, Working, Complete
    <2>9. QED
        BY <2>2, <2>5, <2>6, <2>7, <2>8 DEF Inv
<1>4. ASSUME Goto(t, "unlock"),
             \E res \in {"ok", "failed", "mismatch", "read_error", "write_error"} :
                result' = [result EXCEPT ![t] = res],
             buf' = buf \/ buf' = [buf EXCEPT ![t] = <<>>],
             UNCHANGED block
      PROVE  TypeInv' /\ Inv(t)'
    <2>1. pc'[t] = "unlock" /\ result'[t] # "none"
        BY <1>4 DEF Goto, TypeInv
    <2>2. TypeInv'
        <3>1. buf' \in [Threads -> Seq(Values)]
            <4>1. <<>> \in Seq(Values)
                OBVIOUS
            <4> DEFINE e == <<>>
            <4>2. (buf' = buf \/ buf' = [buf EXCEPT ![t] = e]) /\ e \in Seq(Values)
                BY <1>4, <4>1
            <4> HIDE DEF e
            <4>3. QED
                BY <4>2 DEF TypeInv
        <3>2. QED
            BY <1>4, <3>1 DEF TypeInv, Goto, Places
    <2>3. CallOf(t)'
        BY <1>2, <2>1 DEF CallOf, Working
    <2>4. DiskOf(t)' /\ StreamOf(t)'
        BY <2>1 DEF DiskOf, StreamOf, Working
    <2>5. BufOf(t)'
        BY <2>1 DEF BufOf, Working, Complete
    <2>6. QED
        BY <2>2, <2>3, <2>4, <2>5 DEF Inv
<1>5. CASE /\ Comparing(t)
           /\ result' = [result EXCEPT ![t] = IF ok THEN "mismatch" ELSE "read_error"]
           /\ buf' = [buf EXCEPT ![t] = <<>>] /\ Goto(t, "unlock") /\ UNCHANGED block
    BY <1>4, <1>5
<1>6. CASE /\ result' = [result EXCEPT ![t] =
                IF ok THEN "ok" ELSE IF req[t].kind = "cmpwrite" THEN "write_error" ELSE "failed"]
           /\ Goto(t, "unlock") /\ UNCHANGED <<block, buf>>
    BY <1>4, <1>6
<1>7. QED
    BY <1>3, <1>5, <1>6 DEF Invoked

-----------------------------------------------------------------------------

NbdInv == TypeInv /\ \A t \in Threads : Inv(t)

LEMMA DoneStep ==
    ASSUME TypeInv, NEW t \in Threads, Inv(t), Done(t) PROVE TypeInv' /\ Inv(t)'
<1>1. /\ pc[t] = "done" /\ Invoked(t, fd) /\ UNCHANGED <<disk, socket, req, saved>>
    BY DEF Done
<1>2. fd \in BOOLEAN /\ Complete(t)
    BY <1>1 DEF TypeInv, Complete
<1>3. to_server' = <<>> /\ to_client' = <<>> /\ UNCHANGED <<fd, up>>
    BY <1>1 DEF Inv, StreamOf, socket
<1>4. QED
    BY <1>1, <1>2, <1>3, InvokedStep

\* An error of the server is all there is in the stream.
LEMMA ErrorAlone ==
    ASSUME TypeInv, NEW t \in Threads, Inv(t), pc[t] = "reply", Reads("reply"), Head(to_client).error
    PROVE  to_server = <<>> /\ Tail(to_client) = <<>>
<1>1. Awaiting(t) /\ to_client # <<>>
    BY DEF Inv, StreamOf, Reads, Readable
<1>2. ~ReplyHeader(FALSE).error
    BY DEF ReplyHeader
<1>3. to_client # <<ReplyHeader(FALSE)>> /\ to_client # <<ReplyHeader(FALSE), Found(t)>>
    <2>1. \A x, y : Head(<<x>>) = x /\ Head(<<x, y>>) = x
        BY Parts
    <2>2. QED
        BY <1>2, <2>1
<1>4. to_server = <<>> /\ to_client = <<ReplyHeader(TRUE)>>
    BY <1>1, <1>3 DEF Awaiting
<1>5. QED
    BY <1>4, Parts

LEMMA ReadReplyStep ==
    ASSUME TypeInv, NEW t \in Threads, Inv(t), ReadReply(t) PROVE TypeInv' /\ Inv(t)'
<1>1. pc[t] = "reply" /\ UNCHANGED <<disk, req, saved>>
    BY DEF ReadReply
<1>2. CASE LostConnection(t) /\ UNCHANGED <<block, result>>
    <2>1. Working(t) /\ buf[t] = <<>>
        BY <1>1 DEF Inv, BufOf, Working, Complete
    <2>2. QED
        BY <1>1, <1>2, <2>1, LostStep
<1>3. CASE /\ Reads("reply") /\ ~Head(to_client).error /\ to_client' = Tail(to_client)
           /\ Goto(t, IF Command(t).cmd = "read" THEN "data" ELSE "while")
           /\ UNCHANGED <<fd, up, to_server, block, buf, result>>
    BY <1>1, <1>3, ReplyStep
<1>4. CASE /\ Reads("reply") /\ Head(to_client).error /\ to_client' = Tail(to_client)
           /\ Invoked(t, FALSE) /\ UNCHANGED <<fd, up, to_server>>
    <2>1. to_server' = <<>> /\ to_client' = <<>>
        BY <1>1, <1>4, ErrorAlone
    <2>2. QED
        BY <1>1, <1>4, <2>1, InvokedStep
<1>5. QED
    BY <1>2, <1>3, <1>4 DEF ReadReply

LEMMA NbdInvStep == ASSUME OneThread, NbdInv, [Next]_vars PROVE NbdInv'
<1>1. PICK t : Threads = {t}
    BY DEF OneThread
<1>2. t \in Threads /\ TypeInv /\ Inv(t)
    BY <1>1 DEF NbdInv
<1>3. CASE UNCHANGED vars
    <2>1. UNCHANGED <<disk, fd, up, to_server, to_client, req, pc, block, buf, result, saved>>
        BY <1>3 DEF vars
    <2>2. TypeInv'
        BY <1>2, <2>1 DEF TypeInv
    <2>3. CallOf(t)'
        BY <1>2, <2>1 DEF Inv, CallOf, Working
    <2>4. DiskOf(t)'
        <3>1. CASE Working(t)
            BY <1>2, <2>1, <3>1, SameDisk DEF Inv, Working
        <3>2. CASE ~Working(t)
            BY <2>1, <3>2 DEF DiskOf, Working
        <3>3. QED
            BY <3>1, <3>2
    <2>5. /\ Command(t)' = Command(t) /\ Found(t)' = Found(t) /\ Sent(t)' = Sent(t)
          /\ Carried(t)' <=> Carried(t)
          /\ Contents(Command(t))' = Contents(Command(t))
        BY <1>2, <2>1, SameCall
    <2>6. Awaiting(t)' <=> Awaiting(t)
        BY <2>1, <2>5 DEF Awaiting, ReplyHeader
    <2>7. StreamOf(t)'
        BY <1>2, <2>1, <2>5, <2>6 DEF Inv, StreamOf, Hello
    <2>8. BufOf(t)'
        BY <1>2, <2>1, <2>5 DEF Inv, BufOf, Working, Complete
    <2>9. QED
        BY <1>1, <2>2, <2>3, <2>4, <2>7, <2>8 DEF NbdInv, Inv
<1>4. CASE Next
    <2>1. CASE Serve
        BY <1>1, <1>2, <2>1, ServeStep DEF NbdInv
    <2>2. CASE Lose
        BY <1>1, <1>2, <2>2, LoseStep DEF NbdInv
    <2>3. ASSUME NEW r \in Requests, Call(t, r) PROVE NbdInv'
        BY <1>1, <1>2, <2>3, CallStep DEF NbdInv
    <2>4. CASE Step(t)
        BY <1>1, <1>2, <2>4, LockStep, ReturnStep, ConnectStep, DialStep, HelloStep, WhileStep, DoneStep,
           SendRequestStep, SendPayloadStep, ReadReplyStep, DataStep DEF NbdInv, Step
    <2>5. QED
        BY <1>1, <1>4, <2>1, <2>2, <2>3, <2>4 DEF Next
<1>5. QED
    BY <1>3, <1>4

LEMMA NbdInvInit == Init => NbdInv
<1> SUFFICES ASSUME Init PROVE NbdInv
    OBVIOUS
<1>1. disk \in [Blocks -> Values]
    BY NbdAssumption DEF Init
<1>2. buf \in [Threads -> Seq(Values)]
    <2>1. <<>> \in Seq(Values)
        OBVIOUS
    <2> DEFINE e == <<>>
    <2>2. buf = [t \in Threads |-> e] /\ e \in Seq(Values)
        BY <2>1 DEF Init
    <2> HIDE DEF e
    <2>3. QED
        BY <2>2
<1>3. TypeInv
    BY <1>1, <1>2 DEF Init, TypeInv, Places
<1>4. ASSUME NEW t \in Threads PROVE Inv(t)
    <2>1. /\ pc[t] = "idle" /\ req[t] = NoCall /\ result[t] = "none" /\ block[t] = 0 /\ buf[t] = <<>>
          /\ to_server = <<>> /\ to_client = <<>>
        BY DEF Init
    <2>2. QED
        BY <2>1 DEF Inv, CallOf, DiskOf, StreamOf, BufOf, Working, Complete
<1>5. QED
    BY <1>3, <1>4 DEF NbdInv

LEMMA InStep == ASSUME OneThread, NbdInv PROVE OneAnswer
<1>1. PICK t : Threads = {t}
    BY DEF OneThread
<1>2. t \in Threads /\ TypeInv /\ Inv(t)
    BY <1>1 DEF NbdInv
<1>3. \/ to_client = <<>>
      \/ \E x : to_client = <<x>>
      \/ to_client = <<ReplyHeader(FALSE), Found(t)>>
    BY <1>2 DEF Inv, StreamOf, Awaiting, TypeInv, Places
<1>4. ASSUME NEW i \in 1 .. Len(to_client), NEW j \in 1 .. Len(to_client),
             to_client[i].is = "reply", to_client[j].is = "reply"
      PROVE  i = j
    <2>1. CASE to_client = <<>>
        BY <1>4, <2>1
    <2>2. ASSUME NEW x, to_client = <<x>> PROVE i = j
        BY <1>4, <2>2, Parts
    <2>3. CASE to_client = <<ReplyHeader(FALSE), Found(t)>>
        <3>1. Len(to_client) = 2 /\ to_client[2].is = "data"
            BY <2>3, Parts DEF Found
        <3>2. QED
            BY <1>4, <3>1
    <2>4. QED
        BY <1>3, <2>1, <2>2, <2>3
<1>5. pc[t] \in {"idle", "lock", "unlock"} => to_client = <<>>
    BY <1>2 DEF Inv, StreamOf
<1>6. QED
    BY <1>1, <1>4, <1>5 DEF OneAnswer

\* With one session the stream of invoke_nbd() and the server stay in step for
\* ever, whatever is lost: no answer to an earlier request, and no data of an
\* earlier read, is ever taken for the answer to the request at hand, although
\* every request has the same handle.  With two sessions this does not hold:
\* see the run nbd_shared.
THEOREM AnswersInStep == ASSUME OneThread PROVE Spec => []OneAnswer
<1>1. NbdInv /\ [Next]_vars => NbdInv'
    BY NbdInvStep
<1>2. NbdInv => OneAnswer
    BY InStep
<1>3. QED
    BY <1>1, <1>2, NbdInvInit, PTL DEF Spec

-----------------------------------------------------------------------------
(* The atomic disk. *)

\* While a call is at work its callers see the disk that it found.
DiskView == \A t \in Threads : AbstractDisk = IF Working(t) THEN saved[t] ELSE disk

\* A call only touches its range.
LEMMA OutsideRange ==
    ASSUME TypeInv, NEW t \in Threads, Inv(t), Working(t), NEW b \in Blocks,
           b \notin Range(req[t]) \/ req[t].kind = "sync"
    PROVE  disk[b] = saved[t][b]
<1>1. req[t] \in Requests /\ block[t] \in Nat
    BY HasRequest DEF Inv, Working
<1>2. req[t].block_nr \in Nat /\ req[t].n_blocks \in Nat
    BY <1>1, RequestFacts
<1>3. Command(t).cmd \in {"read", "write", "trim", "sync"}
    BY <1>1, CommandFacts
<1>4. CASE Command(t).cmd \in {"read", "sync"}
    BY <1>4 DEF Inv, DiskOf
<1>5. CASE Command(t).cmd = "write"
    <2>1. req[t].kind # "sync"
        BY <1>1, <1>5, CommandFacts
    <2>2. PICK n \in 0 .. req[t].n_blocks : disk = Prefix(saved[t], req[t], n, req[t].data)
        BY <1>5 DEF Inv, DiskOf
    <2>3. b \notin req[t].block_nr .. (req[t].block_nr + n - 1)
        BY <1>2, <2>1, <2>2 DEF Range, Blocks
    <2>4. QED
        BY <2>2, <2>3 DEF Prefix
<1>6. CASE Command(t).cmd = "trim"
    <2>1. req[t].kind # "sync"
        BY <1>1, <1>6, CommandFacts
    <2>2. PICK X \in SUBSET Range(req[t]) : disk = Trimmed(saved[t], X)
        BY <1>6 DEF Inv, DiskOf
    <2>3. QED
        BY <2>1, <2>2 DEF Trimmed
<1>7. QED
    BY <1>3, <1>4, <1>5, <1>6

LEMMA AbstractDiskIs == OneThread /\ NbdInv => DiskView
<1> SUFFICES ASSUME OneThread, NbdInv, NEW t \in Threads
             PROVE  AbstractDisk = IF Working(t) THEN saved[t] ELSE disk
    BY DEF DiskView
<1>1. Threads = {t} /\ TypeInv /\ Inv(t)
    BY DEF OneThread, NbdInv
<1> DEFINE writers(b) == {s \in Threads : Locked(s) /\ result[s] = "none" /\ b \in Range(req[s])}
<1>2. ASSUME NEW b \in Blocks
      PROVE  writers(b) = IF Working(t) /\ req[t].kind # "sync" /\ b \in Range(req[t]) THEN {t} ELSE {}
    <2>1. Locked(t) /\ result[t] = "none" <=> Working(t) /\ req[t].kind # "sync"
        BY <1>1 DEF Locked, Inv, CallOf, Working
    <2>2. QED
        BY <1>1, <2>1
<1>3. AbstractDisk = [b \in Blocks |->
        IF writers(b) = {} THEN disk[b] ELSE saved[CHOOSE s \in writers(b) : TRUE][b]]
    BY DEF AbstractDisk
<1> HIDE DEF writers
<1>4. ASSUME NEW b \in Blocks
      PROVE  AbstractDisk[b] = IF Working(t) /\ req[t].kind # "sync" /\ b \in Range(req[t])
                               THEN saved[t][b] ELSE disk[b]
    <2>1. CASE Working(t) /\ req[t].kind # "sync" /\ b \in Range(req[t])
        <3>1. writers(b) = {t}
            BY <1>2, <2>1
        <3>2. (CHOOSE s \in {t} : TRUE) = t
            OBVIOUS
        <3>3. QED
            BY <1>3, <2>1, <3>1, <3>2
    <2>2. CASE ~(Working(t) /\ req[t].kind # "sync" /\ b \in Range(req[t]))
        BY <1>2, <1>3, <2>2
    <2>3. QED
        BY <2>1, <2>2
<1>5. ASSUME NEW b \in Blocks PROVE AbstractDisk[b] = IF Working(t) THEN saved[t][b] ELSE disk[b]
    BY <1>1, <1>4, OutsideRange
<1>6. disk \in [Blocks -> Values] /\ saved[t] \in [Blocks -> Values]
    BY <1>1 DEF TypeInv
<1>7. AbstractDisk = [b \in Blocks |-> AbstractDisk[b]]
    BY <1>3
<1>8. CASE Working(t)
    BY <1>5, <1>6, <1>7, <1>8
<1>9. CASE ~Working(t)
    BY <1>5, <1>6, <1>7, <1>9
<1>10. QED
    BY <1>8, <1>9

\* A call is over: callers see the disk as it is, and its result.
Lands(t, res, blocks) ==
    /\ AbstractDisk = saved[t] /\ AbstractDisk' = disk /\ req' = req
    /\ Atomic!Effect(t)
    /\ AbstractReply' = [AbstractReply EXCEPT ![t] = <<res, blocks>>]

LEMMA LandsRead ==
    ASSUME TypeInv, NEW t \in Threads, Inv(t), Working(t), req[t].kind = "read",
           \/ Lands(t, "ok", buf[t]) /\ Complete(t)
           \/ Lands(t, "failed", buf[t]) /\ ~Complete(t)
    PROVE  Atomic!Read(t)
<1>1. req[t] \in Requests /\ block[t] \in Nat
    BY HasRequest DEF Inv, Working
<1>2. ~Comparing(t) /\ Command(t).cmd = "read"
    BY DEF Comparing, Command
<1>3. /\ Command(t).block_nr = req[t].block_nr /\ Command(t).n_blocks = req[t].n_blocks
      /\ req[t].n_blocks \in Nat
    BY <1>1, <1>2, CommandFacts, RequestFacts
<1>4. disk = saved[t]
    BY <1>2 DEF Inv, DiskOf
<1>5. AbstractDisk = saved[t] /\ AbstractDisk' = disk /\ req' = req /\ Atomic!Effect(t)
    BY DEF Lands
<1>6. Atomic!Contents(req[t]) = Contents(Command(t))
    BY <1>3, <1>4, <1>5 DEF Atomic!Contents, Contents
<1>7. CASE Lands(t, "ok", buf[t]) /\ Complete(t)
    <2>1. buf[t] = Contents(Command(t))
        BY <1>2, <1>7 DEF Inv, BufOf
    <2>2. AbstractReply' = [AbstractReply EXCEPT ![t] = <<"ok", Atomic!Contents(req[t])>>]
        BY <1>6, <1>7, <2>1 DEF Lands
    <2>3. QED
        BY <1>4, <1>5, <2>2 DEF Atomic!Read
<1>8. CASE Lands(t, "failed", buf[t]) /\ ~Complete(t)
    <2>1. buf[t] = <<>>
        BY <1>8 DEF Inv, BufOf
    <2>2. SubSeq(Atomic!Contents(req[t]), 1, 0) = <<>>
        BY DEF Atomic!Contents
    <2>3. 0 \in 0 .. req[t].n_blocks
        BY <1>3
    <2>4. AbstractReply' =
            [AbstractReply EXCEPT ![t] = <<"failed", SubSeq(Atomic!Contents(req[t]), 1, 0)>>]
        BY <1>8, <2>1, <2>2 DEF Lands
    <2>5. QED
        BY <1>4, <1>5, <2>3, <2>4 DEF Atomic!Read
<1>9. QED
    BY <1>7, <1>8

\* The disk after a write, as the atomic disk has it.
LEMMA LandsFilled ==
    ASSUME TypeInv, NEW t \in Threads, Inv(t), Working(t), Command(t).cmd = "write",
           AbstractDisk = saved[t], AbstractDisk' = disk
    PROVE  /\ \E n \in 0 .. req[t].n_blocks : AbstractDisk' = Atomic!Filled(req[t], n, req[t].data)
           /\ Complete(t) => AbstractDisk' = Atomic!Filled(req[t], req[t].n_blocks, req[t].data)
<1>1. \A n : Atomic!Filled(req[t], n, req[t].data) = Prefix(saved[t], req[t], n, req[t].data)
    BY DEF Atomic!Filled, Prefix, Blocks
<1>2. \E n \in 0 .. req[t].n_blocks : disk = Prefix(saved[t], req[t], n, req[t].data)
    BY DEF Inv, DiskOf
<1>3. Complete(t) => disk = Prefix(saved[t], req[t], req[t].n_blocks, req[t].data)
    BY DEF Inv, BufOf, Carried
<1>4. QED
    BY <1>1, <1>2, <1>3

LEMMA LandsWrite ==
    ASSUME TypeInv, NEW t \in Threads, Inv(t), Working(t), req[t].kind = "write",
           \/ Lands(t, "ok", buf[t]) /\ Complete(t)
           \/ Lands(t, "failed", buf[t]) /\ ~Complete(t)
    PROVE  Atomic!Write(t)
<1>1. Command(t).cmd = "write"
    BY DEF Comparing, Command
<1>2. AbstractDisk = saved[t] /\ AbstractDisk' = disk /\ req' = req /\ Atomic!Effect(t)
    BY DEF Lands
<1>3. buf[t] = <<>>
    BY <1>1 DEF Inv, BufOf
<1>4. /\ \E n \in 0 .. req[t].n_blocks : AbstractDisk' = Atomic!Filled(req[t], n, req[t].data)
      /\ Complete(t) => AbstractDisk' = Atomic!Filled(req[t], req[t].n_blocks, req[t].data)
    BY <1>1, <1>2, LandsFilled
<1>5. CASE Lands(t, "ok", buf[t]) /\ Complete(t)
    <2>1. AbstractReply' = [AbstractReply EXCEPT ![t] = <<"ok", <<>>>>]
        BY <1>3, <1>5 DEF Lands
    <2>2. QED
        BY <1>2, <1>4, <1>5, <2>1 DEF Atomic!Write
<1>6. CASE Lands(t, "failed", buf[t]) /\ ~Complete(t)
    <2>1. AbstractReply' = [AbstractReply EXCEPT ![t] = <<"failed", <<>>>>]
        BY <1>3, <1>6 DEF Lands
    <2>2. QED
        BY <1>2, <1>4, <2>1 DEF Atomic!Write
<1>7. QED
    BY <1>5, <1>6

LEMMA LandsCompareWrite ==
    ASSUME TypeInv, NEW t \in Threads, Inv(t), Working(t), req[t].kind = "cmpwrite", ~Comparing(t),
           \/ Lands(t, "ok", buf[t]) /\ Complete(t)
           \/ Lands(t, "write_error", buf[t]) /\ ~Complete(t)
    PROVE  Atomic!CompareAndWrite(t)
<1>1. Command(t).cmd = "write"
    BY DEF Command
<1>2. AbstractDisk = saved[t] /\ AbstractDisk' = disk /\ req' = req /\ Atomic!Effect(t)
    BY DEF Lands
<1>3. buf[t] = <<>>
    BY <1>1 DEF Inv, BufOf
<1>4. /\ \E n \in 0 .. req[t].n_blocks : AbstractDisk' = Atomic!Filled(req[t], n, req[t].data)
      /\ Complete(t) => AbstractDisk' = Atomic!Filled(req[t], req[t].n_blocks, req[t].data)
    BY <1>1, <1>2, LandsFilled
<1>5. Atomic!Matches(req[t])
    <2>1. req[t] \in Requests /\ block[t] \in Nat
        BY HasRequest DEF Inv, Working
    <2>2. req[t].n_blocks \in Nat /\ block[t] <= req[t].n_blocks
        BY <2>1, RequestFacts DEF Inv, CallOf
    <2>3. block[t] = req[t].n_blocks
        BY <2>1, <2>2 DEF Comparing
    <2>4. QED
        BY <1>2, <2>3 DEF Inv, CallOf, Atomic!Matches, Atomic!Range
<1>6. CASE Lands(t, "ok", buf[t]) /\ Complete(t)
    <2>1. AbstractReply' = [AbstractReply EXCEPT ![t] = <<"ok", <<>>>>]
        BY <1>3, <1>6 DEF Lands
    <2>2. QED
        BY <1>2, <1>4, <1>5, <1>6, <2>1 DEF Atomic!CompareAndWrite
<1>7. CASE Lands(t, "write_error", buf[t]) /\ ~Complete(t)
    <2>1. AbstractReply' = [AbstractReply EXCEPT ![t] = <<"write_error", <<>>>>]
        BY <1>3, <1>7 DEF Lands
    <2>2. QED
        BY <1>2, <1>4, <1>5, <2>1 DEF Atomic!CompareAndWrite
<1>8. QED
    BY <1>6, <1>7

LEMMA LandsCompare ==
    ASSUME TypeInv, NEW t \in Threads, Inv(t), Working(t), Comparing(t),
           \/ Lands(t, "mismatch", <<>>) /\ Complete(t) /\ buf[t] # <<req[t].compare>>
           \/ Lands(t, "read_error", <<>>)
    PROVE  Atomic!CompareAndWrite(t)
<1>1. AbstractDisk = saved[t] /\ AbstractDisk' = disk /\ req' = req /\ Atomic!Effect(t)
    BY DEF Lands
<1>2. req[t].kind = "cmpwrite" /\ Command(t).cmd = "read"
    BY DEF Comparing, Command
<1>3. disk = saved[t]
    BY <1>2 DEF Inv, DiskOf
<1>4. CASE Lands(t, "mismatch", <<>>) /\ Complete(t) /\ buf[t] # <<req[t].compare>>
    <2>1. /\ req[t].block_nr + block[t] \in Range(req[t])
          /\ saved[t][req[t].block_nr + block[t]] # req[t].compare
        BY <1>4, ComparedBlock
    <2>2. ~Atomic!Matches(req[t])
        BY <1>1, <2>1 DEF Atomic!Matches, Atomic!Range, Range
    <2>3. QED
        BY <1>1, <1>2, <1>3, <1>4, <2>2 DEF Atomic!CompareAndWrite, Lands
<1>5. CASE Lands(t, "read_error", <<>>)
    BY <1>1, <1>2, <1>3, <1>5 DEF Atomic!CompareAndWrite, Lands
<1>6. QED
    BY <1>4, <1>5

LEMMA LandsOther ==
    ASSUME TypeInv, NEW t \in Threads, Inv(t), Working(t), req[t].kind \in {"trim", "sync"},
           NEW res \in {"ok", "failed"}, Lands(t, res, buf[t])
    PROVE  Atomic!Trim(t) \/ Atomic!Sync(t)
<1>1. AbstractDisk = saved[t] /\ AbstractDisk' = disk /\ req' = req /\ Atomic!Effect(t)
    BY DEF Lands
<1>2. Command(t).cmd = req[t].kind
    BY DEF Comparing, Command
<1>3. buf[t] = <<>>
    BY <1>2 DEF Inv, BufOf
<1>4. AbstractReply' \in {[AbstractReply EXCEPT ![t] = <<x, <<>>>>] : x \in {"ok", "failed"}}
    BY <1>3 DEF Lands
<1>5. CASE req[t].kind = "sync"
    <2>1. disk = saved[t]
        BY <1>2, <1>5 DEF Inv, DiskOf
    <2>2. QED
        BY <1>1, <1>4, <1>5, <2>1 DEF Atomic!Sync
<1>6. CASE req[t].kind = "trim"
    <2>1. PICK X \in SUBSET Range(req[t]) : disk = Trimmed(saved[t], X)
        BY <1>2, <1>6 DEF Inv, DiskOf
    <2>2. AbstractDisk' = [b \in 0 .. NBlocks - 1 |-> IF b \in X THEN Zero ELSE AbstractDisk[b]]
        BY <1>1, <2>1 DEF Trimmed, Blocks
    <2>3. X \in SUBSET Atomic!Range(req[t])
        BY <2>1 DEF Range, Atomic!Range
    <2>4. QED
        BY <1>1, <1>4, <1>6, <2>2, <2>3 DEF Atomic!Trim
<1>7. QED
    BY <1>5, <1>6

\* invoke_nbd() has returned to its caller.
LEMMA InvokedAtomic ==
    ASSUME TypeInv, NEW t, Threads = {t}, Inv(t), Working(t), NEW ok \in BOOLEAN, Invoked(t, ok),
           ok <=> Complete(t), UNCHANGED <<disk, req, saved>>,
           AbstractDisk = saved[t], AbstractDisk' = IF Working(t)' THEN saved'[t] ELSE disk'
    PROVE  Atomic!Next \/ UNCHANGED Atomic!vars
<1>1. req[t] \in Requests /\ t \in Threads
    BY HasRequest DEF Inv, Working
<1>2. req[t] # NoCall /\ req[t].kind \in {"read", "write", "trim", "cmpwrite", "sync"}
    BY <1>1, RequestFacts
<1>3. result[t] = "none"
    BY DEF Inv, CallOf, Working
<1>4. Atomic!Effect(t)
    BY <1>1, <1>2, <1>3 DEF Atomic!Effect, Atomic!Pending, AbstractReply
<1>5. ASSUME NEW res \in {"ok", "failed", "mismatch", "read_error", "write_error"}, Goto(t, "unlock"),
             result' = [result EXCEPT ![t] = res]
      PROVE  Lands(t, res, buf'[t])
    <2>1. pc'[t] = "unlock" /\ result'[t] = res
        BY <1>1, <1>5 DEF Goto, TypeInv
    <2>2. AbstractDisk' = disk
        BY <2>1 DEF Working
    <2>3. AbstractReply' = [AbstractReply EXCEPT ![t] = <<res, buf'[t]>>]
        BY <1>5, <2>1 DEF AbstractReply
    <2>4. QED
        BY <1>4, <2>2, <2>3 DEF Lands
<1>6. CASE Comparing(t) /\ Goto(t, "connect") /\ UNCHANGED result
    <2>1. Working(t)'
        BY <1>1, <1>6 DEF Goto, TypeInv, Working
    <2>2. AbstractReply' = AbstractReply
        BY <1>3, <1>6 DEF AbstractReply
    <2>3. QED
        BY <2>1, <2>2 DEF Atomic!vars
<1>7. CASE /\ Comparing(t) /\ ~(ok /\ buf[t] = <<req[t].compare>>)
           /\ result' = [result EXCEPT ![t] = IF ok THEN "mismatch" ELSE "read_error"]
           /\ buf' = [buf EXCEPT ![t] = <<>>] /\ Goto(t, "unlock")
    <2>1. buf'[t] = <<>>
        BY <1>1, <1>7 DEF TypeInv
    <2>2. CASE ok
        <3>1. Lands(t, "mismatch", <<>>)
            BY <1>5, <1>7, <2>1, <2>2
        <3>2. Atomic!CompareAndWrite(t)
            BY <1>1, <1>7, <2>2, <3>1, LandsCompare
        <3>3. QED
            BY <1>1, <3>2 DEF Atomic!Next
    <2>3. CASE ~ok
        <3>1. Lands(t, "read_error", <<>>)
            BY <1>5, <1>7, <2>1, <2>3
        <3>2. Atomic!CompareAndWrite(t)
            BY <1>1, <1>7, <3>1, LandsCompare
        <3>3. QED
            BY <1>1, <3>2 DEF Atomic!Next
    <2>4. QED
        BY <2>2, <2>3
<1>8. CASE /\ ~Comparing(t)
           /\ result' = [result EXCEPT ![t] =
                IF ok THEN "ok" ELSE IF req[t].kind = "cmpwrite" THEN "write_error" ELSE "failed"]
           /\ Goto(t, "unlock") /\ UNCHANGED <<block, buf>>
    <2>1. /\ ok => Lands(t, "ok", buf[t])
          /\ ~ok /\ req[t].kind = "cmpwrite" => Lands(t, "write_error", buf[t])
          /\ ~ok /\ req[t].kind # "cmpwrite" => Lands(t, "failed", buf[t])
        BY <1>5, <1>8
    <2>2. CASE req[t].kind = "read"
        <3>1. Atomic!Read(t)
            BY <1>1, <2>1, <2>2, LandsRead
        <3>2. QED
            BY <1>1, <3>1 DEF Atomic!Next
    <2>3. CASE req[t].kind = "write"
        <3>1. Atomic!Write(t)
            BY <1>1, <2>1, <2>3, LandsWrite
        <3>2. QED
            BY <1>1, <3>1 DEF Atomic!Next
    <2>4. CASE req[t].kind = "cmpwrite"
        <3>1. Atomic!CompareAndWrite(t)
            BY <1>1, <1>8, <2>1, <2>4, LandsCompareWrite
        <3>2. QED
            BY <1>1, <3>1 DEF Atomic!Next
    <2>5. CASE req[t].kind \in {"trim", "sync"}
        <3>1. Atomic!Trim(t) \/ Atomic!Sync(t)
            BY <1>1, <2>1, <2>5, LandsOther
        <3>2. QED
            BY <1>1, <3>1 DEF Atomic!Next
    <2>6. QED
        BY <1>2, <2>2, <2>3, <2>4, <2>5
<1>9. QED
    BY <1>6, <1>7, <1>8 DEF Invoked

LEMMA NbdAtomicStep ==
    ASSUME OneThread, NbdInv, NbdInv', [Next]_vars PROVE Atomic!Next \/ UNCHANGED Atomic!vars
<1> DEFINE Goal == Atomic!Next \/ UNCHANGED Atomic!vars
<1>1. PICK t : Threads = {t}
    BY DEF OneThread
<1>2. t \in Threads /\ TypeInv /\ Inv(t) /\ TypeInv' /\ Inv(t)'
    BY <1>1 DEF NbdInv
<1>3. AbstractDisk = IF Working(t) THEN saved[t] ELSE disk
    BY <1>2, AbstractDiskIs DEF DiskView
<1>4. AbstractDisk' = IF Working(t)' THEN saved'[t] ELSE disk'
    <2>1. OneThread' /\ NbdInv' => DiskView'
        BY AbstractDiskIs, PTL
    <2>2. OneThread'
        BY DEF OneThread
    <2>3. QED
        BY <1>2, <2>1, <2>2 DEF DiskView
<1>5. AbstractReply = [s \in Threads |-> IF result[s] = "none" THEN <<"none", <<>>>> ELSE <<result[s], buf[s]>>]
    BY DEF AbstractReply
<1>6. AbstractReply' =
        [s \in Threads |-> IF result'[s] = "none" THEN <<"none", <<>>>> ELSE <<result'[s], buf'[s]>>]
    BY DEF AbstractReply
<1>7. /\ result[t] = "none" <=> pc[t] # "unlock"
      /\ result'[t] = "none" <=> pc'[t] # "unlock"
    BY <1>2 DEF Inv, CallOf
\* Inside invoke_nbd().
<1>8. ASSUME Working(t), Working(t)', UNCHANGED <<req, saved>> PROVE Goal
    <2>1. AbstractReply' = AbstractReply
        BY <1>1, <1>5, <1>6, <1>7, <1>8 DEF Working
    <2>2. QED
        BY <1>3, <1>4, <1>8, <2>1 DEF Atomic!vars
<1>9. CASE UNCHANGED <<disk, pc, req, saved, result, buf>>
    <2>1. AbstractReply' = AbstractReply
        BY <1>5, <1>6, <1>9
    <2>2. QED
        BY <1>3, <1>4, <1>9, <2>1 DEF Atomic!vars, Working
<1>10. ASSUME NEW r \in Requests, Call(t, r) PROVE Goal
    <2>1. /\ pc[t] = "idle" /\ pc'[t] = "lock" /\ req' = [req EXCEPT ![t] = r]
          /\ UNCHANGED <<disk, result, buf>>
        BY <1>2, <1>10 DEF Call, Goto, TypeInv
    <2>2. AbstractDisk' = AbstractDisk
        BY <1>3, <1>4, <2>1 DEF Working
    <2>3. AbstractReply' = AbstractReply
        BY <1>5, <1>6, <2>1
    <2>4. req[t] = NoCall
        BY <1>2, <2>1 DEF Inv, CallOf
    <2>5. Atomic!Invoke(t, r)
        BY <2>1, <2>2, <2>3, <2>4 DEF Atomic!Invoke
    <2>6. QED
        BY <1>2, <1>10, <2>5 DEF Atomic!Next
<1>11. CASE LockRange(t)
    <2>1. /\ pc[t] = "lock" /\ pc'[t] = "connect" /\ saved'[t] = disk
          /\ UNCHANGED <<disk, req, result, buf>>
        BY <1>2, <1>11 DEF LockRange, Goto, TypeInv
    <2>2. AbstractDisk' = AbstractDisk
        BY <1>3, <1>4, <2>1 DEF Working
    <2>3. AbstractReply' = AbstractReply
        BY <1>5, <1>6, <2>1
    <2>4. QED
        BY <2>1, <2>2, <2>3 DEF Atomic!vars
<1>12. CASE Return(t)
    <2>1. /\ pc[t] = "unlock" /\ pc'[t] = "idle" /\ req' = [req EXCEPT ![t] = NoCall]
          /\ result'[t] = "none" /\ disk' = disk
        BY <1>2, <1>12 DEF Return, Goto, TypeInv
    <2>2. AbstractDisk' = AbstractDisk
        BY <1>3, <1>4, <2>1 DEF Working
    <2>3. AbstractReply' = [AbstractReply EXCEPT ![t] = <<"none", <<>>>>]
        BY <1>1, <1>5, <1>6, <2>1
    <2>4. AbstractReply[t] # <<"none", <<>>>>
        BY <1>2, <1>5, <1>7, <2>1
    <2>5. Atomic!Return(t)
        BY <2>1, <2>2, <2>3, <2>4 DEF Atomic!Return, Atomic!Pending
    <2>6. QED
        BY <1>2, <2>5 DEF Atomic!Next
<1>13. CASE Done(t)
    <2>1. pc[t] = "done" /\ Invoked(t, fd) /\ UNCHANGED <<disk, req, saved>>
        BY <1>13 DEF Done
    <2>2. fd \in BOOLEAN /\ Complete(t) /\ fd /\ Working(t)
        BY <1>2, <2>1 DEF TypeInv, Complete, Inv, BufOf, Working
    <2>3. QED
        BY <1>1, <1>2, <1>3, <1>4, <2>1, <2>2, InvokedAtomic
<1>14. CASE ReadReply(t)
    <2>1. pc[t] = "reply" /\ UNCHANGED <<disk, req, saved>>
        BY <1>14 DEF ReadReply
    <2>2. Working(t) /\ ~Complete(t)
        BY <2>1 DEF Working, Complete
    <2>3. CASE Invoked(t, FALSE)
        BY <1>1, <1>2, <1>3, <1>4, <2>1, <2>2, <2>3, InvokedAtomic
    <2>4. CASE LostConnection(t) \/ Goto(t, IF Command(t).cmd = "read" THEN "data" ELSE "while")
        <3>1. Working(t)'
            BY <1>2, <2>4 DEF LostConnection, Goto, TypeInv, Working
        <3>2. QED
            BY <1>8, <2>1, <2>2, <3>1
    <2>5. QED
        BY <1>14, <2>3, <2>4 DEF ReadReply
<1>15. CASE \/ Connect(t) \/ Dial(t) \/ ReadHello(t) \/ While(t)
            \/ SendRequest(t) \/ SendPayload(t) \/ ReadData(t)
    <2>1. Working(t) /\ UNCHANGED <<req, saved>>
        BY <1>15 DEF Connect, Dial, ReadHello, While, SendRequest, SendPayload, ReadData, Send, Working
    <2>2. Working(t)'
        <3>1. UNCHANGED pc \/ \E l \in Places \ {"idle", "lock", "unlock"} : Goto(t, l)
            BY <1>15 DEF Connect, Dial, ReadHello, While, SendRequest, SendPayload, ReadData, Send,
                         LostConnection, Places
        <3>2. QED
            BY <1>2, <2>1, <3>1 DEF Goto, TypeInv, Working
    <2>3. QED
        BY <1>8, <2>1, <2>2
<1>16. CASE Serve
    <2>1. pc[t] = "reply" /\ UNCHANGED <<req, pc, saved>>
        BY <1>2, <1>16, ServeCases
    <2>2. QED
        BY <1>8, <2>1 DEF Working
<1>17. CASE Lose
    BY <1>9, <1>17 DEF Lose
<1>18. CASE UNCHANGED vars
    BY <1>9, <1>18 DEF vars
<1>19. QED
    BY <1>1, <1>10, <1>11, <1>12, <1>13, <1>14, <1>15, <1>16, <1>17, <1>18 DEF Next, Step

\* With one session the NBD backend is an atomic disk, whatever the network and
\* the server do: a request that invoke_nbd() sends again after its answer was
\* lost, also one that was carried out already or in part, also halfway through
\* cmpwrite(), has no effect that its caller could tell from that of one request.
THEOREM NbdBackendAtomic == ASSUME OneThread PROVE Spec => NbdImplementsAtomicDisk
<1>1. NbdInv /\ [Next]_vars => NbdInv'
    BY NbdInvStep
<1>2. NbdInv /\ NbdInv' /\ [Next]_vars => [Atomic!Next]_(Atomic!vars)
    BY NbdAtomicStep
<1>3. Init => Atomic!Init
    <2>1. SUFFICES ASSUME Init PROVE Atomic!Init
        OBVIOUS
    <2>2. AbstractDisk = [b \in 0 .. NBlocks - 1 |-> Zero]
        BY <2>1 DEF Init, AbstractDisk, Locked, Blocks
    <2>3. AbstractReply = [t \in Threads |-> <<"none", <<>>>>]
        BY <2>1 DEF Init, AbstractReply
    <2>4. QED
        BY <2>1, <2>2, <2>3 DEF Init, Atomic!Init, Atomic!Pending
<1>4. QED
    BY <1>1, <1>2, <1>3, NbdInvInit, PTL DEF Spec, NbdImplementsAtomicDisk, Atomic!Spec
=============================================================================
