-------------------------------- MODULE Snmp --------------------------------
(***************************************************************************)
(* The SNMP agent (snmp.cpp): init_snmp() registers its objects and starts *)
(* a thread that answers datagrams.  A manager walks the objects with      *)
(* GetNext, asking again as long as there is no answer, and others ask for *)
(* whatever they like.  The network loses, repeats and reorders datagrams. *)
(* A datagram is what process_BER() finds in it: BER that it refuses, or   *)
(* that ends too early, is all the same junk.                              *)
(***************************************************************************)
EXTENDS SnmpData, Sums

CONSTANTS
    Mibs,         \* sequences of OIDs to register, in order
    ValueSize,    \* OID -> bytes of its value on the wire
    Starts,       \* OIDs at which a walk starts
    OtherAsks,    \* datagrams of others
    MaxInFlight   \* bound: datagrams in flight

MaxInt == 2147483647

\* OIDs begin with 1.3, their numbers are ints, and none that is registered is
\* the beginning of another.
Oids == {oid \in Seq(0 .. MaxInt) : Len(oid) > 2 /\ Prefix(oid, 2) = <<1, 3>>}

ASSUME MibsAssumption ==
    \A mib \in Mibs : mib \in Seq(Oids) /\
        \A i, j \in 1 .. Len(mib) : i # j => ~IsPrefix(mib[i], mib[j])

ASSUME ValueSizeAssumption ==
    \A mib \in Mibs : \A i \in 1 .. Len(mib) :
        mib[i] \in DOMAIN ValueSize /\ ValueSize[mib[i]] \in Nat

\* Walks start at nodes, which may be objects.
ASSUME StartsAssumption ==
    \A s \in Starts : s \in Oids /\
        \A mib \in Mibs : \E i \in 1 .. Len(mib) : IsPrefix(s, mib[i])

VARIABLES
    mib,       \* what init_snmp() registers
    tree,      \* snmp_data::data
    requests,  \* datagrams on their way to the agent
    replies,   \* and back
    walk       \* the manager: where it started, what it has seen, whether it is done

vars == <<mib, tree, requests, replies, walk>>

Bytes == 0 .. Uint8 - 1

\* list: the OIDs, as they are on the wire; community: its length.
Asks ==
    [kind : {"get", "getnext", "set"}, id : Int, community : Nat, list : Seq(Seq(Bytes))]
    \cup [kind : {"junk"}]

\* Ids tell them apart and from those of the walk.  Their numbers are ints:
\* what does not fit in a uint32_t is left out.
ASSUME OtherAsksAssumption ==
    /\ OtherAsks \subseteq Asks
    /\ \A q \in OtherAsks : q.kind # "junk" =>
        /\ q.id < 0
        /\ \A i \in 1 .. Len(q.list) : get_OID(q.list[i]).oid \in Seq(NoNumber .. MaxInt)
    /\ \A p, q \in OtherAsks : p.kind # "junk" /\ q.kind # "junk" /\ p.id = q.id => p = q

init_snmp(oids) ==
    LET data[i \in 0 .. Len(oids)] ==
            IF i = 0 THEN EmptyTree ELSE register_oid(data[i - 1], oids[i])
    IN data[Len(oids)]

Init ==
    /\ mib \in Mibs
    /\ tree = init_snmp(mib)
    /\ requests = {} /\ replies = {}
    /\ walk \in {[start |-> s, seen |-> <<>>, done |-> FALSE] : s \in Starts}

-----------------------------------------------------------------------------
(* The agent. *)

\* process_PDU() does not look at what process_BER() says of a varbind: an OID
\* that is not well formed is left out.  There is no Set: it is a Get.  A
\* GetNext that finds nothing is an error, and leaves the others alone.
ProcessVarbind(o, kind, bytes) ==
    LET d == get_OID(bytes)
        oid == IF kind = "getnext" THEN find_next_oid(tree, d.oid) ELSE d.oid
    IN IF ~d.ok THEN o
       ELSE IF kind = "getnext" /\ oid = <<>> THEN [o EXCEPT !.err = 2]
       ELSE [o EXCEPT !.oids = Append(@, oid)]

\* oids_req, after all varbinds of the request.
process_BER(q) ==
    LET o[i \in 0 .. Len(q.list)] ==
            IF i = 0 THEN [oids |-> <<>>, err |-> 0] ELSE ProcessVarbind(o[i - 1], q.kind, q.list[i])
    IN o[Len(q.list)]

\* The object an OID is answered with: an instance .0 may stand for its object.
ObjectOf(oid) ==
    IF find_by_oid(tree, oid) = "none" /\ Len(oid) > 1 /\ Last(oid) = 0 THEN Front(oid) ELSE oid

Varbind(oid) ==
    LET object == ObjectOf(oid)
        found == find_by_oid(tree, object) = "data"
    IN [oid |-> EncodeOid(oid), value |-> IF found THEN object ELSE <<>>,
        size |-> Sequence(<<2 + Len(EncodeOid(oid)), IF found THEN ValueSize[object] ELSE 2>>).o]

Community(q) == IF q.community = 0 THEN 6 ELSE q.community  \* "public"

\* Mutant: nothing to say, so nothing is sent.
GenReplyTerse(q, o) ==
    LET varbinds == [i \in 1 .. Len(o.oids) |-> Varbind(o.oids[i])]
        list == Sequence([i \in 1 .. Len(varbinds) |-> varbinds[i].size])
        pdu == Sequence(<<6, 6, 6, list.o>>)
        message == Sequence(<<6, 2 + Community(q), pdu.o>>)
    IN IF message.o = 0 \/ varbinds = <<>> THEN {}
       ELSE {[id |-> q.id, err |-> o.err, list |-> Prefix(varbinds, list.n)]}

\* The reply, if one is sent.  Its version, request id and errors are integers of
\* four bytes (an id that needs more than 32 bits is left out: it takes eight and
\* moves the boundary by four).  What does not fit is left out: elements of a
\* sequence that is full, and a whole sequence that is exactly full.
gen_reply(q, o) ==
    LET varbinds == [i \in 1 .. Len(o.oids) |-> Varbind(o.oids[i])]
        list == Sequence([i \in 1 .. Len(varbinds) |-> varbinds[i].size])
        pdu == Sequence(<<6, 6, 6, list.o>>)
        message == Sequence(<<6, 2 + Community(q), pdu.o>>)
        there == message.n = 3 /\ pdu.n = 4 /\ message.whole /\ pdu.whole /\ list.whole
    IN IF message.o = 0 THEN {}
       ELSE {[id |-> q.id, err |-> o.err, list |-> IF there THEN Prefix(varbinds, list.n) ELSE <<>>]}

\* One round of thread(); the network may deliver the datagram again.
Serve(q) ==
    /\ q \in requests
    /\ \/ q.kind = "junk" /\ UNCHANGED replies
       \/ q.kind # "junk" /\ replies' = replies \cup gen_reply(q, process_BER(q))
    /\ \/ requests' = requests \ {q}
       \/ Cardinality(requests) + Cardinality(replies) < MaxInFlight /\ UNCHANGED requests
    /\ UNCHANGED <<mib, tree, walk>>

-----------------------------------------------------------------------------
(* The manager, the others and the network. *)

At == IF walk.seen = <<>> THEN walk.start ELSE Last(walk.seen)

NextAsk ==
    [kind |-> "getnext", id |-> Len(walk.seen), community |-> 6, list |-> <<EncodeOid(At)>>]

\* The first time, or again.
AskNext ==
    /\ ~walk.done /\ Cardinality(requests) + Cardinality(replies) < MaxInFlight
    /\ requests' = requests \cup {NextAsk}
    /\ UNCHANGED <<mib, tree, replies, walk>>

IsAnswer(r) == r.id = Len(walk.seen) /\ (r.list # <<>> \/ r.err # 0)

\* An answer to the last request takes the walk on, an error ends it.
Answer(r) ==
    /\ r \in replies /\ ~walk.done /\ IsAnswer(r)
    /\ walk' = IF r.list = <<>> THEN [walk EXCEPT !.done = TRUE]
               ELSE [walk EXCEPT !.seen = Append(@, get_OID(r.list[1].oid).oid)]
    /\ replies' = replies \ {r}
    /\ UNCHANGED <<mib, tree, requests>>

AskOther ==
    /\ Cardinality(requests) + Cardinality(replies) < MaxInFlight
    /\ \E q \in OtherAsks : requests' = requests \cup {q}
    /\ UNCHANGED <<mib, tree, replies, walk>>

\* A datagram is lost, or a reply arrives that nobody waits for.
Lose ==
    /\ \/ \E q \in requests : requests' = requests \ {q} /\ UNCHANGED replies
       \/ \E r \in replies : replies' = replies \ {r} /\ UNCHANGED requests
    /\ UNCHANGED <<mib, tree, walk>>

Next ==
    \/ \E q \in requests : Serve(q)
    \/ \E r \in replies : Answer(r)
    \/ AskNext \/ AskOther \/ Lose

Spec == Init /\ [][Next]_vars

-----------------------------------------------------------------------------

Replies ==
    [id : Int, err : {0, 2}, list : Seq([oid : Seq(Bytes), value : Seq(Nat), size : Nat])]

\* Every variable has its type.
TypeOK ==
    /\ mib \in Mibs
    /\ tree.data \subseteq Nodes(tree)
    /\ \A node \in Nodes(tree) : ToSet(tree.kids[node]) \subseteq Nodes(tree)
    /\ requests \subseteq Asks /\ replies \subseteq Replies
    /\ walk.seen \in Seq(Seq(Int)) /\ walk.done \in BOOLEAN

Registered == {mib[i] : i \in 1 .. Len(mib)}

\* Lexicographic order.
Less(a, b) ==
    \/ Len(a) < Len(b) /\ IsPrefix(a, b)
    \/ \E i \in 1 .. Len(a) : i <= Len(b) /\ Prefix(a, i - 1) = Prefix(b, i - 1) /\ a[i] < b[i]

\* A walk from anywhere above an object sees the objects after it in order,
\* each of them once, whatever is lost, repeated or late; and it ends after
\* the last one only.
WalkInOrder ==
    LET seen == {walk.seen[i] : i \in 1 .. Len(walk.seen)}
        ahead == {oid \in Registered : Less(walk.start, oid)}
    IN  /\ seen \subseteq ahead
        /\ \A i \in 1 .. Len(walk.seen) - 1 : Less(walk.seen[i], walk.seen[i + 1])
        /\ \A oid \in ahead \ seen : \A s \in seen : Less(s, oid)
        /\ walk.done => seen = ahead

\* The OIDs of a request that are well formed.
Asked(q) ==
    LET asked[i \in 0 .. Len(q.list)] ==
            IF i = 0 THEN <<>>
            ELSE IF get_OID(q.list[i]).ok THEN Append(asked[i - 1], get_OID(q.list[i]).oid)
            ELSE asked[i - 1]
    IN asked[Len(q.list)]

\* The object that is to answer for an OID: itself, or that of which it is .0.
Expected(oid) ==
    {o \in Registered : o = oid} \cup {o \in Registered : Append(o, 0) = oid}

\* How long the reply to a Get for these OIDs would be, without a limit.
FullSize(q, asked) ==
    LET value(oid) == IF Expected(oid) = {} THEN 2 ELSE ValueSize[CHOOSE o \in Expected(oid) : TRUE]
    IN 32 + Community(q)
         + Total([i \in 1 .. Len(asked) |-> 4 + Len(EncodeOid(asked[i])) + value(asked[i])])

\* A reply to a Get has a varbind for every OID that was asked for, in that
\* order and with the value that is registered for it, if that makes a
\* message of less than 256 bytes.
GetsAnswered ==
    \A r \in replies : \A q \in {ask \in OtherAsks : ask.kind = "get" /\ ask.id = r.id} :
        LET asked == Asked(q) IN
        FullSize(q, asked) < Uint8 =>
            /\ Len(r.list) = Len(asked)
            /\ \A i \in 1 .. Len(r.list) :
                /\ r.list[i].oid = EncodeOid(asked[i])
                /\ IF Expected(asked[i]) = {} THEN r.list[i].value = <<>>
                   ELSE r.list[i].value \in Expected(asked[i])

\* No step of a walk is left without an answer, the last one included: the
\* reply to a GetNext has an object or an error.  As the walk is in order and
\* asks again, it ends if the network does not lose everything.
StepsAnswered ==
    \A q \in requests : q.kind = "getnext" =>
        LET sent == gen_reply(q, process_BER(q)) IN
        sent # {} /\ \A r \in sent : r.list # <<>> \/ r.err # 0
=============================================================================
