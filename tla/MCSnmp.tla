------------------------------- MODULE MCSnmp -------------------------------
(* Instances of the SNMP agent for TLC. *)
EXTENDS Snmp

\* The subtrees of init_snmp(), with fewer parts.
System == <<1, 3, 1>>
Iscsi == <<1, 3, 142>>
Ucd == <<1, 3, 2021>>

\* Objects in its order: it goes back to 13 after 100, and to lower ones.
InitSnmp ==
    << System \o <<1, 0>>, System \o <<4, 0>>, Iscsi \o <<1, 1, 10>>, Iscsi \o <<1, 2, 1>>,
       Iscsi \o <<10, 3>>, Iscsi \o <<6, 1>>, Ucd \o <<11, 54>>, Ucd \o <<13, 2>>, Ucd \o <<100, 1>>,
       Ucd \o <<13, 3>>, Ucd \o <<11, 9, 0>> >>

SnmpMibs == {InitSnmp, Reverse(InitSnmp)}

\* A string, a counter that needs 64 bits, and others.
SnmpValueSize ==
    [oid \in {InitSnmp[i] : i \in 1 .. Len(InitSnmp)} |->
        CASE oid = System \o <<4, 0>> -> 44
          [] oid = Iscsi \o <<10, 3>> -> 10
          [] OTHER -> 6]

SnmpStarts == {System, Iscsi \o <<1>>, <<1, 3, 142, 1, 2>>, Ucd \o <<13, 2>>}

Get(id, community, oids) ==
    [kind |-> "get", id |-> id, community |-> community,
     list |-> [i \in 1 .. Len(oids) |-> EncodeOid(oids[i])]]

\* Seven objects and a community that makes the reply 255 or 256 bytes; all
\* objects, which is more; with .0 added, not there, not well formed, not a node with a
\* value; a Set; and junk.
SnmpOtherAsks ==
    {Get(-1, 76, SubSeq(InitSnmp, 1, 7)), Get(-2, 77, SubSeq(InitSnmp, 1, 7)), Get(-3, 40, InitSnmp),
     Get(-4, 0, <<Ucd \o <<11, 54, 0>>, Ucd \o <<99>>, Iscsi \o <<1, 1>>, InitSnmp[1]>>),
     [Get(-5, 0, <<>>) EXCEPT !.list = << <<43, 134>>, <<5, 6>>, EncodeOid(InitSnmp[2]) >>],
     [Get(-6, 0, <<InitSnmp[1]>>) EXCEPT !.kind = "set"],
     [kind |-> "junk"]}
=============================================================================
