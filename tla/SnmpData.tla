------------------------------ MODULE SnmpData ------------------------------
(***************************************************************************)
(* The objects of the SNMP agent (snmp_data.cpp) and how they go over the  *)
(* wire (snmp_elem.cpp, snmp::get_OID).  An OID is a sequence of numbers.  *)
(* A tree has its nodes in kids: for every node (<<>> is the root) its     *)
(* children in the order of their vector; and in data the nodes that have  *)
(* a value.                                                                *)
(***************************************************************************)
EXTENDS Integers, SequencesExt

CONSTANTS
    Uint8  \* modulus of uint8_t

ASSUME Uint8Assumption == Uint8 \in Nat \ {0}

Prefix(oid, n) == SubSeq(oid, 1, n)

EmptyTree == [kids |-> [root \in {<<>>} |-> <<>>], data |-> {}]

Nodes(tree) == DOMAIN tree.kids

\* set_tree_data(): the last number; a node at the top has no dot and keeps 0.
OidIdx(oid) == IF Len(oid) > 1 THEN Last(oid) ELSE 0

\* Mutant: push_back() always.
InsertChildAtEnd(siblings, oid) == Append(siblings, oid)

\* Before the first sibling with a higher number.
InsertChild(siblings, oid) ==
    LET higher == {i \in 1 .. Len(siblings) : OidIdx(oid) < OidIdx(siblings[i])} IN
    InsertAt(siblings, IF higher = {} THEN Len(siblings) + 1 ELSE Min(higher), oid)

\* Of the nodes that are made for an OID, only the last is the element.
HasValue(oid, node) == node = oid

\* A node for every part that is not there; what is there stays as it is.
register_oid(tree, oid) ==
    LET path == {Prefix(oid, i) : i \in 1 .. Len(oid)}
        new == path \ Nodes(tree)
        siblings(parent) == IF parent \in Nodes(tree) THEN tree.kids[parent] ELSE <<>>
        child(parent) == Prefix(oid, Len(parent) + 1)
    IN [kids |-> [node \in Nodes(tree) \cup path |->
                    IF node # oid /\ IsPrefix(node, oid) /\ child(node) \in new
                    THEN InsertChild(siblings(node), child(node)) ELSE siblings(node)],
        data |-> tree.data \cup {node \in new : HasValue(oid, node)}]

\* "null": a node without a value; "none": no such node.
find_by_oid(tree, oid) ==
    IF oid = <<>> \/ oid \notin Nodes(tree) THEN "none"
    ELSE IF oid \in tree.data THEN "data" ELSE "null"

\* Down the first children.
FirstLeaf(tree, node) ==
    LET leaf[n \in Nodes(tree)] == IF tree.kids[n] = <<>> THEN n ELSE leaf[Head(tree.kids[n])]
    IN leaf[node]

IndexIn(tree, node) ==
    CHOOSE i \in 1 .. Len(tree.kids[Front(node)]) : tree.kids[Front(node)][i] = node

\* Up to a node that has a sibling after it, and down from that; <<>> if there
\* is none below the top.
NextLeaf(tree, oid) ==
    LET after == {n \in 2 .. Len(oid) :
                    IndexIn(tree, Prefix(oid, n)) < Len(tree.kids[Prefix(oid, n - 1)])}
    IN IF after = {} THEN <<>>
       ELSE LET up == Prefix(oid, Max(after))
            IN FirstLeaf(tree, tree.kids[Front(up)][IndexIn(tree, up) + 1])

\* The first leaf below as much of the OID as is there, if that is another.
find_next_oid(tree, oid) ==
    LET there == Max({n \in 0 .. Len(oid) : Prefix(oid, n) \in Nodes(tree)})
        leaf == FirstLeaf(tree, Prefix(oid, there))
    IN IF leaf # oid THEN leaf ELSE NextLeaf(tree, oid)

-----------------------------------------------------------------------------
(* The wire. *)

\* The part before the dot of an OID that does not start with 1.3; as a number
\* it is 0.
NoNumber == -1

MaxGroups == (8 * 9) \div 7

\* Seven bits a byte, the lowest first in temp and the highest first on the
\* wire, where all but the last have bit 7 set.
EncodeNumber(number) ==
    LET v[i \in 0 .. MaxGroups] ==
            IF i = 0 THEN IF number = NoNumber THEN 0 ELSE number ELSE v[i - 1] \div 128
        n == CHOOSE i \in 1 .. MaxGroups : v[i] = 0 /\ (i = 1 \/ v[i - 1] # 0)
    IN [k \in 1 .. n |-> (v[n - k] % 128) + (IF k = n THEN 0 ELSE 128)]

\* snmp_oid: 1.3 is one byte if more follows.
EncodeOid(oid) ==
    LET short == Len(oid) > 2 /\ Prefix(oid, 2) = <<1, 3>>
        from == IF short THEN 2 ELSE 0
        p[i \in 0 .. Len(oid) - from] ==
            IF i = 0 THEN IF short THEN <<43>> ELSE <<>>
            ELSE p[i - 1] \o EncodeNumber(oid[from + i])
    IN p[Len(oid) - from]

\* One byte of an OID: v is the number so far.
TakeByte(d, first, byte) ==
    LET v == 128 * d.v + (byte % 128) IN
    IF byte >= 128 THEN [d EXCEPT !.v = v]
    ELSE [v |-> 0,
          oid |-> IF first /\ v = 43 THEN <<1, 3>>
                  ELSE Append(IF d.oid = <<>> THEN <<NoNumber>> ELSE d.oid, v)]

\* It is well formed if the last number ends.
get_OID(bytes) ==
    LET d[i \in 0 .. Len(bytes)] ==
            IF i = 0 THEN [v |-> 0, oid |-> <<>>] ELSE TakeByte(d[i - 1], i = 1, bytes[i])
        end == d[Len(bytes)]
    IN [ok |-> end.v = 0, oid |-> end.oid]

\* Mutant: one element too early.
SequenceAddsLess(s, size) ==
    IF s.full \/ s.o + size >= Uint8 - 1 THEN [s EXCEPT !.full = TRUE]
    ELSE [s EXCEPT !.o = @ + size, !.n = @ + 1]

\* snmp_sequence::get_payload() adds elements as long as they fit in its
\* buffer; the length o is a uint8_t and wraps when it is exactly full.  What
\* comes after that goes over the beginning: it is not whole any more.
SequenceAdds(s, size) ==
    IF s.full \/ s.o + size >= Uint8 + 1 THEN [s EXCEPT !.full = TRUE]
    ELSE [s EXCEPT !.o = (@ + size) % Uint8, !.n = @ + 1, !.whole = @ /\ s.o + size < Uint8]

\* Its length o and the number n of elements in it.
Sequence(sizes) ==
    LET added[i \in 0 .. Len(sizes)] ==
            IF i = 0 THEN [o |-> 2, n |-> 0, full |-> FALSE, whole |-> TRUE]
            ELSE SequenceAdds(added[i - 1], sizes[i])
    IN added[Len(sizes)]
=============================================================================
