----------------------------- MODULE SnmpProofs -----------------------------
(***************************************************************************)
(* Proofs for the SNMP agent: what the tree of objects is after any        *)
(* registrations, that find_next_oid() gives the next object, that OIDs    *)
(* survive the wire and replies their lengths; and from these that walks   *)
(* are in order and complete, and Gets and GetNexts answered.              *)
(***************************************************************************)
EXTENDS Snmp, InductionLemmas, SequenceTheorems, TLAPS

-----------------------------------------------------------------------------
(* Loops and prefixes. *)

\* Induction up to n, for a set.
LEMMA InductTo ==
    ASSUME NEW n \in Nat, NEW T, 0 \in T, \A i \in 1 .. n : i - 1 \in T => i \in T
    PROVE  0 .. n \subseteq T
<1> DEFINE P == {i \in Nat : i <= n => i \in T}
<1>1. 0 \in P
    OBVIOUS
<1>2. ASSUME NEW i \in Nat, i \in P PROVE i + 1 \in P
    <2>1. SUFFICES ASSUME i + 1 <= n PROVE i + 1 \in T
        OBVIOUS
    <2>2. i \in T /\ i + 1 \in 1 .. n /\ (i + 1) - 1 = i
        BY <1>2, <2>1
    <2>3. QED
        BY <2>2
<1> HIDE DEF P
<1>3. Nat \subseteq P
    BY <1>1, <1>2, Induct
<1>4. QED
    BY <1>3 DEF P

\* OIDs as get_OID() can give them.
U == Seq(Int)

\* a is the beginning of b, number by number.
Begins(a, b) == Len(a) <= Len(b) /\ \A i \in 1 .. Len(a) : a[i] = b[i]

\* What Prefix() takes.
LEMMA PrefixFacts ==
    ASSUME NEW s \in U, NEW n \in 0 .. Len(s)
    PROVE  /\ Prefix(s, n) \in U /\ Len(Prefix(s, n)) = n
           /\ \A i \in 1 .. n : Prefix(s, n)[i] = s[i]
BY DEF Prefix, U

LEMMA PrefixFull == ASSUME NEW s \in U PROVE Prefix(s, Len(s)) = s
<1>1. /\ Prefix(s, Len(s)) \in U /\ Len(Prefix(s, Len(s))) = Len(s)
      /\ \A i \in 1 .. Len(s) : Prefix(s, Len(s))[i] = s[i]
    BY PrefixFacts DEF U
<1>2. QED
    BY <1>1, SeqEqual DEF U

\* Begins is what taking a prefix and comparing says.
LEMMA BeginsPrefix ==
    ASSUME NEW a \in U, NEW b \in U PROVE Begins(a, b) <=> Len(a) <= Len(b) /\ Prefix(b, Len(a)) = a
<1>1. Len(a) \in Nat /\ Len(b) \in Nat
    BY DEF U
<1>2. ASSUME Len(a) <= Len(b) PROVE Prefix(b, Len(a)) = a <=> \A i \in 1 .. Len(a) : a[i] = b[i]
    <2>1. /\ Prefix(b, Len(a)) \in U /\ Len(Prefix(b, Len(a))) = Len(a)
          /\ \A i \in 1 .. Len(a) : Prefix(b, Len(a))[i] = b[i]
        BY <1>1, <1>2, PrefixFacts
    <2>2. QED
        BY <2>1, SeqEqual DEF U
<1>3. QED
    BY <1>2 DEF Begins

\* And what IsPrefix of the library says.
LEMMA IsPrefixBegins ==
    ASSUME NEW a \in U, NEW b \in U PROVE IsPrefix(a, b) <=> Begins(a, b)
<1>1. Prefix(a, Len(a)) = a
    BY PrefixFull
<1>2. QED
    BY <1>1, BeginsPrefix DEF IsPrefix, Prefix

LEMMA BeginsSame == ASSUME NEW a \in U, NEW b \in U, Begins(a, b), Len(a) = Len(b) PROVE a = b
BY SeqEqual DEF U, Begins

\* The prefix of length n of what begins with a is a, or a prefix of a.
LEMMA PrefixBegins ==
    ASSUME NEW b \in U, NEW n \in 0 .. Len(b)
    PROVE  /\ Begins(Prefix(b, n), b)
           /\ \A a \in U : Begins(a, b) /\ Len(a) <= n => Begins(a, Prefix(b, n))
           /\ \A a \in U : Begins(a, b) /\ Len(a) >= n => Begins(Prefix(b, n), a)
           /\ \A a \in U : Begins(b, a) => Prefix(a, n) = Prefix(b, n)
<1>1. Len(b) \in Nat /\ n <= Len(b)
    BY DEF U
<1>2. /\ Prefix(b, n) \in U /\ Len(Prefix(b, n)) = n
      /\ \A i \in 1 .. n : Prefix(b, n)[i] = b[i]
    BY PrefixFacts
<1>3. ASSUME NEW a \in U PROVE Len(a) \in Nat
    BY DEF U
<1>4. ASSUME NEW a \in U, Begins(b, a) PROVE Prefix(a, n) = Prefix(b, n)
    <2>1. n \in 0 .. Len(a) /\ \A i \in 1 .. n : a[i] = b[i]
        BY <1>1, <1>3, <1>4 DEF Begins
    <2>2. /\ Prefix(a, n) \in U /\ Len(Prefix(a, n)) = n
          /\ \A i \in 1 .. n : Prefix(a, n)[i] = a[i]
        BY <2>1, PrefixFacts
    <2>3. QED
        BY <1>2, <2>1, <2>2, SeqEqual DEF U
<1>5. QED
    BY <1>1, <1>2, <1>3, <1>4 DEF Begins

-----------------------------------------------------------------------------
(* The order of OIDs. *)

\* The first difference is at i.
LessAt(a, b, i) ==
    i \in 1 .. Len(a) /\ i <= Len(b) /\ (\A j \in 1 .. i - 1 : a[j] = b[j]) /\ a[i] < b[i]

\* Less, number by number.
LEMMA LessIs ==
    ASSUME NEW a \in U, NEW b \in U
    PROVE  Less(a, b) <=> \/ Len(a) < Len(b) /\ Begins(a, b)
                          \/ \E i \in 1 .. Len(a) : LessAt(a, b, i)
<1>1. Len(a) \in Nat /\ Len(b) \in Nat
    BY DEF U
<1>2. IsPrefix(a, b) <=> Begins(a, b)
    BY IsPrefixBegins
<1>3. ASSUME NEW i \in 1 .. Len(a), i <= Len(b)
      PROVE  Prefix(a, i - 1) = Prefix(b, i - 1) <=> \A j \in 1 .. i - 1 : a[j] = b[j]
    <2>1. i - 1 \in 0 .. Len(a) /\ i - 1 \in 0 .. Len(b)
        BY <1>1, <1>3
    <2>2. /\ Prefix(a, i - 1) \in U /\ Len(Prefix(a, i - 1)) = i - 1
          /\ \A j \in 1 .. i - 1 : Prefix(a, i - 1)[j] = a[j]
        BY <2>1, PrefixFacts
    <2>3. /\ Prefix(b, i - 1) \in U /\ Len(Prefix(b, i - 1)) = i - 1
          /\ \A j \in 1 .. i - 1 : Prefix(b, i - 1)[j] = b[j]
        BY <2>1, PrefixFacts
    <2>4. QED
        BY <2>2, <2>3, SeqEqual DEF U
<1>4. QED
    BY <1>2, <1>3 DEF Less, LessAt

\* The order is transitive.
LEMMA LessTrans ==
    ASSUME NEW a \in U, NEW b \in U, NEW c \in U, Less(a, b), Less(b, c) PROVE Less(a, c)
<1>1. Len(a) \in Nat /\ Len(b) \in Nat /\ Len(c) \in Nat
    BY DEF U
<1>2. /\ \A i \in 1 .. Len(a) : a[i] \in Int
      /\ \A i \in 1 .. Len(b) : b[i] \in Int
      /\ \A i \in 1 .. Len(c) : c[i] \in Int
    BY DEF U
<1>3. CASE Len(a) < Len(b) /\ Begins(a, b) /\ Len(b) < Len(c) /\ Begins(b, c)
    <2>1. Len(a) < Len(c) /\ Begins(a, c)
        BY <1>1, <1>3 DEF Begins
    <2>2. QED
        BY <2>1, LessIs
<1>4. ASSUME Len(a) < Len(b), Begins(a, b), NEW i \in 1 .. Len(b), LessAt(b, c, i)
      PROVE  Less(a, c)
    <2>1. CASE i <= Len(a)
        <3>1. LessAt(a, c, i) /\ i \in 1 .. Len(a)
            BY <1>1, <1>4, <2>1 DEF Begins, LessAt
        <3>2. QED
            BY <3>1, LessIs
    <2>2. CASE i > Len(a)
        <3>1. Len(a) < Len(c) /\ Begins(a, c)
            BY <1>1, <1>4, <2>2 DEF Begins, LessAt
        <3>2. QED
            BY <3>1, LessIs
    <2>3. QED
        BY <1>1, <2>1, <2>2
<1>5. ASSUME NEW i \in 1 .. Len(a), LessAt(a, b, i), Len(b) < Len(c), Begins(b, c)
      PROVE  Less(a, c)
    <2>1. LessAt(a, c, i)
        BY <1>1, <1>5 DEF Begins, LessAt
    <2>2. QED
        BY <2>1, LessIs
<1>6. ASSUME NEW i \in 1 .. Len(a), LessAt(a, b, i), NEW k \in 1 .. Len(b), LessAt(b, c, k)
      PROVE  Less(a, c)
    <2>0. /\ i \in Nat /\ k \in Nat /\ i <= Len(a) /\ i <= Len(b) /\ k <= Len(b) /\ k <= Len(c)
          /\ a[i] < b[i] /\ b[k] < c[k]
          /\ \A j \in 1 .. i - 1 : a[j] = b[j]
          /\ \A j \in 1 .. k - 1 : b[j] = c[j]
        BY <1>1, <1>6 DEF LessAt
    <2>1. CASE i <= k
        <3>1. \A j \in 1 .. i - 1 : a[j] = c[j]
            BY <2>0, <2>1
        <3>2. CASE i < k
            BY <1>1, <1>6, <2>0, <3>1, <3>2, LessIs DEF LessAt
        <3>3. CASE i = k
            <4>1. a[i] \in Int /\ b[i] \in Int /\ c[i] \in Int
                BY <1>1, <1>2, <2>0, <1>6, <3>3
            <4>2. a[i] < c[i]
                BY <2>0, <3>3, <4>1
            <4>3. QED
                BY <1>1, <1>6, <2>0, <3>1, <3>3, <4>2, LessIs DEF LessAt
        <3>4. QED
            BY <2>0, <2>1, <3>2, <3>3
    <2>2. CASE k < i
        <3>1. a[k] < c[k] /\ \A j \in 1 .. k - 1 : a[j] = c[j]
            BY <1>6, <2>0, <2>2
        <3>2. k \in 1 .. Len(a)
            BY <1>1, <1>6, <2>0, <2>2
        <3>3. QED
            BY <2>0, <3>1, <3>2, LessIs DEF LessAt
    <2>3. QED
        BY <2>0, <2>1, <2>2
<1>7. QED
    BY <1>3, <1>4, <1>5, <1>6, LessIs

-----------------------------------------------------------------------------
(* A vector of children. *)

Inserted(t, s, k, c) ==
    /\ k \in 1 .. Len(s) + 1 /\ Len(t) = Len(s) + 1 /\ t[k] = c
    /\ \A j \in 1 .. k - 1 : t[j] = s[j]
    /\ \A j \in k .. Len(s) : t[j + 1] = s[j]

\* InsertAt puts one in and moves up the rest.
LEMMA InsertAtIs ==
    ASSUME NEW S, NEW s \in Seq(S), NEW c \in S, NEW k \in 1 .. Len(s) + 1
    PROVE  InsertAt(s, k, c) \in Seq(S) /\ Inserted(InsertAt(s, k, c), s, k, c)
<1> DEFINE n == Len(s)
           A == SubSeq(s, 1, k - 1)
           B == SubSeq(s, k, n)
           M == A \o <<c>>
<1>1. n \in Nat /\ k \in Nat /\ k >= 1 /\ k <= n + 1
    OBVIOUS
<1>2. A \in Seq(S) /\ Len(A) = k - 1 /\ \A j \in 1 .. k - 1 : A[j] = s[j]
    BY <1>1
<1>3. B \in Seq(S) /\ Len(B) = n - k + 1 /\ \A j \in 1 .. n - k + 1 : B[j] = s[k + j - 1]
    BY <1>1
<1>4. <<c>> \in Seq(S) /\ Len(<<c>>) = 1 /\ <<c>>[1] = c
    OBVIOUS
<1> HIDE DEF A, B, n
<1>5. M \in Seq(S) /\ Len(M) = k /\ M[k] = c /\ \A j \in 1 .. k - 1 : M[j] = s[j]
    BY <1>1, <1>2, <1>4
<1> HIDE DEF M
<1>6. /\ M \o B \in Seq(S) /\ Len(M \o B) = n + 1
      /\ \A j \in 1 .. k : (M \o B)[j] = M[j]
      /\ \A j \in 1 .. n - k + 1 : (M \o B)[k + j] = B[j]
    BY <1>1, <1>3, <1>5
<1>7. ASSUME NEW j \in k .. n PROVE (M \o B)[j + 1] = s[j]
    <2>1. j - k + 1 \in 1 .. n - k + 1 /\ k + (j - k + 1) = j + 1 /\ k + (j - k + 1) - 1 = j
        BY <1>1
    <2>2. (M \o B)[k + (j - k + 1)] = B[j - k + 1] /\ B[j - k + 1] = s[k + (j - k + 1) - 1]
        BY <1>3, <1>6, <2>1
    <2>3. QED
        BY <2>1, <2>2
<1>8. InsertAt(s, k, c) = M \o B
    BY DEF InsertAt, M, A, B, n
<1>9. Inserted(M \o B, s, k, c)
    BY <1>1, <1>5, <1>6, <1>7 DEF Inserted, n
<1>10. QED
    BY <1>6, <1>8, <1>9

Sorted(s) == \A i, j \in 1 .. Len(s) : i < j => OidIdx(s[i]) < OidIdx(s[j])

LEMMA OidIdxInt == ASSUME NEW oid \in U PROVE OidIdx(oid) \in Int
BY DEF OidIdx, Last, U

\* The place before the first with a higher number.
LEMMA InsertChildPlace ==
    ASSUME NEW s \in Seq(U), NEW c \in U
    PROVE  \E k \in 1 .. Len(s) + 1 :
              /\ InsertChild(s, c) = InsertAt(s, k, c)
              /\ \A j \in 1 .. k - 1 : ~(OidIdx(c) < OidIdx(s[j]))
              /\ k <= Len(s) => OidIdx(c) < OidIdx(s[k])
<1> DEFINE higher == {i \in 1 .. Len(s) : OidIdx(c) < OidIdx(s[i])}
<1>1. Len(s) \in Nat
    OBVIOUS
<1>2. CASE higher = {}
    <2>1. InsertChild(s, c) = InsertAt(s, Len(s) + 1, c)
        BY <1>2 DEF InsertChild
    <2>2. \A j \in 1 .. (Len(s) + 1) - 1 : ~(OidIdx(c) < OidIdx(s[j]))
        BY <1>1, <1>2
    <2>3. QED
        BY <1>1, <2>1, <2>2
<1>3. CASE higher # {}
    <2>1. higher \in SUBSET Nat
        OBVIOUS
    <2>2. \E x \in higher : \A y \in higher : x <= y
        <3> HIDE DEF higher
        <3>1. QED
            BY <1>3, <2>1, LeastElement
    <2>3. Min(higher) \in higher /\ \A y \in higher : Min(higher) <= y
        <3> HIDE DEF higher
        <3>1. QED
            BY <2>2 DEF Min
    <2>4. InsertChild(s, c) = InsertAt(s, Min(higher), c)
        BY <1>3 DEF InsertChild
    <2> DEFINE k == Min(higher)
    <2>5. k \in higher /\ (\A y \in higher : k <= y) /\ InsertChild(s, c) = InsertAt(s, k, c)
        BY <2>3, <2>4
    <2> HIDE DEF k
    <2>6. \A j \in 1 .. k - 1 : ~(OidIdx(c) < OidIdx(s[j]))
        BY <1>1, <2>5
    <2>7. QED
        BY <1>1, <2>5, <2>6
<1>4. QED
    BY <1>2, <1>3

\* A vector of siblings stays sorted.
LEMMA InsertChildSorted ==
    ASSUME NEW s \in Seq(U), NEW c \in U, Sorted(s), \A i \in 1 .. Len(s) : OidIdx(s[i]) # OidIdx(c)
    PROVE  /\ InsertChild(s, c) \in Seq(U) /\ Sorted(InsertChild(s, c))
           /\ \E k : Inserted(InsertChild(s, c), s, k, c)
<1>1. PICK k \in 1 .. Len(s) + 1 :
              /\ InsertChild(s, c) = InsertAt(s, k, c)
              /\ \A j \in 1 .. k - 1 : ~(OidIdx(c) < OidIdx(s[j]))
              /\ k <= Len(s) => OidIdx(c) < OidIdx(s[k])
    BY InsertChildPlace
<1> DEFINE t == InsertChild(s, c)
<1>2. t \in Seq(U) /\ Inserted(t, s, k, c)
    BY <1>1, InsertAtIs
<1> HIDE DEF t
<1>3. Len(s) \in Nat /\ OidIdx(c) \in Int /\ \A i \in 1 .. Len(s) : OidIdx(s[i]) \in Int
    BY OidIdxInt
<1>4. ASSUME NEW j \in 1 .. k - 1 PROVE OidIdx(s[j]) < OidIdx(c)
    <2>1. j \in 1 .. Len(s)
        BY <1>3
    <2>2. QED
        BY <1>1, <1>3, <2>1
<1>5. ASSUME NEW j \in k .. Len(s) PROVE OidIdx(c) < OidIdx(s[j])
    <2>1. k \in 1 .. Len(s) /\ j \in 1 .. Len(s) /\ (k = j \/ k < j)
        BY <1>3
    <2>2. OidIdx(c) < OidIdx(s[k]) /\ (k < j => OidIdx(s[k]) < OidIdx(s[j]))
        BY <1>1, <2>1 DEF Sorted
    <2>3. QED
        BY <1>3, <2>1, <2>2
<1>6. ASSUME NEW i \in 1 .. Len(t), NEW j \in 1 .. Len(t), i < j PROVE OidIdx(t[i]) < OidIdx(t[j])
    <2>0. /\ Len(t) = Len(s) + 1 /\ t[k] = c
          /\ \A x \in 1 .. k - 1 : t[x] = s[x]
          /\ \A x \in k .. Len(s) : t[x + 1] = s[x]
        BY <1>2 DEF Inserted
    <2>1. CASE j < k
        <3>1. t[i] = s[i] /\ t[j] = s[j] /\ i \in 1 .. Len(s) /\ j \in 1 .. Len(s)
            BY <1>3, <1>6, <2>0, <2>1
        <3>2. QED
            BY <1>6, <3>1 DEF Sorted
    <2>2. CASE j = k
        <3>1. t[i] = s[i] /\ i \in 1 .. k - 1
            BY <1>3, <1>6, <2>0, <2>2
        <3>2. QED
            BY <1>4, <2>0, <2>2, <3>1
    <2>3. CASE j > k
        <3>1. j - 1 \in k .. Len(s) /\ j - 1 \in 1 .. Len(s) /\ (j - 1) + 1 = j
            BY <1>3, <1>6, <2>0, <2>3
        <3>2. t[j] = s[j - 1]
            BY <2>0, <3>1
        <3>3. CASE i = k
            BY <1>5, <2>0, <3>1, <3>2, <3>3
        <3>4. CASE i < k
            <4>1. i \in 1 .. k - 1 /\ t[i] = s[i] /\ i \in 1 .. Len(s)
                BY <1>3, <1>6, <2>0, <3>4
            <4>2. OidIdx(s[i]) < OidIdx(c) /\ OidIdx(c) < OidIdx(s[j - 1])
                BY <1>4, <1>5, <3>1, <4>1
            <4>3. OidIdx(s[i]) \in Int /\ OidIdx(s[j - 1]) \in Int /\ OidIdx(c) \in Int
                BY <1>3, <3>1, <4>1
            <4>4. OidIdx(s[i]) < OidIdx(s[j - 1])
                BY <4>2, <4>3
            <4>5. QED
                BY <3>2, <4>1, <4>4
        <3>5. CASE i > k
            <4>1. i - 1 \in k .. Len(s) /\ i - 1 \in 1 .. Len(s) /\ (i - 1) + 1 = i /\ i - 1 < j - 1
                BY <1>3, <1>6, <2>0, <3>5
            <4>2. t[i] = s[i - 1]
                BY <2>0, <4>1
            <4>3. QED
                BY <3>1, <3>2, <4>1, <4>2 DEF Sorted
        <3>6. QED
            BY <1>3, <1>6, <2>0, <3>3, <3>4, <3>5
    <2>4. QED
        BY <1>3, <1>6, <2>0, <2>1, <2>2, <2>3
<1>7. QED
    BY <1>2, <1>6 DEF t, Sorted

-----------------------------------------------------------------------------
(* The tree. *)

ChildOf(c, n) == Len(c) = Len(n) + 1 /\ Begins(n, c)

\* What can be registered: no OID is the beginning of another, and there is
\* one node at the top.
Sound(R) ==
    /\ R \subseteq U
    /\ \A o \in R : Len(o) > 1
    /\ \A o, p \in R : o[1] = p[1] /\ (o # p => ~Begins(o, p))

NodesOf(R) == {p \in U : p = <<>> \/ \E o \in R : Begins(p, o)}

Children(tree_, n, s) ==
    /\ s \in Seq(U) /\ Sorted(s)
    /\ \A i \in 1 .. Len(s) : s[i] \in Nodes(tree_) /\ ChildOf(s[i], n)

\* The tree after registering R: the vectors are sorted and have all children.
Grown(tree_, R) ==
    /\ tree_.data = R /\ Nodes(tree_) = NodesOf(R)
    /\ \A n \in Nodes(tree_) : Children(tree_, n, tree_.kids[n])
    /\ \A n, c \in Nodes(tree_) :
          ChildOf(c, n) => \E i \in 1 .. Len(tree_.kids[n]) : tree_.kids[n][i] = c

\* Nothing is registered in the empty tree.
LEMMA GrownEmpty == Grown(EmptyTree, {})
<1>1. <<>> \in U /\ Len(<<>>) = 0 /\ <<>> \in Seq(U)
    BY DEF U
<1>2. Nodes(EmptyTree) = {<<>>} /\ EmptyTree.kids[<<>>] = <<>> /\ EmptyTree.data = {}
    BY DEF Nodes, EmptyTree
<1>3. NodesOf({}) = {<<>>}
    BY <1>1 DEF NodesOf
<1>4. Children(EmptyTree, <<>>, <<>>)
    BY <1>1 DEF Children, Sorted
<1>5. ~ChildOf(<<>>, <<>>)
    BY <1>1 DEF ChildOf
<1>6. QED
    BY <1>2, <1>3, <1>4, <1>5 DEF Grown

\* Siblings with the same last number are the same, below the one top.
LEMMA SameChild ==
    ASSUME NEW c \in U, NEW e \in U, NEW n \in U, ChildOf(c, n), ChildOf(e, n),
           c[1] = e[1], OidIdx(c) = OidIdx(e)
    PROVE  c = e
<1>1. Len(n) \in Nat /\ Len(c) = Len(n) + 1 /\ Len(e) = Len(n) + 1
    BY DEF ChildOf, U
<1>2. \A i \in 1 .. Len(n) : c[i] = e[i]
    BY <1>1 DEF ChildOf, Begins
<1>3. c[Len(n) + 1] = e[Len(n) + 1]
    <2>1. CASE Len(n) = 0
        BY <2>1
    <2>2. CASE Len(n) > 0
        BY <1>1, <2>2 DEF OidIdx, Last
    <2>3. QED
        BY <1>1, <2>1, <2>2
<1>4. \A i \in 1 .. Len(c) : c[i] = e[i]
    BY <1>1, <1>2, <1>3
<1>5. QED
    BY <1>1, <1>4, SeqEqual DEF U

LEMMA BeginsTrans ==
    ASSUME NEW a \in U, NEW b \in U, NEW c \in U, Begins(a, b), Begins(b, c) PROVE Begins(a, c)
<1>1. Len(a) \in Nat /\ Len(b) \in Nat /\ Len(c) \in Nat
    BY DEF U
<1>2. QED
    BY <1>1 DEF Begins

\* The beginning of a node is a node.
LEMMA NodesClosed ==
    ASSUME NEW R, Sound(R), NEW c \in NodesOf(R), NEW n \in U, Begins(n, c) PROVE n \in NodesOf(R)
<1>1. CASE c = <<>>
    <2>1. n = <<>>
        BY <1>1 DEF Begins, U
    <2>2. QED
        BY <2>1 DEF NodesOf
<1>2. ASSUME NEW o \in R, Begins(c, o) PROVE n \in NodesOf(R)
    <2>1. o \in U /\ c \in U
        BY DEF Sound, NodesOf
    <2>2. Begins(n, o)
        BY <1>2, <2>1, BeginsTrans
    <2>3. QED
        BY <2>2 DEF NodesOf
<1>3. QED
    BY <1>1, <1>2 DEF NodesOf

\* A node has the first number of every object.
LEMMA OneTop ==
    ASSUME NEW R, Sound(R), NEW o \in R, NEW c \in NodesOf(R), c # <<>> PROVE c[1] = o[1]
<1>1. PICK p \in R : Begins(c, p)
    BY DEF NodesOf
<1>2. c \in U /\ Len(c) \in Nat /\ Len(c) # 0
    BY DEF NodesOf, U
<1>3. c[1] = p[1]
    BY <1>1, <1>2 DEF Begins
<1>4. QED
    BY <1>3 DEF Sound

\* register_oid() makes of the tree of R the tree of R with one more.
LEMMA Registers ==
    ASSUME NEW tree_, NEW R, NEW oid \in U, oid \notin R, Sound(R \cup {oid}), Grown(tree_, R)
    PROVE  Grown(register_oid(tree_, oid), R \cup {oid})
<1> DEFINE N == Nodes(tree_)
           path == {Prefix(oid, i) : i \in 1 .. Len(oid)}
           new == path \ N
           sib(n) == IF n \in N THEN tree_.kids[n] ELSE <<>>
           child(n) == Prefix(oid, Len(n) + 1)
           t == register_oid(tree_, oid)
           grows(n) == n # oid /\ IsPrefix(n, oid) /\ child(n) \in new
           R2 == R \cup {oid}
<1>1. /\ t.kids = [n \in N \cup path |-> IF grows(n) THEN InsertChild(sib(n), child(n)) ELSE sib(n)]
      /\ t.data = tree_.data \cup {n \in new : n = oid}
    BY DEF register_oid, HasValue
<1>2. Sound(R) /\ oid # <<>> /\ Len(oid) \in Nat /\ Len(oid) > 1
    BY DEF Sound, U
<1>3. N = NodesOf(R) /\ N \subseteq U /\ <<>> \in N
    BY DEF Grown, NodesOf, U
<1>4. path = {p \in U : Begins(p, oid) /\ p # <<>>}
    <2>1. ASSUME NEW i \in 1 .. Len(oid)
          PROVE  Prefix(oid, i) \in U /\ Begins(Prefix(oid, i), oid) /\ Prefix(oid, i) # <<>>
        <3>1. i \in 0 .. Len(oid) /\ i # 0
            BY <1>2
        <3>2. Len(Prefix(oid, i)) = i /\ Prefix(oid, i) \in U
            BY <3>1, PrefixFacts
        <3>3. Begins(Prefix(oid, i), oid)
            BY <3>1, PrefixBegins
        <3>4. QED
            BY <3>1, <3>2, <3>3
    <2>2. ASSUME NEW p \in U, Begins(p, oid), p # <<>> PROVE \E i \in 1 .. Len(oid) : p = Prefix(oid, i)
        <3>1. Len(p) \in 1 .. Len(oid)
            BY <1>2, <2>2 DEF Begins, U
        <3>2. Prefix(oid, Len(p)) = p
            BY <2>2, BeginsPrefix
        <3>3. QED
            BY <3>1, <3>2
    <2>3. QED
        BY <2>1, <2>2
<1> HIDE DEF path
<1>5. Nodes(t) = N \cup path
    BY <1>1 DEF Nodes
<1>6. Nodes(t) = NodesOf(R2)
    BY <1>3, <1>4, <1>5 DEF NodesOf
<1>7. oid \in path /\ oid \notin N
    <2>1. Begins(oid, oid)
        BY <1>2 DEF Begins
    <2>2. \A o \in R : ~Begins(oid, o)
        BY DEF Sound
    <2>3. QED
        BY <1>2, <1>3, <1>4, <2>1, <2>2 DEF NodesOf
<1>8. t.data = R2
    BY <1>1, <1>7 DEF Grown
<1>9. \A n \in Nodes(t) : t.kids[n] = IF grows(n) THEN InsertChild(sib(n), child(n)) ELSE sib(n)
    BY <1>1, <1>5
<1> HIDE DEF t
<1>10. ASSUME NEW n \in Nodes(t)
       PROVE  n \in U /\ sib(n) \in Seq(U) /\ Children(tree_, n, sib(n))
    <2>1. n \in U
        BY <1>6 DEF NodesOf
    <2>2. CASE n \in N
        BY <2>1, <2>2 DEF Grown, Children
    <2>3. CASE n \notin N
        <3>1. sib(n) = <<>> /\ <<>> \in Seq(U) /\ Len(<<>>) = 0
            BY <2>3 DEF U
        <3>2. Children(tree_, n, <<>>)
            BY <3>1 DEF Children, Sorted
        <3>3. QED
            BY <2>1, <3>1, <3>2
    <2>4. QED
        BY <2>2, <2>3
<1>11. ASSUME NEW n \in Nodes(t), grows(n)
       PROVE  /\ child(n) \in U /\ ChildOf(child(n), n) /\ child(n) \in path /\ child(n) \notin N
              /\ \A i \in 1 .. Len(sib(n)) : OidIdx(sib(n)[i]) # OidIdx(child(n))
    <2>1. n \in U /\ Begins(n, oid) /\ n # oid /\ child(n) \in path /\ child(n) \notin N /\ Len(n) \in Nat
        BY <1>10, <1>11, IsPrefixBegins DEF U
    <2>2. Len(n) + 1 \in 0 .. Len(oid)
        BY <1>2, <2>1, BeginsSame DEF Begins
    <2>3. child(n) \in U /\ Len(child(n)) = Len(n) + 1 /\ \A i \in 1 .. Len(n) + 1 : child(n)[i] = oid[i]
        BY <2>2, PrefixFacts
    <2>4. ChildOf(child(n), n)
        BY <2>1, <2>3 DEF ChildOf, Begins
    <2>5. ASSUME NEW i \in 1 .. Len(sib(n)), OidIdx(sib(n)[i]) = OidIdx(child(n)) PROVE FALSE
        <3> DEFINE e == sib(n)[i]
        <3>1. e \in N /\ ChildOf(e, n) /\ e \in U
            BY <1>3, <1>10 DEF Children
        <3>2. child(n)[1] = oid[1]
            BY <2>1, <2>3
        <3>3. e # <<>>
            BY <2>1, <3>1 DEF ChildOf
        <3>4. e \in NodesOf(R2)
            BY <1>5, <1>6, <3>1
        <3>5. e[1] = oid[1]
            BY <3>3, <3>4, OneTop
        <3>6. e = child(n)
            <4> HIDE DEF child, e
            <4>1. QED
                BY <2>1, <2>3, <2>4, <2>5, <3>1, <3>2, <3>5, SameChild DEF e
        <3>7. QED
            BY <2>1, <3>1, <3>6
    <2>6. QED
        BY <2>1, <2>3, <2>4, <2>5
<1> HIDE DEF child, sib, grows, N
<1>12. ASSUME NEW n \in Nodes(t), grows(n)
       PROVE  /\ InsertChild(sib(n), child(n)) \in Seq(U) /\ Sorted(InsertChild(sib(n), child(n)))
              /\ \E k : Inserted(InsertChild(sib(n), child(n)), sib(n), k, child(n))
    <2>1. sib(n) \in Seq(U) /\ Sorted(sib(n)) /\ child(n) \in U
        BY <1>10, <1>11, <1>12 DEF Children
    <2>2. QED
        BY <1>11, <1>12, <2>1, InsertChildSorted
<1>13. ASSUME NEW n \in Nodes(t) PROVE Children(t, n, t.kids[n])
    <2>1. CASE grows(n)
        <3> DEFINE s == sib(n)
                   c == child(n)
                   v == InsertChild(s, c)
        <3>1. v \in Seq(U) /\ Sorted(v) /\ t.kids[n] = v
            BY <1>9, <1>12, <2>1
        <3>2. PICK k : Inserted(v, s, k, c)
            BY <1>12, <2>1
        <3>3. s \in Seq(U) /\ \A i \in 1 .. Len(s) : s[i] \in Nodes(t) /\ ChildOf(s[i], n)
            BY <1>5, <1>10 DEF Children, N
        <3>4. c \in Nodes(t) /\ ChildOf(c, n)
            BY <1>5, <1>11, <2>1
        <3> HIDE DEF v, s, c
        <3>5. ASSUME NEW i \in 1 .. Len(v) PROVE v[i] \in Nodes(t) /\ ChildOf(v[i], n)
            <4>1. /\ Len(s) \in Nat /\ k \in 1 .. Len(s) + 1 /\ Len(v) = Len(s) + 1 /\ v[k] = c
                  /\ \A j \in 1 .. k - 1 : v[j] = s[j]
                  /\ \A j \in k .. Len(s) : v[j + 1] = s[j]
                BY <3>2, <3>3 DEF Inserted
            <4>2. CASE i < k
                <5>1. i \in 1 .. Len(s) /\ i \in 1 .. k - 1
                    BY <4>1, <4>2
                <5>2. QED
                    BY <3>3, <4>1, <5>1
            <4>3. CASE i = k
                BY <3>4, <4>1, <4>3
            <4>4. CASE i > k
                <5>1. i - 1 \in k .. Len(s) /\ i - 1 \in 1 .. Len(s) /\ (i - 1) + 1 = i
                    BY <4>1, <4>4
                <5>2. v[i] = s[i - 1]
                    BY <4>1, <5>1
                <5>3. QED
                    BY <3>3, <5>1, <5>2
            <4>5. QED
                BY <4>1, <4>2, <4>3, <4>4
        <3>6. QED
            BY <3>1, <3>5 DEF Children
    <2>2. CASE ~grows(n)
        <3>1. t.kids[n] = sib(n) /\ Children(tree_, n, sib(n))
            BY <1>9, <1>10, <2>2
        <3>2. QED
            BY <1>5, <3>1 DEF Children, N
    <2>3. QED
        BY <2>1, <2>2
<1>14. ASSUME NEW n \in Nodes(t), NEW c \in Nodes(t), ChildOf(c, n)
       PROVE  \E i \in 1 .. Len(t.kids[n]) : t.kids[n][i] = c
    <2>0. n \in U /\ c \in U /\ sib(n) \in Seq(U) /\ Len(n) \in Nat
        BY <1>10, <1>14 DEF U
    <2>1. CASE c \in N
        <3>1. n \in N
            BY <1>2, <1>3, <1>14, <2>0, <2>1, NodesClosed DEF ChildOf
        <3>2. PICK i \in 1 .. Len(sib(n)) : sib(n)[i] = c
            BY <1>14, <2>1, <3>1 DEF Grown, N, sib
        <3>3. CASE grows(n)
            <4> DEFINE s == sib(n)
                       v == InsertChild(s, child(n))
            <4>1. PICK k : Inserted(v, s, k, child(n))
                BY <1>12, <3>3
            <4>2. t.kids[n] = v
                BY <1>9, <3>3
            <4>3. s[i] = c /\ i \in 1 .. Len(s) /\ Len(s) \in Nat
                BY <2>0, <3>2
            <4> HIDE DEF v, s
            <4>4. /\ k \in 1 .. Len(s) + 1 /\ Len(v) = Len(s) + 1
                  /\ \A j \in 1 .. k - 1 : v[j] = s[j]
                  /\ \A j \in k .. Len(s) : v[j + 1] = s[j]
                BY <4>1 DEF Inserted
            <4>5. CASE i < k
                <5>1. i \in 1 .. k - 1 /\ i \in 1 .. Len(v)
                    BY <4>3, <4>4, <4>5
                <5>2. QED
                    BY <4>2, <4>3, <4>4, <5>1
            <4>6. CASE i >= k
                <5>1. i \in k .. Len(s) /\ i + 1 \in 1 .. Len(v)
                    BY <4>3, <4>4, <4>6
                <5>2. QED
                    BY <4>2, <4>3, <4>4, <5>1
            <4>7. QED
                BY <4>3, <4>4, <4>5, <4>6
        <3>4. CASE ~grows(n)
            BY <1>9, <3>2, <3>4
        <3>5. QED
            BY <3>3, <3>4
    <2>2. CASE c \notin N
        <3>1. c \in path /\ Begins(c, oid) /\ Len(c) = Len(n) + 1 /\ Begins(n, c)
            BY <1>4, <1>5, <1>14, <2>2 DEF ChildOf
        <3>2. Begins(n, oid) /\ n # oid
            BY <1>2, <2>0, <3>1, BeginsTrans DEF Begins
        <3>3. child(n) = c
            BY <2>0, <3>1, BeginsPrefix DEF child
        <3>4. grows(n)
            BY <2>0, <2>2, <3>1, <3>2, <3>3, IsPrefixBegins DEF grows
        <3>5. PICK k : Inserted(InsertChild(sib(n), child(n)), sib(n), k, child(n))
            BY <1>12, <3>4
        <3>6. QED
            BY <1>9, <2>0, <3>3, <3>4, <3>5 DEF Inserted
    <2>3. QED
        BY <2>1, <2>2
<1>15. QED
    BY <1>6, <1>8, <1>13, <1>14 DEF Grown, t

Trees == [kids : UNION {[D -> Seq(U)] : D \in SUBSET U}, data : SUBSET U]

\* Registering gives a tree again.
LEMMA RegisterType ==
    ASSUME NEW x \in Trees, NEW oid \in U PROVE register_oid(x, oid) \in Trees
<1> DEFINE N == Nodes(x)
           path == {Prefix(oid, i) : i \in 1 .. Len(oid)}
           new == path \ N
           sib(n) == IF n \in N THEN x.kids[n] ELSE <<>>
           child(n) == Prefix(oid, Len(n) + 1)
           grows(n) == n # oid /\ IsPrefix(n, oid) /\ child(n) \in new
           val(n) == IF grows(n) THEN InsertChild(sib(n), child(n)) ELSE sib(n)
           kids == [n \in N \cup path |-> val(n)]
           data == x.data \cup {n \in new : n = oid}
<1>1. register_oid(x, oid) = [kids |-> kids, data |-> data]
    BY DEF register_oid, HasValue
<1>2. path \subseteq U
    <2>1. Len(oid) \in Nat
        BY DEF U
    <2>2. ASSUME NEW i \in 1 .. Len(oid) PROVE Prefix(oid, i) \in U
        BY <2>1, PrefixFacts
    <2>3. QED
        BY <2>2
<1>3. PICK D \in SUBSET U : x.kids \in [D -> Seq(U)]
    BY DEF Trees
<1>4. N \subseteq U /\ x.data \subseteq U /\ \A n \in N : x.kids[n] \in Seq(U)
    BY <1>3 DEF Trees, Nodes
<1> HIDE DEF N, path
<1>5. ASSUME NEW n \in N \cup path PROVE val(n) \in Seq(U)
    <2>1. sib(n) \in Seq(U)
        BY <1>4
    <2>2. CASE grows(n)
        <3>1. child(n) \in U
            BY <1>2, <2>2
        <3> HIDE DEF sib, child
        <3>2. PICK k \in 1 .. Len(sib(n)) + 1 : InsertChild(sib(n), child(n)) = InsertAt(sib(n), k, child(n))
            BY <2>1, <3>1, InsertChildPlace
        <3>3. InsertChild(sib(n), child(n)) \in Seq(U)
            BY <2>1, <3>1, <3>2, InsertAtIs
        <3>4. QED
            BY <2>2, <3>3
    <2>3. QED
        BY <2>1, <2>2
<1> HIDE DEF val
<1>6. kids \in [N \cup path -> Seq(U)] /\ N \cup path \in SUBSET U
    BY <1>2, <1>4, <1>5
<1>7. data \in SUBSET U
    BY <1>2, <1>4
<1> HIDE DEF kids, data
<1>8. kids \in UNION {[E -> Seq(U)] : E \in SUBSET U}
    BY <1>6
<1>9. QED
    BY <1>1, <1>7, <1>8 DEF Trees

Range1(s, k) == {s[i] : i \in 1 .. k}

\* The agent's tree, for any objects in any order.
LEMMA InitGrown ==
    ASSUME NEW oids \in Seq(U), Sound(Range1(oids, Len(oids))),
           \A i, j \in 1 .. Len(oids) : i # j => oids[i] # oids[j]
    PROVE  Grown(init_snmp(oids), Range1(oids, Len(oids)))
<1> DEFINE n == Len(oids)
           step(x, i) == register_oid(x, oids[i])
           F == [i \in 1 .. n |-> [x \in Trees |-> step(x, i)]]
           Is(f) == f = [i \in 0 .. n |-> IF i = 0 THEN EmptyTree ELSE step(f[i - 1], i)]
           s == CHOOSE f : Is(f)
<1>1. n \in Nat /\ EmptyTree \in Trees /\ \A i \in 1 .. n : oids[i] \in U
    <2>1. <<>> \in U /\ {<<>>} \in SUBSET U /\ <<>> \in Seq(U)
        BY DEF U
    <2>2. [root \in {<<>>} |-> <<>>] \in [{<<>>} -> Seq(U)]
        BY <2>1
    <2>3. [root \in {<<>>} |-> <<>>] \in UNION {[D -> Seq(U)] : D \in SUBSET U}
        BY <2>1, <2>2
    <2>4. EmptyTree \in Trees
        BY <2>3 DEF Trees, EmptyTree
    <2>5. QED
        BY <2>4
<1>2. ASSUME NEW i \in 1 .. n, NEW x \in Trees PROVE step(x, i) \in Trees
    BY <1>1, RegisterType
<1>3. F \in [1 .. n -> [Trees -> Trees]]
    <2> HIDE DEF step, n
    <2>1. QED
        BY <1>2
<1>4. PICK f : Loop(f, Trees, EmptyTree, n, F)
    <2> HIDE DEF n, F
    <2>1. QED
        BY <1>1, <1>3, LoopValues
<1>5. ASSUME NEW i \in 1 .. n PROVE f[i] = step(f[i - 1], i)
    <2>1. f[i - 1] \in Trees
        BY <1>1, <1>4 DEF Loop
    <2> HIDE DEF step
    <2>2. QED
        BY <1>4, <2>1 DEF Loop
<1> HIDE DEF F
<1>6. Is(f)
    <2> HIDE DEF n, step
    <2>1. \A i \in 0 .. n : f[i] = IF i = 0 THEN EmptyTree ELSE step(f[i - 1], i)
        BY <1>1, <1>4, <1>5 DEF Loop
    <2>2. QED
        BY <1>4, <2>1 DEF Loop
<1>7. Is(s)
    BY <1>6
<1>8. init_snmp(oids) = s[n]
    BY DEF init_snmp
<1> HIDE DEF s
<1>9. s[0] = EmptyTree /\ \A i \in 1 .. n : s[i] = step(s[i - 1], i)
    <2> HIDE DEF n, step
    <2>1. QED
        BY <1>1, <1>7
<1> DEFINE T == {i \in 0 .. n : Grown(s[i], Range1(oids, i))}
<1>10. 0 \in T
    <2>1. Range1(oids, 0) = {}
        BY DEF Range1
    <2>2. Grown(s[0], Range1(oids, 0))
        BY <1>9, <2>1, GrownEmpty
    <2> HIDE DEF n
    <2>3. QED
        BY <1>1, <2>2
<1>11. ASSUME NEW i \in 1 .. n, i - 1 \in T PROVE i \in T
    <2> DEFINE R == Range1(oids, i - 1)
    <2>1. Range1(oids, i) = R \cup {oids[i]} /\ oids[i] \notin R /\ i \in 0 .. n
        BY <1>1 DEF Range1
    <2>2. Sound(R \cup {oids[i]})
        <3>1. Range1(oids, i) \subseteq Range1(oids, n)
            BY <1>1 DEF Range1
        <3>2. Sound(Range1(oids, i))
            BY <3>1 DEF Sound
        <3>3. QED
            BY <2>1, <3>2
    <2>3. Grown(s[i - 1], R) /\ oids[i] \in U
        BY <1>1, <1>11
    <2> HIDE DEF R
    <2>4. Grown(register_oid(s[i - 1], oids[i]), R \cup {oids[i]})
        BY <2>1, <2>2, <2>3, Registers
    <2>5. QED
        BY <1>9, <2>1, <2>4
<1> HIDE DEF T
<1>12. n \in T
    <2> HIDE DEF n
    <2>1. 0 .. n \subseteq T
        BY <1>1, <1>10, <1>11, InductTo
    <2>2. QED
        BY <1>1, <2>1
<1>13. QED
    BY <1>8, <1>12 DEF T

-----------------------------------------------------------------------------
(* Leaves. *)

\* Siblings are in the order of their OIDs.
LEMMA SiblingOrder ==
    ASSUME NEW c \in U, NEW m \in U, NEW n \in U, ChildOf(c, n), ChildOf(m, n), OidIdx(c) < OidIdx(m)
    PROVE  Len(n) > 0 /\ LessAt(c, m, Len(n) + 1)
<1>1. Len(n) \in Nat /\ Len(c) = Len(n) + 1 /\ Len(m) = Len(n) + 1
    BY DEF ChildOf, U
<1>2. Len(n) > 0
    BY <1>1 DEF OidIdx
<1>3. OidIdx(c) = c[Len(n) + 1] /\ OidIdx(m) = m[Len(n) + 1]
    BY <1>1, <1>2 DEF OidIdx, Last
<1>4. \A j \in 1 .. Len(n) : c[j] = m[j]
    BY <1>1 DEF ChildOf, Begins
<1>5. QED
    BY <1>1, <1>2, <1>3, <1>4 DEF LessAt

\* All below a lesser sibling is less than all below the other.
LEMMA LessBelow ==
    ASSUME NEW a \in U, NEW b \in U, NEW x \in U, NEW y \in U, NEW i, LessAt(a, b, i),
           Begins(a, x), Begins(b, y)
    PROVE  LessAt(x, y, i) /\ Less(x, y)
<1>1. Len(a) \in Nat /\ Len(b) \in Nat /\ Len(x) \in Nat /\ Len(y) \in Nat
    BY DEF U
<1>2. i \in Nat /\ i >= 1 /\ i <= Len(a) /\ i <= Len(b) /\ Len(a) <= Len(x) /\ Len(b) <= Len(y)
    BY <1>1 DEF LessAt, Begins
<1>3. \A j \in 1 .. i : a[j] = x[j] /\ b[j] = y[j]
    BY <1>1, <1>2 DEF Begins
<1>4. (\A j \in 1 .. i - 1 : a[j] = b[j]) /\ a[i] < b[i] /\ i \in 1 .. i
    BY <1>2 DEF LessAt
<1>5. (\A j \in 1 .. i - 1 : x[j] = y[j]) /\ x[i] < y[i]
    BY <1>2, <1>3, <1>4
<1>6. i \in 1 .. Len(x) /\ i <= Len(y)
    BY <1>1, <1>2
<1>7. LessAt(x, y, i)
    BY <1>5, <1>6 DEF LessAt
<1>8. QED
    BY <1>6, <1>7, LessIs

\* The node below n on the way to what n begins.
LEMMA WayDown ==
    ASSUME NEW tree_, NEW R, Sound(R), Grown(tree_, R), NEW n \in Nodes(tree_), NEW m \in Nodes(tree_),
           Begins(n, m), n # m
    PROVE  LET c == Prefix(m, Len(n) + 1) IN
           /\ c \in Nodes(tree_) /\ c \in U /\ ChildOf(c, n) /\ Begins(c, m)
           /\ \E i \in 1 .. Len(tree_.kids[n]) : tree_.kids[n][i] = c
<1> DEFINE c == Prefix(m, Len(n) + 1)
<1>1. n \in U /\ m \in U /\ Nodes(tree_) = NodesOf(R)
    BY DEF Grown, NodesOf
<1>2. Len(n) \in Nat /\ Len(m) \in Nat /\ Len(n) <= Len(m) /\ Len(n) # Len(m)
    BY <1>1, BeginsSame DEF U, Begins
<1>3. Len(n) + 1 \in 0 .. Len(m)
    BY <1>2
<1>4. c \in U /\ Len(c) = Len(n) + 1 /\ Begins(c, m)
    BY <1>1, <1>3, PrefixFacts, PrefixBegins
<1>5. Begins(n, c)
    BY <1>1, <1>2, <1>3, PrefixBegins
<1>6. c \in Nodes(tree_) /\ ChildOf(c, n)
    BY <1>1, <1>4, <1>5, NodesClosed DEF ChildOf
<1>7. QED
    BY <1>4, <1>6 DEF Grown

IsLeaf(tree_, p) == p \in Nodes(tree_) /\ tree_.kids[p] = <<>>

\* Nothing is below a node without children but itself.
LEMMA NothingBelowLeaf ==
    ASSUME NEW tree_, NEW R, Sound(R), Grown(tree_, R), NEW n, IsLeaf(tree_, n),
           NEW m \in Nodes(tree_), Begins(n, m)
    PROVE  n = m
<1>1. SUFFICES ASSUME n # m PROVE FALSE
    OBVIOUS
<1>2. \E i \in 1 .. Len(tree_.kids[n]) : TRUE
    BY <1>1, WayDown DEF IsLeaf
<1>3. QED
    BY <1>2 DEF IsLeaf

\* The leaves are the objects.
LEMMA LeavesAreObjects ==
    ASSUME NEW tree_, NEW R, Sound(R), R # {}, Grown(tree_, R)
    PROVE  \A p : IsLeaf(tree_, p) <=> p \in R
<1>0. R \subseteq U /\ \A o \in R : o # <<>> /\ Len(o) \in Nat
    BY DEF Sound, U
<1>1. ASSUME NEW p \in R PROVE IsLeaf(tree_, p)
    <2>1. p \in U /\ Begins(p, p) /\ Len(p) \in Nat
        BY <1>0 DEF Begins
    <2>2. p \in Nodes(tree_)
        BY <2>1 DEF Grown, NodesOf
    <2>3. SUFFICES ASSUME tree_.kids[p] # <<>> PROVE FALSE
        BY <2>2 DEF IsLeaf
    <2> DEFINE c == tree_.kids[p][1]
    <2>4. tree_.kids[p] \in Seq(U) /\ Len(tree_.kids[p]) \in Nat /\ Len(tree_.kids[p]) # 0
        BY <2>2, <2>3 DEF Grown, Children
    <2>5. c \in Nodes(tree_) /\ ChildOf(c, p)
        BY <2>2, <2>4 DEF Grown, Children
    <2>6. c \in U /\ c # <<>>
        BY <2>1, <2>5 DEF Grown, NodesOf, ChildOf
    <2>7. PICK o \in R : Begins(c, o)
        BY <2>5, <2>6 DEF Grown, NodesOf
    <2>8. o \in U /\ Begins(p, o)
        BY <1>0, <2>1, <2>5, <2>6, <2>7, BeginsTrans DEF ChildOf
    <2>9. p = o
        BY <2>8 DEF Sound
    <2>10. Len(c) = Len(p) + 1 /\ Len(c) <= Len(p)
        BY <2>5, <2>7, <2>9 DEF ChildOf, Begins
    <2>11. QED
        BY <2>1, <2>10
<1>2. ASSUME NEW p, IsLeaf(tree_, p) PROVE p \in R
    <2>1. p \in Nodes(tree_) /\ p \in U
        BY <1>2 DEF IsLeaf, Grown, NodesOf
    <2>2. PICK o \in R : Begins(p, o)
        <3>1. CASE p = <<>>
            <4>1. PICK o \in R : TRUE
                OBVIOUS
            <4>2. Begins(p, o)
                BY <1>0, <3>1 DEF Begins
            <4>3. QED
                BY <4>2
        <3>2. CASE p # <<>>
            BY <2>1, <3>2 DEF Grown, NodesOf
        <3>3. QED
            BY <3>1, <3>2
    <2>3. o \in Nodes(tree_)
        BY <1>1 DEF IsLeaf
    <2>4. p = o
        BY <1>2, <2>2, <2>3, NothingBelowLeaf
    <2>5. QED
        BY <2>4
<1>3. QED
    BY <1>1, <1>2

Deep(R, D) == \A o \in R : Len(o) <= D

\* No node is longer than the longest object.
LEMMA NodesDeep ==
    ASSUME NEW R, Sound(R), NEW D \in Nat, Deep(R, D), NEW n \in NodesOf(R)
    PROVE  n \in U /\ Len(n) \in Nat /\ Len(n) <= D
<1>1. n \in U /\ Len(n) \in Nat
    BY DEF NodesOf, U
<1>2. CASE n = <<>>
    BY <1>1, <1>2
<1>3. ASSUME NEW o \in R, Begins(n, o) PROVE Len(n) <= D
    <2>1. Len(o) \in Nat /\ Len(n) <= Len(o) /\ Len(o) <= D
        BY <1>3 DEF Begins, Deep, Sound, U
    <2>2. QED
        BY <1>1, <2>1
<1>4. QED
    BY <1>1, <1>2, <1>3 DEF NodesOf

\* L is the first leaf below n.
FirstBelow(tree_, n, L) ==
    /\ IsLeaf(tree_, L) /\ Begins(n, L)
    /\ \A M : IsLeaf(tree_, M) /\ Begins(n, M) => M = L \/ Less(L, M)

\* The first leaf below the first child is the first below the node.
LEMMA FirstBelowHead ==
    ASSUME NEW tree_, NEW R, Sound(R), Grown(tree_, R), NEW n \in Nodes(tree_),
           tree_.kids[n] # <<>>, NEW L, FirstBelow(tree_, Head(tree_.kids[n]), L)
    PROVE  FirstBelow(tree_, n, L)
<1> DEFINE s == tree_.kids[n]
           c == Head(s)
<1>1. s \in Seq(U) /\ Sorted(s) /\ \A i \in 1 .. Len(s) : s[i] \in Nodes(tree_) /\ ChildOf(s[i], n)
    BY DEF Grown, Children
<1>2. Len(s) \in Nat /\ 1 \in 1 .. Len(s) /\ c = s[1] /\ Nodes(tree_) \subseteq U
    BY <1>1 DEF Grown, NodesOf
<1>3. c \in Nodes(tree_) /\ ChildOf(c, n) /\ c \in U /\ n \in U
    BY <1>1, <1>2
<1>4. IsLeaf(tree_, L) /\ Begins(c, L) /\ L \in U
    BY <1>2 DEF FirstBelow, IsLeaf
<1>5. Begins(n, L)
    BY <1>3, <1>4, BeginsTrans DEF ChildOf
<1> HIDE DEF c
<1>6. ASSUME NEW M, IsLeaf(tree_, M), Begins(n, M) PROVE M = L \/ Less(L, M)
    <2>1. M \in Nodes(tree_) /\ M \in U /\ n # M
        BY <1>2, <1>6 DEF IsLeaf
    <2> DEFINE m == Prefix(M, Len(n) + 1)
    <2>2. /\ m \in Nodes(tree_) /\ m \in U /\ ChildOf(m, n) /\ Begins(m, M)
          /\ \E i \in 1 .. Len(s) : s[i] = m
        BY <1>6, <2>1, WayDown
    <2> HIDE DEF m
    <2>3. PICK i \in 1 .. Len(s) : s[i] = m
        BY <2>2
    <2>4. CASE i = 1
        <3>1. Begins(c, M)
            BY <1>2, <2>2, <2>3, <2>4
        <3>2. QED
            BY <1>6, <3>1 DEF FirstBelow, c
    <2>5. CASE i # 1
        <3>1. 1 < i
            BY <1>2, <2>5
        <3>2. OidIdx(c) < OidIdx(m)
            BY <1>1, <1>2, <2>3, <3>1 DEF Sorted
        <3>3. LessAt(c, m, Len(n) + 1)
            BY <1>3, <2>2, <3>2, SiblingOrder
        <3>4. QED
            BY <1>3, <1>4, <2>1, <2>2, <3>3, LessBelow
    <2>6. QED
        BY <2>4, <2>5
<1>7. QED
    BY <1>4, <1>5, <1>6 DEF FirstBelow

\* A leaf is the first leaf below itself.
LEMMA FirstBelowSelf ==
    ASSUME NEW tree_, NEW R, Sound(R), Grown(tree_, R), NEW n, IsLeaf(tree_, n)
    PROVE  FirstBelow(tree_, n, n)
<1>1. n \in U /\ Begins(n, n)
    BY DEF IsLeaf, Grown, NodesOf, Begins, U
<1>2. QED
    BY <1>1, NothingBelowLeaf DEF FirstBelow, IsLeaf

\* Going down the first children ends, and ends there.
LEMMA FirstLeafIs ==
    ASSUME NEW tree_, NEW R, Sound(R), NEW D \in Nat, Deep(R, D), Grown(tree_, R),
           NEW node \in Nodes(tree_)
    PROVE  FirstBelow(tree_, node, FirstLeaf(tree_, node))
<1> DEFINE N == Nodes(tree_)
           kids == tree_.kids
           LeafFrom(f, n) == IF kids[n] = <<>> THEN n ELSE f[Head(kids[n])]
           Below(k) == {n \in N : Len(n) + k > D}
           Is(f) == f = [n \in N |-> LeafFrom(f, n)]
           leaf == CHOOSE f : Is(f)
<1>1. ASSUME NEW n \in N PROVE n \in U /\ Len(n) \in Nat /\ Len(n) <= D
    BY NodesDeep DEF Grown
<1>2. ASSUME NEW n \in N, kids[n] # <<>> PROVE Head(kids[n]) \in N /\ Len(Head(kids[n])) = Len(n) + 1
    <2>1. kids[n] \in Seq(U) /\ \A i \in 1 .. Len(kids[n]) : kids[n][i] \in N /\ ChildOf(kids[n][i], n)
        BY DEF Grown, Children
    <2>2. Head(kids[n]) = kids[n][1] /\ 1 \in 1 .. Len(kids[n])
        BY <1>2, <2>1
    <2>3. QED
        BY <2>1, <2>2 DEF ChildOf
<1> HIDE DEF N, kids
<1> DEFINE E == {k \in Nat : \E f : f = [n \in Below(k) |-> LeafFrom(f, n)]}
<1>3. 0 \in E
    <2>1. Below(0) = {}
        BY <1>1
    <2> HIDE DEF Below, LeafFrom
    <2> DEFINE g == [n \in {} |-> n]
    <2>2. g = [n \in Below(0) |-> LeafFrom(g, n)]
        BY <2>1
    <2>3. QED
        BY <2>2
<1>4. ASSUME NEW k \in Nat, k \in E PROVE k + 1 \in E
    <2>1. PICK f : f = [n \in Below(k) |-> LeafFrom(f, n)]
        BY <1>4
    <2> DEFINE g == [n \in Below(k + 1) |-> IF n \in Below(k) THEN f[n] ELSE LeafFrom(f, n)]
    <2>2. ASSUME NEW n \in Below(k + 1), kids[n] # <<>> PROVE Head(kids[n]) \in Below(k)
        BY <1>1, <1>2, <2>2
    <2>3. \A n \in Below(k) : n \in Below(k + 1)
        BY <1>1
    <2>4. \A n \in Below(k) : f[n] = LeafFrom(f, n)
        BY <2>1
    <2> HIDE DEF Below
    <2>5. \A n \in Below(k) : g[n] = f[n]
        BY <2>3
    <2>6. ASSUME NEW n \in Below(k + 1) PROVE LeafFrom(g, n) = LeafFrom(f, n)
        BY <2>2, <2>5
    <2>7. \A n \in Below(k + 1) : g[n] = LeafFrom(g, n)
        BY <2>4, <2>6
    <2>8. g = [n \in Below(k + 1) |-> g[n]]
        OBVIOUS
    <2> HIDE DEF g, LeafFrom
    <2>9. g = [n \in Below(k + 1) |-> LeafFrom(g, n)]
        BY <2>7, <2>8
    <2>10. QED
        BY <2>9
<1>5. \E f : Is(f)
    <2>1. D + 1 \in E
        <3> HIDE DEF E
        <3>1. QED
            BY <1>3, <1>4, Induct
    <2>2. Below(D + 1) = N
        BY <1>1
    <2>3. QED
        BY <2>1, <2>2
<1>6. Is(leaf)
    BY <1>5
<1>7. FirstLeaf(tree_, node) = leaf[node]
    BY DEF FirstLeaf, N, kids
<1> HIDE DEF leaf
<1>8. \A n \in N : leaf[n] = LeafFrom(leaf, n)
    BY <1>6
<1> DEFINE T == {k \in Nat : \A n \in Below(k) : FirstBelow(tree_, n, leaf[n])}
<1>9. 0 \in T
    BY <1>1
<1>10. ASSUME NEW k \in Nat, k \in T PROVE k + 1 \in T
    <2>1. SUFFICES ASSUME NEW n \in Below(k + 1) PROVE FirstBelow(tree_, n, leaf[n])
        OBVIOUS
    <2>2. CASE kids[n] = <<>>
        <3>1. leaf[n] = n /\ IsLeaf(tree_, n)
            BY <1>8, <2>2 DEF IsLeaf, N, kids
        <3>2. QED
            BY <3>1, FirstBelowSelf
    <2>3. CASE kids[n] # <<>>
        <3>1. leaf[n] = leaf[Head(kids[n])] /\ Head(kids[n]) \in Below(k)
            BY <1>1, <1>2, <1>8, <2>3
        <3>2. FirstBelow(tree_, Head(kids[n]), leaf[n])
            BY <1>10, <3>1
        <3>3. QED
            BY <2>3, <3>2, FirstBelowHead DEF N, kids
    <2>4. QED
        BY <2>2, <2>3
<1>11. D + 1 \in T
    <2> HIDE DEF T
    <2>1. QED
        BY <1>9, <1>10, Induct
<1>12. node \in Below(D + 1)
    BY <1>1 DEF N
<1>13. QED
    BY <1>7, <1>11, <1>12

-----------------------------------------------------------------------------
(* The next object. *)

\* A bounded set of numbers has a largest element, and Max gives it.
LEMMA LargestElement ==
    ASSUME NEW b \in Nat, NEW T \in SUBSET (0 .. b), T # {}
    PROVE  Max(T) \in T /\ \A y \in T : y <= Max(T)
<1> DEFINE V == {i \in Nat : i <= b /\ b - i \in T}
<1>1. V # {}
    <2>1. PICK y \in T : TRUE
        OBVIOUS
    <2>2. b - y \in V
        <3>1. b - y \in Nat /\ b - y <= b /\ b - (b - y) = y
            OBVIOUS
        <3>2. QED
            BY <3>1
    <2>3. QED
        BY <2>2
<1>2. PICK x \in V : \A y \in V : x <= y
    <2> HIDE DEF V
    <2>1. V \in SUBSET Nat
        BY DEF V
    <2>2. QED
        BY <1>1, <2>1, LeastElement
<1>3. ASSUME NEW y \in T PROVE y <= b - x
    <2>1. b - y \in V
        <3>1. b - y \in Nat /\ b - y <= b /\ b - (b - y) = y
            OBVIOUS
        <3>2. QED
            BY <3>1
    <2>2. x <= b - y /\ x \in Nat /\ y \in Int
        BY <1>2, <2>1
    <2>3. QED
        BY <2>2
<1>4. b - x \in T
    BY <1>2
<1>5. QED
    BY <1>3, <1>4 DEF Max

\* x is the object after a, <<>> if there is none.
NextAfter(R, a, x) ==
    IF x = <<>> THEN \A M \in R : ~Less(a, M)
    ELSE x \in R /\ Less(a, x) /\ \A M \in R : Less(a, M) => M = x \/ Less(x, M)

\* A node on the way down to an object has its place in its parent's vector.
LEMMA PlaceOnPath ==
    ASSUME NEW tree_, NEW R, Sound(R), Grown(tree_, R), NEW m \in Nodes(tree_),
           NEW n \in 1 .. Len(m)
    PROVE  LET p == Prefix(m, n)
               q == Prefix(m, n - 1)
           IN /\ p \in Nodes(tree_) /\ q \in Nodes(tree_) /\ p \in U /\ q \in U
              /\ ChildOf(p, q) /\ Front(p) = q /\ Len(q) = n - 1 /\ Len(p) = n /\ Begins(p, m)
              /\ IndexIn(tree_, p) \in 1 .. Len(tree_.kids[q])
              /\ tree_.kids[q][IndexIn(tree_, p)] = p
<1> DEFINE p == Prefix(m, n)
           q == Prefix(m, n - 1)
<1>1. m \in U /\ Len(m) \in Nat /\ n \in 0 .. Len(m) /\ n - 1 \in 0 .. Len(m) /\ Nodes(tree_) = NodesOf(R)
    BY DEF Grown, NodesOf, U
<1>2. /\ p \in U /\ Len(p) = n /\ Begins(p, m) /\ q \in U /\ Len(q) = n - 1 /\ Begins(q, m)
    BY <1>1, PrefixFacts, PrefixBegins
<1>3. Begins(q, p)
    BY <1>1, <1>2, PrefixBegins
<1>4. p \in Nodes(tree_) /\ q \in Nodes(tree_)
    BY <1>1, <1>2, NodesClosed
<1>5. ChildOf(p, q)
    BY <1>1, <1>2, <1>3 DEF ChildOf
<1>6. Front(p) = q
    <2>1. Front(p) = Prefix(p, Len(q))
        BY <1>2 DEF Front, Prefix
    <2>2. QED
        BY <1>2, <1>3, <2>1, BeginsPrefix
<1> HIDE DEF p, q
<1>7. \E i \in 1 .. Len(tree_.kids[q]) : tree_.kids[q][i] = p
    BY <1>4, <1>5 DEF Grown
<1>8. IndexIn(tree_, p) \in 1 .. Len(tree_.kids[q]) /\ tree_.kids[q][IndexIn(tree_, p)] = p
    BY <1>6, <1>7 DEF IndexIn
<1>9. QED
    BY <1>2, <1>4, <1>5, <1>6, <1>8 DEF p, q

\* An object after oid differs from it where a later sibling begins.
LEMMA LaterObject ==
    ASSUME NEW tree_, NEW R, Sound(R), R # {}, Grown(tree_, R), NEW oid \in R, NEW M \in R, Less(oid, M)
    PROVE  \E i \in 2 .. Len(oid) :
              LET q == Prefix(oid, i - 1) IN
              /\ LessAt(oid, M, i) /\ i <= Len(M) /\ q = Prefix(M, i - 1)
              /\ IndexIn(tree_, Prefix(oid, i)) < IndexIn(tree_, Prefix(M, i))
              /\ IndexIn(tree_, Prefix(M, i)) \in 1 .. Len(tree_.kids[q])
              /\ tree_.kids[q][IndexIn(tree_, Prefix(M, i))] = Prefix(M, i)
<1>1. oid \in U /\ M \in U /\ Len(oid) \in Nat /\ Len(M) \in Nat /\ oid[1] = M[1]
    <2>1. oid \in U /\ M \in U /\ oid[1] = M[1]
        BY DEF Sound
    <2>2. QED
        BY <2>1 DEF U
<1>2. IsLeaf(tree_, oid) /\ IsLeaf(tree_, M)
    BY LeavesAreObjects
<1>3. ~(Len(oid) < Len(M) /\ Begins(oid, M))
    <2>1. Begins(oid, M) => oid = M
        BY <1>2, NothingBelowLeaf DEF IsLeaf
    <2>2. QED
        BY <1>1, <2>1
<1>4. PICK i \in 1 .. Len(oid) : LessAt(oid, M, i)
    BY <1>1, <1>3, LessIs
<1>5. i \in Nat /\ i <= Len(M) /\ i # 1 /\ i \in 1 .. Len(M) /\ oid[i] < M[i]
      /\ \A j \in 1 .. i - 1 : oid[j] = M[j]
    <2>1. oid[1] \in Int
        BY <1>1, <1>4 DEF U
    <2>2. QED
        BY <1>1, <1>4, <2>1 DEF LessAt
<1> DEFINE p == Prefix(oid, i)
           q == Prefix(oid, i - 1)
           m == Prefix(M, i)
           r == Prefix(M, i - 1)
           x == IndexIn(tree_, p)
           y == IndexIn(tree_, m)
           s == tree_.kids[q]
<1>6. /\ p \in Nodes(tree_) /\ q \in Nodes(tree_) /\ p \in U /\ q \in U
      /\ ChildOf(p, q) /\ Len(q) = i - 1 /\ Len(p) = i
      /\ x \in 1 .. Len(s) /\ s[x] = p
    BY <1>2, <1>4, PlaceOnPath DEF IsLeaf
<1>7. /\ m \in U /\ ChildOf(m, r) /\ Len(r) = i - 1 /\ Len(m) = i /\ r \in U
      /\ y \in 1 .. Len(tree_.kids[r]) /\ tree_.kids[r][y] = m
    BY <1>2, <1>5, PlaceOnPath DEF IsLeaf
<1>8. /\ \A j \in 1 .. i - 1 : q[j] = oid[j] /\ r[j] = M[j]
      /\ p[i] = oid[i] /\ m[i] = M[i]
    <2>1. i - 1 \in 0 .. Len(oid) /\ i - 1 \in 0 .. Len(M) /\ i \in 0 .. Len(oid) /\ i \in 0 .. Len(M)
        BY <1>1, <1>5, <1>4
    <2>2. \A j \in 1 .. i - 1 : q[j] = oid[j] /\ r[j] = M[j]
        BY <1>1, <2>1, PrefixFacts
    <2>3. i \in 1 .. i
        BY <1>4
    <2>4. p[i] = oid[i] /\ m[i] = M[i]
        BY <1>1, <2>1, <2>3, PrefixFacts
    <2>5. QED
        BY <2>2, <2>4
<1> HIDE DEF p, q, m, r
<1>9. q = r
    <2>1. Len(q) = Len(r) /\ \A j \in 1 .. Len(q) : q[j] = r[j]
        BY <1>5, <1>6, <1>7, <1>8
    <2>2. QED
        BY <1>6, <1>7, <2>1, SeqEqual DEF U
<1>10. OidIdx(p) < OidIdx(m)
    <2>1. Len(p) > 1 /\ Len(m) > 1
        BY <1>4, <1>5, <1>6, <1>7
    <2>2. OidIdx(p) = oid[i] /\ OidIdx(m) = M[i]
        BY <1>6, <1>7, <1>8, <2>1 DEF OidIdx, Last
    <2>3. QED
        BY <1>5, <2>2
<1>11. y \in 1 .. Len(s) /\ s[y] = m
    BY <1>7, <1>9
<1> HIDE DEF x, y, s
<1>12. x < y
    <2>1. Sorted(s) /\ s \in Seq(U) /\ x \in Int /\ y \in Int
        BY <1>6, <1>11 DEF Grown, Children, s
    <2>2. OidIdx(p) \in Int /\ OidIdx(m) \in Int
        BY <1>6, <1>7, OidIdxInt
    <2>3. y < x => OidIdx(m) < OidIdx(p)
        BY <1>6, <1>11, <2>1 DEF Sorted
    <2>4. x # y
        BY <1>6, <1>10, <1>11, <2>2
    <2>5. QED
        BY <1>10, <2>1, <2>2, <2>3, <2>4
<1>13. i \in 2 .. Len(oid)
    BY <1>4, <1>5
<1>14. QED
    BY <1>4, <1>5, <1>9, <1>11, <1>12, <1>13 DEF p, q, m, r, x, y, s

\* From an object, NextLeaf() gives the next one.
LEMMA NextLeafIs ==
    ASSUME NEW tree_, NEW R, Sound(R), R # {}, NEW D \in Nat, Deep(R, D), Grown(tree_, R), NEW oid \in R
    PROVE  NextAfter(R, oid, NextLeaf(tree_, oid))
<1> DEFINE in(n) == IndexIn(tree_, Prefix(oid, n)) < Len(tree_.kids[Prefix(oid, n - 1)])
           after == {n \in 2 .. Len(oid) : in(n)}
<1>1. oid \in U /\ Len(oid) \in Nat /\ IsLeaf(tree_, oid) /\ oid \in Nodes(tree_) /\ Nodes(tree_) \subseteq U
    <2>1. oid \in U
        BY DEF Sound
    <2>2. IsLeaf(tree_, oid)
        BY LeavesAreObjects
    <2>3. Nodes(tree_) \subseteq U
        BY DEF Grown, NodesOf
    <2>4. QED
        BY <2>1, <2>2, <2>3 DEF IsLeaf, U
<1>2. ASSUME NEW n \in 2 .. Len(oid)
      PROVE  LET p == Prefix(oid, n)
                 q == Prefix(oid, n - 1)
             IN /\ q \in Nodes(tree_) /\ p \in U /\ q \in U
                /\ ChildOf(p, q) /\ Front(p) = q /\ Len(q) = n - 1 /\ Begins(p, oid)
                /\ IndexIn(tree_, p) \in 1 .. Len(tree_.kids[q])
                /\ tree_.kids[q][IndexIn(tree_, p)] = p
    <2>1. n \in 1 .. Len(oid)
        OBVIOUS
    <2>2. QED
        BY <1>1, <2>1, PlaceOnPath
<1>3. ASSUME NEW n \in 2 .. Len(oid)
      PROVE  /\ tree_.kids[Prefix(oid, n - 1)] \in Seq(U) /\ Sorted(tree_.kids[Prefix(oid, n - 1)])
             /\ \A i \in 1 .. Len(tree_.kids[Prefix(oid, n - 1)]) :
                   /\ tree_.kids[Prefix(oid, n - 1)][i] \in Nodes(tree_)
                   /\ ChildOf(tree_.kids[Prefix(oid, n - 1)][i], Prefix(oid, n - 1))
    BY <1>2 DEF Grown, Children
<1>4. ASSUME NEW M \in R, Less(oid, M)
      PROVE  \E i \in after :
              LET q == Prefix(oid, i - 1) IN
              /\ LessAt(oid, M, i) /\ i <= Len(M) /\ q = Prefix(M, i - 1)
              /\ IndexIn(tree_, Prefix(oid, i)) < IndexIn(tree_, Prefix(M, i))
              /\ IndexIn(tree_, Prefix(M, i)) \in 1 .. Len(tree_.kids[q])
              /\ tree_.kids[q][IndexIn(tree_, Prefix(M, i))] = Prefix(M, i)
    <2>1. PICK i \in 2 .. Len(oid) :
              LET q == Prefix(oid, i - 1) IN
              /\ LessAt(oid, M, i) /\ i <= Len(M) /\ q = Prefix(M, i - 1)
              /\ IndexIn(tree_, Prefix(oid, i)) < IndexIn(tree_, Prefix(M, i))
              /\ IndexIn(tree_, Prefix(M, i)) \in 1 .. Len(tree_.kids[q])
              /\ tree_.kids[q][IndexIn(tree_, Prefix(M, i))] = Prefix(M, i)
        BY <1>4, LaterObject, SMTT(30)
    <2>2. Len(tree_.kids[Prefix(oid, i - 1)]) \in Nat
        BY <1>3
    <2>3. IndexIn(tree_, Prefix(oid, i)) \in Nat
        BY <1>2
    <2>4. in(i)
        <3> DEFINE x == IndexIn(tree_, Prefix(oid, i))
                   y == IndexIn(tree_, Prefix(M, i))
                   l == Len(tree_.kids[Prefix(oid, i - 1)])
        <3>1. x \in Nat /\ y \in 1 .. l /\ x < y /\ l \in Nat
            BY <2>1, <2>2, <2>3
        <3> HIDE DEF x, y, l
        <3>2. x < l
            BY <3>1
        <3>3. QED
            BY <3>2 DEF x, l
    <2>5. QED
        BY <2>1, <2>4
<1>5. CASE after = {}
    <2>1. NextLeaf(tree_, oid) = <<>>
        BY <1>5 DEF NextLeaf
    <2>2. QED
        BY <1>4, <1>5, <2>1 DEF NextAfter
<1>6. CASE after # {}
    <2> DEFINE k == Max(after)
               u == Prefix(oid, k)
               q == Prefix(oid, k - 1)
               s == tree_.kids[q]
               x == IndexIn(tree_, u)
               sibling == s[x + 1]
               X == FirstLeaf(tree_, sibling)
    <2>1. k \in after /\ \A i \in after : i <= k
        <3>1. after \in SUBSET (0 .. Len(oid))
            OBVIOUS
        <3> HIDE DEF after
        <3>2. QED
            BY <1>1, <1>6, <3>1, LargestElement
    <2>2. NextLeaf(tree_, oid) = FirstLeaf(tree_, tree_.kids[Front(u)][IndexIn(tree_, u) + 1])
        BY <1>6 DEF NextLeaf
    <2> HIDE DEF k
    <2>3. k \in 2 .. Len(oid) /\ k \in Nat /\ x < Len(s)
        BY <1>1, <2>1
    <2>4. /\ q \in Nodes(tree_) /\ u \in U /\ q \in U /\ ChildOf(u, q) /\ Front(u) = q /\ Len(q) = k - 1
          /\ Begins(u, oid) /\ x \in 1 .. Len(s) /\ s[x] = u
        BY <1>2, <2>3
    <2>5. /\ s \in Seq(U) /\ Sorted(s)
          /\ \A i \in 1 .. Len(s) : s[i] \in Nodes(tree_) /\ ChildOf(s[i], q)
        BY <1>3, <2>3
    <2>6. NextLeaf(tree_, oid) = X
        BY <2>2, <2>4
    <2> HIDE DEF u, q, s, x, X
    <2>7. Len(s) \in Nat /\ x \in Nat /\ x + 1 \in 1 .. Len(s) /\ x < x + 1
        BY <2>3, <2>4, <2>5
    <2>8. sibling \in Nodes(tree_) /\ sibling \in U /\ ChildOf(sibling, q) /\ OidIdx(u) < OidIdx(sibling)
        BY <1>1, <2>4, <2>5, <2>7 DEF Sorted
    <2> HIDE DEF sibling
    <2>9. FirstBelow(tree_, sibling, X)
        BY <2>8, FirstLeafIs DEF X
    <2>10. X \in R /\ X \in U /\ Begins(sibling, X) /\ X # <<>>
        <3>1. X \in R /\ Begins(sibling, X)
            BY <2>9, LeavesAreObjects DEF FirstBelow
        <3>2. X \in U /\ Len(X) > 1
            BY <3>1 DEF Sound
        <3>3. QED
            BY <3>1, <3>2
    <2>11. LessAt(u, sibling, k)
        <3>1. LessAt(u, sibling, Len(q) + 1)
            BY <2>4, <2>8, SiblingOrder
        <3>2. Len(q) + 1 = k
            BY <2>3, <2>4
        <3>3. QED
            BY <3>1, <3>2
    <2>12. LessAt(oid, X, k) /\ Less(oid, X)
        BY <1>1, <2>4, <2>8, <2>10, <2>11, LessBelow
    <2>13. ASSUME NEW M \in R, Less(oid, M) PROVE M = X \/ Less(X, M)
        <3>1. PICK i \in after :
              LET qq == Prefix(oid, i - 1) IN
              /\ LessAt(oid, M, i) /\ i <= Len(M) /\ qq = Prefix(M, i - 1)
              /\ IndexIn(tree_, Prefix(oid, i)) < IndexIn(tree_, Prefix(M, i))
              /\ IndexIn(tree_, Prefix(M, i)) \in 1 .. Len(tree_.kids[qq])
              /\ tree_.kids[qq][IndexIn(tree_, Prefix(M, i))] = Prefix(M, i)
            BY <1>4, <2>13
        <3>2. i \in Nat /\ i >= 2 /\ i <= k /\ i <= Len(oid) /\ i <= Len(M) /\ LessAt(oid, M, i)
            <4>1. i <= k /\ i \in 2 .. Len(oid) /\ i <= Len(M) /\ LessAt(oid, M, i)
                BY <2>1, <3>1
            <4>2. QED
                BY <1>1, <4>1
        <3>3. M \in U /\ Len(M) \in Nat
            <4>1. M \in U
                BY DEF Sound
            <4>2. QED
                BY <4>1 DEF U
        <3>4. CASE i < k
            <4>1. \A j \in 1 .. i : X[j] = oid[j]
                BY <2>3, <2>12, <3>2, <3>4 DEF LessAt
            <4>2. k <= Len(X) /\ Len(X) \in Nat
                BY <2>10, <2>12 DEF LessAt, U
            <4>3. LessAt(X, M, i) /\ i \in 1 .. Len(X)
                BY <2>3, <3>2, <3>4, <4>1, <4>2 DEF LessAt
            <4>4. QED
                BY <2>10, <3>3, <4>3, LessIs
        <3>5. CASE i = k
            <4> DEFINE m == Prefix(M, k)
                       y == IndexIn(tree_, m)
            <4>1. x < y /\ y \in 1 .. Len(s) /\ s[y] = m
                BY <3>1, <3>5 DEF q, s, x, u
            <4>2. m \in U /\ Begins(m, M) /\ ChildOf(m, q)
                <5>1. k \in 0 .. Len(M)
                    BY <3>2, <3>5, <2>3, <3>3
                <5>2. m \in U /\ Begins(m, M)
                    BY <3>3, <5>1, PrefixFacts, PrefixBegins
                <5>3. QED
                    BY <2>5, <4>1, <5>2
            <4> HIDE DEF m, y
            <4>3. CASE y = x + 1
                <5>1. Begins(sibling, M)
                    BY <4>1, <4>2, <4>3 DEF sibling
                <5>2. IsLeaf(tree_, M)
                    BY LeavesAreObjects
                <5>3. QED
                    BY <2>9, <5>1, <5>2 DEF FirstBelow
            <4>4. CASE y # x + 1
                <5>1. x + 1 < y
                    BY <2>7, <4>1, <4>4
                <5>2. OidIdx(sibling) < OidIdx(m)
                    BY <2>5, <2>7, <4>1, <5>1 DEF Sorted, sibling
                <5>3. LessAt(sibling, m, Len(q) + 1)
                    BY <2>4, <2>8, <4>2, <5>2, SiblingOrder
                <5>4. QED
                    BY <2>8, <2>10, <3>3, <4>2, <5>3, LessBelow
            <4>5. QED
                BY <4>3, <4>4
        <3>6. QED
            BY <2>3, <3>2, <3>4, <3>5
    <2>14. QED
        BY <2>6, <2>10, <2>12, <2>13 DEF NextAfter
<1>7. QED
    BY <1>5, <1>6

\* find_next_oid() from a node, which may be an object: the next object.
LEMMA FindNext ==
    ASSUME NEW tree_, NEW R, Sound(R), R # {}, NEW D \in Nat, Deep(R, D), Grown(tree_, R),
           NEW a \in Nodes(tree_)
    PROVE  NextAfter(R, a, find_next_oid(tree_, a))
<1> DEFINE E == {n \in 0 .. Len(a) : Prefix(a, n) \in Nodes(tree_)}
           L == FirstLeaf(tree_, a)
<1>1. a \in U /\ Len(a) \in Nat /\ Prefix(a, Len(a)) = a
    <2>1. a \in U
        BY DEF Grown, NodesOf
    <2>2. QED
        BY <2>1, PrefixFull DEF U
<1>2. Max(E) = Len(a)
    <2>1. Len(a) \in E /\ E \in SUBSET (0 .. Len(a))
        BY <1>1
    <2>2. \A y \in E : y <= Len(a)
        BY <1>1
    <2> HIDE DEF E
    <2>3. Max(E) \in E /\ \A y \in E : y <= Max(E)
        BY <1>1, <2>1, LargestElement
    <2>4. Max(E) \in 0 .. Len(a) /\ Len(a) <= Max(E)
        BY <2>1, <2>3
    <2>5. QED
        BY <1>1, <2>4
<1>3. find_next_oid(tree_, a) = IF L # a THEN L ELSE NextLeaf(tree_, a)
    BY <1>1, <1>2 DEF find_next_oid
<1>4. FirstBelow(tree_, a, L)
    BY FirstLeafIs
<1> HIDE DEF L
<1>5. L \in R /\ Begins(a, L) /\ L \in U /\ L # <<>> /\ Len(L) \in Nat
    <2>1. L \in R /\ Begins(a, L)
        BY <1>4, LeavesAreObjects DEF FirstBelow
    <2>2. L \in U /\ Len(L) > 1
        BY <2>1 DEF Sound
    <2>3. QED
        BY <2>1, <2>2 DEF U
<1>6. CASE L = a
    BY <1>3, <1>5, <1>6, NextLeafIs
<1>7. CASE L # a
    <2>1. Less(a, L)
        <3>1. Len(a) < Len(L)
            BY <1>1, <1>5, <1>7, BeginsSame DEF Begins
        <3>2. QED
            BY <1>1, <1>5, <3>1, LessIs
    <2>2. ASSUME NEW M \in R, Less(a, M) PROVE M = L \/ Less(L, M)
        <3>1. M \in U /\ IsLeaf(tree_, M)
            BY LeavesAreObjects DEF Sound
        <3>2. CASE Begins(a, M)
            BY <1>4, <3>1, <3>2 DEF FirstBelow
        <3>3. ASSUME NEW i, LessAt(a, M, i) PROVE Less(L, M)
            <4>1. Begins(M, M)
                BY <3>1 DEF Begins, U
            <4>2. QED
                BY <1>1, <1>5, <3>1, <3>3, <4>1, LessBelow
        <3>4. QED
            BY <1>1, <2>2, <3>1, <3>2, <3>3, LessIs
    <2>3. QED
        BY <1>3, <1>5, <1>7, <2>1, <2>2 DEF NextAfter
<1>8. QED
    BY <1>6, <1>7

-----------------------------------------------------------------------------
(* OIDs on the wire. *)

Numbers == -1 .. MaxInt

LEMMA MaxIntNat == MaxInt \in Nat
BY SMT DEF MaxInt

\* bytes are the 7-bit groups of x: v has what is left of it.
Encodes(bytes, x, v, n) ==
    /\ n \in Nat \ {0} /\ v \in [0 .. n -> Nat] /\ v[0] = x /\ v[n] = 0
    /\ \A i \in 1 .. n : v[i] = v[i - 1] \div 128
    /\ bytes \in Seq(Nat) /\ Len(bytes) = n
    /\ \A k \in 1 .. n : bytes[k] = (v[n - k] % 128) + (IF k = n THEN 0 ELSE 128)

ValueOf(x) == IF x = NoNumber THEN 0 ELSE x

\* What EncodeNumber() writes: the groups of seven bits, highest first.
LEMMA NumberEncoded ==
    ASSUME NEW x \in Numbers
    PROVE  \E v, n : Encodes(EncodeNumber(x), ValueOf(x), v, n)
<1> DEFINE G == MaxGroups
           F == [i \in 1 .. G |-> [y \in Nat |-> y \div 128]]
           Is(f) == f = [i \in 0 .. G |-> IF i = 0 THEN IF x = NoNumber THEN 0 ELSE x ELSE f[i - 1] \div 128]
           v == CHOOSE f : Is(f)
           Ends(i) == v[i] = 0 /\ (i = 1 \/ v[i - 1] # 0)
           n == CHOOSE i \in 1 .. G : Ends(i)
           bytes == [k \in 1 .. n |-> (v[n - k] % 128) + (IF k = n THEN 0 ELSE 128)]
<1>0. G = 10 /\ ValueOf(x) \in Nat /\ ValueOf(x) <= 2147483647
    <2>1. (8 * 9) \div 7 = 10
        OBVIOUS
    <2>2. G = 10
        BY <2>1 DEF MaxGroups
    <2>3. x \in Int /\ -1 <= x /\ x <= 2147483647
        <3>1. MaxInt \in Nat /\ MaxInt <= 2147483647
            BY SMT DEF MaxInt
        <3>2. x \in Int /\ -1 <= x /\ x <= MaxInt
            BY MaxIntNat DEF Numbers
        <3>3. QED
            BY <3>1, <3>2, SMT
    <2>4. CASE x = -1
        BY <2>2, <2>4, SMT DEF ValueOf, NoNumber
    <2>5. CASE x # -1
        <3>1. ValueOf(x) = x
            BY <2>5 DEF ValueOf, NoNumber
        <3>2. QED
            BY <2>2, <2>3, <2>5, <3>1, SMT
    <2>6. QED
        BY <2>4, <2>5, SMT
<1>1. G = 10 /\ ValueOf(x) \in Nat
    BY <1>0, SMT
<1>2. EncodeNumber(x) = bytes
    BY DEF EncodeNumber
<1> HIDE DEF G
<1>3. F \in [1 .. G -> [Nat -> Nat]]
    <2>1. \A y \in Nat : y \div 128 \in Nat
        OBVIOUS
    <2>2. QED
        BY <2>1
<1>4. PICK f : Loop(f, Nat, ValueOf(x), G, F)
    <2> HIDE DEF F
    <2>1. QED
        BY <1>1, <1>3, LoopValues
<1>5. ASSUME NEW i \in 1 .. G PROVE f[i] = f[i - 1] \div 128
    <2>1. f[i - 1] \in Nat
        BY <1>1, <1>4 DEF Loop
    <2>2. QED
        BY <1>4, <2>1 DEF Loop
<1> HIDE DEF F
<1>6. Is(f)
    <2>1. \A i \in 0 .. G : f[i] = IF i = 0 THEN IF x = NoNumber THEN 0 ELSE x ELSE f[i - 1] \div 128
        BY <1>1, <1>4, <1>5 DEF Loop, ValueOf
    <2>2. QED
        BY <1>4, <2>1 DEF Loop
<1>7. Is(v)
    BY <1>6
<1> HIDE DEF v
<1>8. v[0] = ValueOf(x) /\ \A i \in 1 .. G : v[i] = v[i - 1] \div 128
    <2>1. v[0] = ValueOf(x)
        BY <1>1, <1>7 DEF ValueOf
    <2>2. ASSUME NEW i \in 1 .. G PROVE v[i] = v[i - 1] \div 128
        BY <1>1, <1>7
    <2>3. QED
        BY <2>1, <2>2
<1>9. \A i \in 0 .. G : v[i] \in Nat
    <2> DEFINE T == {i \in 0 .. G : v[i] \in Nat}
    <2>1. 0 \in T
        BY <1>1, <1>8
    <2>2. ASSUME NEW i \in 1 .. G, i - 1 \in T PROVE i \in T
        BY <1>1, <1>8, <2>2
    <2> HIDE DEF T
    <2>3. 0 .. G \subseteq T
        BY <1>1, <2>1, <2>2, InductTo
    <2>4. QED
        BY <2>3 DEF T
<1>10. v[5] = 0
    <2>1. v[1] = v[0] \div 128 /\ v[2] = v[1] \div 128 /\ v[3] = v[2] \div 128 /\ v[4] = v[3] \div 128 /\ v[5] = v[4] \div 128
        BY <1>1, <1>8
    <2>2. v[0] \in Nat /\ v[1] \in Nat /\ v[2] \in Nat /\ v[3] \in Nat /\ v[4] \in Nat /\ v[5] \in Nat
        BY <1>1, <1>9
    <2>3. v[1] <= 16777215
        BY <1>0, <1>8, <2>1, <2>2, SMT
    <2>4. v[2] <= 131071
        BY <2>1, <2>2, <2>3
    <2>5. v[3] <= 1023
        BY <2>1, <2>2, <2>4
    <2>6. v[4] <= 7
        BY <2>1, <2>2, <2>5
    <2>7. QED
        BY <2>1, <2>2, <2>6
<1>11. \E i \in 1 .. G : Ends(i)
    <2> DEFINE Z == {i \in Nat : i \in 1 .. G /\ v[i] = 0}
    <2>1. Z \in SUBSET Nat /\ Z # {}
        BY <1>1, <1>10
    <2>2. PICK i \in Z : \A j \in Z : i <= j
        <3> HIDE DEF Z
        <3>1. QED
            BY <2>1, LeastElement
    <2>3. i = 1 \/ v[i - 1] # 0
        BY <1>1, <2>2
    <2>4. QED
        BY <2>2, <2>3
<1>12. n \in 1 .. G /\ Ends(n)
    BY <1>11
<1> HIDE DEF n
<1>13. n \in Nat \ {0} /\ \A k \in 1 .. n : n - k \in 0 .. G
    BY <1>1, <1>12
<1>14. \A k \in 1 .. n : (v[n - k] % 128) + (IF k = n THEN 0 ELSE 128) \in Nat
    BY <1>9, <1>13
<1>15. bytes \in [1 .. n -> Nat]
    BY <1>14
<1>16. bytes \in Seq(Nat) /\ Len(bytes) = n
    <2> HIDE DEF bytes
    <2>1. QED
        BY <1>13, <1>15
<1>17. \A k \in 1 .. n : bytes[k] = (v[n - k] % 128) + (IF k = n THEN 0 ELSE 128)
    OBVIOUS
<1> HIDE DEF bytes
<1> DEFINE w == [i \in 0 .. n |-> v[i]]
<1>18. w \in [0 .. n -> Nat] /\ \A i \in 0 .. n : w[i] = v[i]
    BY <1>1, <1>9, <1>12
<1> HIDE DEF w
<1>19. w[0] = ValueOf(x) /\ w[n] = 0
    BY <1>8, <1>12, <1>13, <1>18
<1>20. ASSUME NEW i \in 1 .. n PROVE w[i] = w[i - 1] \div 128
    <2>1. i \in 0 .. n /\ i - 1 \in 0 .. n /\ i \in 1 .. G
        BY <1>1, <1>12, <1>13
    <2>2. w[i] = v[i] /\ w[i - 1] = v[i - 1] /\ v[i] = v[i - 1] \div 128
        BY <1>8, <1>18, <2>1
    <2>3. QED
        BY <2>2
<1>21. ASSUME NEW k \in 1 .. n PROVE bytes[k] = (w[n - k] % 128) + (IF k = n THEN 0 ELSE 128)
    <2>1. n - k \in 0 .. n
        BY <1>13
    <2>2. QED
        BY <1>17, <1>18, <2>1
<1>22. Encodes(bytes, ValueOf(x), w, n)
    BY <1>13, <1>16, <1>18, <1>19, <1>20, <1>21 DEF Encodes
<1>23. QED
    BY <1>2, <1>22

Decoding == [v : Nat, oid : U]

\* A byte keeps the types of what get_OID() has.
LEMMA TakeByteType ==
    ASSUME NEW d \in Decoding, NEW first \in BOOLEAN, NEW byte \in Nat
    PROVE  TakeByte(d, first, byte) \in Decoding
<1> DEFINE w == 128 * d.v + (byte % 128)
           o == IF first /\ w = 43 THEN <<1, 3>> ELSE Append(IF d.oid = <<>> THEN <<NoNumber>> ELSE d.oid, w)
<1>1. w \in Nat /\ d.oid \in U /\ d.v \in Nat
    BY DEF Decoding
<1>2. TakeByte(d, first, byte) = IF byte >= 128 THEN [d EXCEPT !.v = w] ELSE [v |-> 0, oid |-> o]
    BY DEF TakeByte
<1> HIDE DEF w
<1>3. <<1, 3>> \in U /\ <<NoNumber>> \in U /\ w \in Int
    BY <1>1 DEF U, NoNumber
<1>4. o \in U
    BY <1>1, <1>3 DEF U
<1> HIDE DEF o
<1>5. [d EXCEPT !.v = w] \in Decoding
    BY <1>1 DEF Decoding
<1>6. QED
    BY <1>2, <1>4, <1>5 DEF Decoding

\* f has what get_OID() has after every byte.
Decodes(f, bytes) ==
    /\ f \in [0 .. Len(bytes) -> Decoding] /\ f[0] = [v |-> 0, oid |-> <<>>]
    /\ \A i \in 1 .. Len(bytes) : f[i] = TakeByte(f[i - 1], i = 1, bytes[i])

\* What get_OID() has after every byte.
LEMMA DecodeLoop ==
    ASSUME NEW bytes \in Seq(Nat)
    PROVE  \E f : /\ Decodes(f, bytes)
                  /\ get_OID(bytes) = [ok |-> f[Len(bytes)].v = 0, oid |-> f[Len(bytes)].oid]
<1> DEFINE n == Len(bytes)
           base == [v |-> 0, oid |-> <<>>]
           step(x, i) == TakeByte(x, i = 1, bytes[i])
           F == [i \in 1 .. n |-> [x \in Decoding |-> step(x, i)]]
           Is(f) == f = [i \in 0 .. n |-> IF i = 0 THEN base ELSE step(f[i - 1], i)]
           s == CHOOSE f : Is(f)
<1>1. n \in Nat /\ base \in Decoding /\ \A i \in 1 .. n : bytes[i] \in Nat
    BY DEF Decoding, U
<1>2. ASSUME NEW i \in 1 .. n, NEW x \in Decoding PROVE step(x, i) \in Decoding
    BY <1>1, TakeByteType
<1>3. F \in [1 .. n -> [Decoding -> Decoding]]
    <2> HIDE DEF step, n
    <2>1. QED
        BY <1>2
<1> HIDE DEF base
<1>4. PICK f : Loop(f, Decoding, base, n, F)
    <2> HIDE DEF n, F
    <2>1. QED
        BY <1>1, <1>3, LoopValues
<1>5. ASSUME NEW i \in 1 .. n PROVE f[i] = step(f[i - 1], i)
    <2>1. f[i - 1] \in Decoding
        BY <1>1, <1>4, SMTT(30) DEF Loop
    <2> HIDE DEF step
    <2>2. QED
        BY <1>4, <2>1 DEF Loop
<1> HIDE DEF F
<1>6. Is(f)
    <2> HIDE DEF n, step
    <2>1. \A i \in 0 .. n : f[i] = IF i = 0 THEN base ELSE step(f[i - 1], i)
        BY <1>1, <1>4, <1>5 DEF Loop
    <2>2. QED
        BY <1>4, <2>1 DEF Loop
<1>7. Is(s)
    BY <1>6
<1>8. get_OID(bytes) = [ok |-> s[n].v = 0, oid |-> s[n].oid]
    BY DEF get_OID, base
<1> HIDE DEF s
<1>9. s = f
    <2> HIDE DEF n, step
    <2> DEFINE T == {i \in 0 .. n : s[i] = f[i]}
    <2>1. 0 \in T
        BY <1>1, <1>6, <1>7
    <2>2. ASSUME NEW i \in 1 .. n, i - 1 \in T PROVE i \in T
        <3>1. s[i] = step(s[i - 1], i) /\ f[i] = step(f[i - 1], i) /\ i \in 0 .. n
            BY <1>1, <1>6, <1>7
        <3>2. QED
            BY <2>2, <3>1
    <2> HIDE DEF T
    <2>3. 0 .. n \subseteq T
        BY <1>1, <2>1, <2>2, InductTo
    <2>4. \A i \in 0 .. n : s[i] = f[i]
        BY <2>3 DEF T
    <2>5. QED
        BY <1>6, <1>7, <2>4
<1>10. Decodes(f, bytes)
    BY <1>4, <1>5 DEF Decodes, Loop, base
<1>11. QED
    BY <1>8, <1>9, <1>10

\* A byte that was written gives back its group.
LEMMA GroupOf ==
    ASSUME NEW y \in Nat, NEW last \in BOOLEAN, NEW c, c = (y % 128) + (IF last THEN 0 ELSE 128)
    PROVE  c \in Nat /\ (c >= 128 <=> ~last) /\ 128 * (y \div 128) + (c % 128) = y
<1>1. y % 128 \in 0 .. 127 /\ 128 * (y \div 128) + (y % 128) = y
    OBVIOUS
<1>2. CASE last
    <2>1. c = y % 128
        BY <1>1, <1>2
    <2>2. QED
        BY <1>1, <1>2, <2>1
<1>3. CASE ~last
    <2>1. c = (y % 128) + 128
        BY <1>3
    <2>2. c % 128 = y % 128
        BY <1>1, <2>1
    <2>3. QED
        BY <1>1, <1>3, <2>1, <2>2
<1>4. QED
    BY <1>2, <1>3

\* The bytes of a number, one by one.
LEMMA EncodesFacts ==
    ASSUME NEW e, NEW x, NEW v, NEW n, Encodes(e, x, v, n)
    PROVE  /\ n \in Nat \ {0} /\ v[n] = 0 /\ v[0] = x
           /\ \A k \in 1 .. n :
                /\ e[k] \in Nat /\ (e[k] >= 128 <=> k # n)
                /\ v[n - k] \in Nat /\ v[n - k + 1] \in Nat
                /\ 128 * v[n - k + 1] + (e[k] % 128) = v[n - k]
<1>1. n \in Nat \ {0} /\ v[n] = 0 /\ v[0] = x /\ v \in [0 .. n -> Nat]
    BY DEF Encodes
<1>2. ASSUME NEW k \in 1 .. n
      PROVE  /\ e[k] \in Nat /\ (e[k] >= 128 <=> k # n)
             /\ v[n - k] \in Nat /\ v[n - k + 1] \in Nat
             /\ 128 * v[n - k + 1] + (e[k] % 128) = v[n - k]
    <2>1. n - k + 1 \in 1 .. n /\ n - k \in 0 .. n /\ n - k + 1 \in 0 .. n /\ (n - k + 1) - 1 = n - k
        BY <1>1
    <2>2. e[k] = (v[n - k] % 128) + (IF k = n THEN 0 ELSE 128)
        BY DEF Encodes
    <2>3. v[n - k] \in Nat /\ v[n - k + 1] \in Nat
        BY <1>1, <2>1
    <2>4. \A i \in 1 .. n : v[i] = v[i - 1] \div 128
        BY DEF Encodes
    <2>5. v[n - k + 1] = v[n - k] \div 128
        BY <2>1, <2>4
    <2>6. /\ e[k] \in Nat /\ (e[k] >= 128 <=> ~(k = n))
          /\ 128 * (v[n - k] \div 128) + (e[k] % 128) = v[n - k]
        BY <2>2, <2>3, (k = n) \in BOOLEAN, GroupOf
    <2>7. QED
        BY <2>3, <2>5, <2>6
<1>3. QED
    BY <1>1, <1>2

Has(f, i, o) == f[i] = [v |-> 0, oid |-> o]

\* After a bytes there is an OID o, and e is next.
Reads(f, b, a, o, e, x, v, n) ==
    /\ b \in Seq(Nat) /\ Decodes(f, b) /\ a \in Nat \ {0} /\ o \in U /\ o # <<>>
    /\ f[a] = [v |-> 0, oid |-> o]
    /\ Encodes(e, x, v, n) /\ a + n <= Len(b) /\ \A k \in 1 .. n : b[a + k] = e[k]

\* One number, from its first byte to its last.
LEMMA NumberDecoded ==
    ASSUME NEW f, NEW b, NEW a, NEW o, NEW e, NEW x, NEW v, NEW n, Reads(f, b, a, o, e, x, v, n)
    PROVE  Has(f, a + n, Append(o, x))
<1>0. SUFFICES ASSUME b \in Seq(Nat), Decodes(f, b), a \in Nat \ {0}, o \in U, o # <<>>,
                      f[a] = [v |-> 0, oid |-> o], Encodes(e, x, v, n),
                      a + n <= Len(b), \A k \in 1 .. n : b[a + k] = e[k]
               PROVE  f[a + n] = [v |-> 0, oid |-> Append(o, x)]
    BY DEF Reads, Has
<1> USE <1>0
<1>1. n \in Nat \ {0} /\ v[n] = 0 /\ v[0] = x
    BY EncodesFacts
<1>2. ASSUME NEW k \in 1 .. n
      PROVE  /\ e[k] \in Nat /\ (e[k] >= 128 <=> k # n)
             /\ v[n - k] \in Nat /\ v[n - k + 1] \in Nat
             /\ 128 * v[n - k + 1] + (e[k] % 128) = v[n - k]
    BY EncodesFacts
<1>3. ASSUME NEW k \in 1 .. n PROVE f[a + k] = TakeByte(f[a + k - 1], FALSE, e[k])
    <2>1. a + k \in 1 .. Len(b) /\ a + k # 1
        BY <1>1
    <2>2. f[a + k] = TakeByte(f[a + k - 1], a + k = 1, b[a + k])
        BY <2>1 DEF Decodes
    <2>3. (a + k = 1) = FALSE
        BY <2>1
    <2>4. b[a + k] = e[k]
        OBVIOUS
    <2>5. QED
        BY <2>2, <2>3, <2>4
<1> DEFINE T == {k \in 0 .. n - 1 : f[a + k] = [v |-> v[n - k], oid |-> o]}
<1>4. 0 \in T
    BY <1>1, SMTT(30)
<1>5. ASSUME NEW k \in 1 .. n - 1, k - 1 \in T PROVE k \in T
    <2>1. k \in 1 .. n /\ k # n /\ a + (k - 1) = a + k - 1 /\ n - (k - 1) = n - k + 1
        BY <1>1
    <2>2. f[a + k - 1] = [v |-> v[n - k + 1], oid |-> o]
        BY <1>5, <2>1
    <2>3. f[a + k] = TakeByte([v |-> v[n - k + 1], oid |-> o], FALSE, e[k])
        BY <1>3, <2>1, <2>2
    <2> DEFINE y == v[n - k + 1]
               c == e[k]
    <2>4. y \in Nat /\ c \in Nat /\ c >= 128 /\ 128 * y + (c % 128) = v[n - k]
        BY <1>2, <2>1
    <2> HIDE DEF y, c
    <2>5. TakeByte([v |-> y, oid |-> o], FALSE, c) = [v |-> 128 * y + (c % 128), oid |-> o]
        BY <2>4 DEF TakeByte
    <2>6. f[a + k] = [v |-> v[n - k], oid |-> o]
        BY <2>3, <2>4, <2>5 DEF y, c
    <2>7. QED
        BY <2>6
<1> HIDE DEF T
<1>6. n - 1 \in T
    <2>1. n - 1 \in Nat
        BY <1>1
    <2>2. 0 .. n - 1 \subseteq T
        BY <1>4, <1>5, <2>1, InductTo
    <2>3. QED
        BY <2>1, <2>2
<1>7. f[a + n - 1] = [v |-> v[1], oid |-> o]
    <2>1. f[a + (n - 1)] = [v |-> v[n - (n - 1)], oid |-> o]
        BY <1>6 DEF T
    <2>2. a + (n - 1) = a + n - 1 /\ n - (n - 1) = 1
        BY <1>1
    <2>3. QED
        BY <2>1, <2>2
<1>8. n \in 1 .. n /\ n - n = 0 /\ n - n + 1 = 1
    BY <1>1
<1> DEFINE y == v[1]
           c == e[n]
<1>9. y \in Nat /\ c \in Nat /\ ~(c >= 128) /\ 128 * y + (c % 128) = x
    <2>1. /\ e[n] \in Nat /\ ~(e[n] >= 128) /\ v[n - n + 1] \in Nat
          /\ 128 * v[n - n + 1] + (e[n] % 128) = v[n - n]
        BY <1>2, <1>8, ZenonT(60)
    <2>2. QED
        BY <1>1, <1>8, <2>1, SMTT(30)
<1>10. f[a + n] = TakeByte([v |-> y, oid |-> o], FALSE, c)
    BY <1>3, <1>7, <1>8
<1> HIDE DEF y, c
<1>11. TakeByte([v |-> y, oid |-> o], FALSE, c) = [v |-> 0, oid |-> Append(o, 128 * y + (c % 128))]
    BY <1>9 DEF TakeByte
<1>12. QED
    BY <1>9, <1>10, <1>11, ZenonT(30)

From(oid) == IF Len(oid) > 2 /\ Prefix(oid, 2) = <<1, 3>> THEN 2 ELSE 0

\* p has what is written after every number.
Writes(p, oid, from) ==
    /\ p \in [0 .. Len(oid) - from -> Seq(Nat)] /\ p[0] = IF from = 2 THEN <<43>> ELSE <<>>
    /\ \A i \in 1 .. Len(oid) - from : p[i] = p[i - 1] \o EncodeNumber(oid[from + i])

\* What snmp_oid has written after every number.
LEMMA EncodeLoop ==
    ASSUME NEW oid \in Seq(Numbers)
    PROVE  \E p : Writes(p, oid, From(oid)) /\ EncodeOid(oid) = p[Len(oid) - From(oid)]
<1> DEFINE S == Seq(Nat)
           from == From(oid)
           n == Len(oid) - from
           base == IF from = 2 THEN <<43>> ELSE <<>>
           step(x, i) == x \o EncodeNumber(oid[from + i])
           F == [i \in 1 .. n |-> [x \in S |-> step(x, i)]]
           Is(f) == f = [i \in 0 .. n |-> IF i = 0 THEN base ELSE step(f[i - 1], i)]
           s == CHOOSE f : Is(f)
<1>1. n \in Nat /\ from \in {0, 2} /\ from + n = Len(oid)
    BY DEF From
<1>2. base \in S
    OBVIOUS
<1>3. ASSUME NEW i \in 1 .. n, NEW x \in S PROVE step(x, i) \in S
    <2>1. oid[from + i] \in Numbers
        BY <1>1
    <2>2. EncodeNumber(oid[from + i]) \in Seq(Nat)
        <3>1. PICK v, m : Encodes(EncodeNumber(oid[from + i]), ValueOf(oid[from + i]), v, m)
            BY <2>1, NumberEncoded, SMTT(30)
        <3>2. QED
            BY <3>1 DEF Encodes
    <2>3. QED
        BY <2>2
<1>4. F \in [1 .. n -> [S -> S]]
    <2> HIDE DEF step, n, S
    <2>1. QED
        BY <1>3
<1>5. EncodeOid(oid) = s[n]
    <2> DEFINE short == Len(oid) > 2 /\ Prefix(oid, 2) = <<1, 3>>
    <2>1. /\ from = IF short THEN 2 ELSE 0
          /\ base = IF short THEN <<43>> ELSE <<>>
        BY DEF From
    <2>2. QED
        BY <2>1 DEF EncodeOid
<1> HIDE DEF base, S, from
<1>6. PICK f : Loop(f, S, base, n, F)
    <2> HIDE DEF n, F
    <2>1. QED
        BY <1>1, <1>2, <1>4, LoopValues
<1>7. ASSUME NEW i \in 1 .. n PROVE f[i] = step(f[i - 1], i)
    <2>1. f[i - 1] \in S
        BY <1>1, <1>6 DEF Loop
    <2> HIDE DEF step
    <2>2. QED
        BY <1>6, <2>1 DEF Loop
<1> HIDE DEF F
<1>8. Is(f)
    <2> HIDE DEF n, step
    <2>1. \A i \in 0 .. n : f[i] = IF i = 0 THEN base ELSE step(f[i - 1], i)
        BY <1>1, <1>6, <1>7 DEF Loop
    <2>2. QED
        BY <1>6, <2>1 DEF Loop
<1>9. Is(s)
    <2> HIDE DEF n, step
    <2>1. QED
        BY <1>8
<1> HIDE DEF s
<1>10. s[n] = f[n]
    <2> HIDE DEF n, step
    <2> DEFINE T == {i \in 0 .. n : s[i] = f[i]}
    <2>1. 0 \in T
        BY <1>1, <1>8, <1>9
    <2>2. ASSUME NEW i \in 1 .. n, i - 1 \in T PROVE i \in T
        <3>1. s[i] = step(s[i - 1], i) /\ f[i] = step(f[i - 1], i) /\ i \in 0 .. n
            BY <1>1, <1>8, <1>9
        <3>2. QED
            BY <2>2, <3>1
    <2> HIDE DEF T
    <2>3. 0 .. n \subseteq T
        BY <1>1, <2>1, <2>2, InductTo
    <2>4. QED
        BY <1>1, <2>3 DEF T
<1>11. Writes(f, oid, from)
    BY <1>6, <1>7 DEF Writes, Loop, base, S
<1>12. QED
    BY <1>5, <1>10, <1>11 DEF from

LEMMA EncodeType == ASSUME NEW oid \in Seq(Numbers) PROVE EncodeOid(oid) \in Seq(Nat) /\ Len(EncodeOid(oid)) \in Nat
<1>1. PICK p : Writes(p, oid, From(oid)) /\ EncodeOid(oid) = p[Len(oid) - From(oid)]
    BY EncodeLoop
<1>2. Len(oid) - From(oid) \in 0 .. Len(oid) - From(oid)
    BY DEF From
<1>3. EncodeOid(oid) \in Seq(Nat)
    BY <1>1, <1>2 DEF Writes
<1>4. QED
    BY <1>3

\* What registered OIDs and the start of a walk are.
LEMMA OidFacts ==
    ASSUME NEW oid \in Oids
    PROVE  /\ oid \in Seq(Numbers) /\ oid \in U /\ Len(oid) \in Nat /\ Len(oid) > 2 /\ Prefix(oid, 2) = <<1, 3>>
           /\ oid[1] = 1 /\ oid[2] = 3 /\ oid # <<>>
           /\ \A i \in 1 .. Len(oid) : oid[i] \in Numbers /\ oid[i] \in Nat
<1>1. oid \in Seq(0 .. MaxInt) /\ Len(oid) > 2 /\ Prefix(oid, 2) = <<1, 3>>
    BY DEF Oids
<1>2. 0 .. MaxInt \subseteq Numbers /\ 0 .. MaxInt \subseteq Int /\ 0 .. MaxInt \subseteq Nat
    BY MaxIntNat DEF Numbers
<1>3. Len(oid) \in Nat /\ \A i \in 1 .. Len(oid) : oid[i] \in 0 .. MaxInt
    <2> DEFINE S == 0 .. MaxInt
    <2>1. oid \in Seq(S)
        BY <1>1
    <2> HIDE DEF S
    <2>2. Len(oid) \in Nat /\ \A i \in 1 .. Len(oid) : oid[i] \in S
        BY <2>1
    <2>3. QED
        BY <2>2 DEF S
<1>4. oid \in Seq(Numbers)
    <2>1. \A i \in 1 .. Len(oid) : oid[i] \in Numbers
        BY <1>2, <1>3
    <2>2. oid \in [1 .. Len(oid) -> Numbers]
        BY <1>1, <2>1
    <2>3. QED
        BY <1>3, <2>2
<1>5. oid \in U
    <2>1. \A i \in 1 .. Len(oid) : oid[i] \in Int
        BY <1>2, <1>3
    <2>2. oid \in [1 .. Len(oid) -> Int]
        BY <1>1, <2>1
    <2>3. QED
        BY <1>3, <2>2 DEF U
<1>6. oid[1] = 1 /\ oid[2] = 3
    <2>1. \A i \in 1 .. 2 : Prefix(oid, 2)[i] = oid[i]
        BY <1>1, <1>3, <1>5, PrefixFacts
    <2>2. Prefix(oid, 2)[1] = oid[1] /\ Prefix(oid, 2)[2] = oid[2]
        BY <2>1
    <2>3. QED
        BY <1>1, <2>2
<1>7. oid # <<>>
    BY <1>1
<1>8. QED
    BY <1>1, <1>2, <1>3, <1>4, <1>5, <1>6, <1>7

\* What was written stays as it is.
LEMMA WritesGrow ==
    ASSUME NEW p, NEW m \in Nat, p \in [0 .. m -> Seq(Nat)], NEW E \in [1 .. m -> Seq(Nat)],
           \A i \in 1 .. m : p[i] = p[i - 1] \o E[i],
           NEW i \in 0 .. m, NEW l \in 0 .. m, i <= l
    PROVE  Begins(p[i], p[l])
<1> DEFINE T == {j \in 0 .. m : j >= i => Begins(p[i], p[j])}
<1>1. 0 \in T
    BY DEF Begins
<1>2. ASSUME NEW j \in 1 .. m, j - 1 \in T PROVE j \in T
    <2>1. CASE j = i
        BY <2>1 DEF Begins
    <2>2. CASE j > i
        <3>1. Begins(p[i], p[j - 1]) /\ j - 1 \in 0 .. m
            BY <1>2, <2>2
        <3> DEFINE x == p[i]
                   y == p[j - 1]
                   e == E[j]
                   z == p[j]
        <3>2. x \in Seq(Nat) /\ y \in Seq(Nat) /\ e \in Seq(Nat)
            BY <3>1
        <3>3. z = y \o e
            OBVIOUS
        <3> HIDE DEF x, y, e, z
        <3>4. Len(z) = Len(y) + Len(e) /\ \A k \in 1 .. Len(y) : z[k] = y[k]
            BY <3>2, <3>3
        <3>5. Len(x) \in Nat /\ Len(y) \in Nat /\ Len(e) \in Nat
            BY <3>2
        <3>6. Begins(x, y)
            BY <3>1 DEF x, y
        <3>7. Begins(x, z)
            BY <3>4, <3>5, <3>6, SMTT(30) DEF Begins
        <3>8. QED
            BY <3>7 DEF x, z
    <2>3. CASE j < i
        BY <2>3
    <2>4. QED
        BY <2>1, <2>2, <2>3
<1> HIDE DEF T
<1>3. 0 .. m \subseteq T
    BY <1>1, <1>2, InductTo
<1>4. QED
    BY <1>3 DEF T

\* An OID comes off the wire as it was written.
LEMMA RoundTrip ==
    ASSUME NEW oid \in Oids PROVE get_OID(EncodeOid(oid)) = [ok |-> TRUE, oid |-> oid]
<1>1. PICK p : Writes(p, oid, 2) /\ EncodeOid(oid) = p[Len(oid) - 2]
    <2>1. From(oid) = 2
        BY OidFacts DEF From
    <2>2. QED
        BY <2>1, EncodeLoop, OidFacts
<1> DEFINE m == Len(oid) - 2
           b == p[m]
           E == [i \in 1 .. m |-> EncodeNumber(oid[2 + i])]
<1>2. m \in Nat /\ 2 + m = Len(oid) /\ p \in [0 .. m -> Seq(Nat)] /\ p[0] = <<43>>
    BY <1>1, OidFacts DEF Writes
<1>3. ASSUME NEW i \in 1 .. m
      PROVE  /\ oid[2 + i] \in Nat /\ E[i] = EncodeNumber(oid[2 + i]) /\ p[i] = p[i - 1] \o E[i]
             /\ \E v, n : Encodes(E[i], oid[2 + i], v, n)
    <2>1. 2 + i \in 1 .. Len(oid)
        BY <1>2
    <2>2. oid[2 + i] \in Nat /\ oid[2 + i] \in Numbers
        BY <2>1, OidFacts
    <2>3. ValueOf(oid[2 + i]) = oid[2 + i]
        BY <2>2 DEF ValueOf, NoNumber
    <2>4. E[i] = EncodeNumber(oid[2 + i])
        OBVIOUS
    <2>5. p[i] = p[i - 1] \o EncodeNumber(oid[2 + i])
        BY <1>1 DEF Writes
    <2>6. \E v, n : Encodes(EncodeNumber(oid[2 + i]), ValueOf(oid[2 + i]), v, n)
        BY <2>2, NumberEncoded
    <2>7. QED
        BY <2>2, <2>3, <2>4, <2>5, <2>6
<1>4. E \in [1 .. m -> Seq(Nat)]
    <2>1. ASSUME NEW i \in 1 .. m PROVE EncodeNumber(oid[2 + i]) \in Seq(Nat)
        BY <1>3 DEF Encodes
    <2>2. QED
        BY <2>1
<1> HIDE DEF E, m
<1>5. b \in Seq(Nat) /\ Len(b) \in Nat
    BY <1>2
<1>6. ASSUME NEW i \in 0 .. m PROVE Begins(p[i], b)
    <2>1. m \in 0 .. m /\ i <= m
        BY <1>2
    <2>2. QED
        BY <1>2, <1>3, <1>4, <2>1, WritesGrow
<1>7. PICK f : Decodes(f, b) /\ get_OID(b) = [ok |-> f[Len(b)].v = 0, oid |-> f[Len(b)].oid]
    BY <1>5, DecodeLoop
<1> DEFINE T == {i \in 0 .. m : f[Len(p[i])] = [v |-> 0, oid |-> Prefix(oid, 2 + i)]}
<1>8. 0 \in T
    <2>1. Len(p[0]) = 1 /\ p[0][1] = 43
        BY <1>2
    <2>2. 1 \in 1 .. Len(b) /\ b[1] = 43
        BY <1>2, <1>5, <1>6, <2>1 DEF Begins
    <2>3. f[1] = TakeByte(f[0], TRUE, 43)
        <3>1. f[1] = TakeByte(f[1 - 1], 1 = 1, b[1])
            BY <1>7, <2>2 DEF Decodes
        <3>2. (1 = 1) = TRUE /\ 1 - 1 = 0
            OBVIOUS
        <3>3. QED
            BY <2>2, <3>1, <3>2
    <2>4. f[0] = [v |-> 0, oid |-> <<>>]
        BY <1>7 DEF Decodes
    <2>5. TakeByte([v |-> 0, oid |-> <<>>], TRUE, 43) = [v |-> 0, oid |-> <<1, 3>>]
        BY DEF TakeByte
    <2>6. Prefix(oid, 2 + 0) = <<1, 3>>
        BY OidFacts
    <2>7. f[Len(p[0])] = [v |-> 0, oid |-> Prefix(oid, 2 + 0)]
        BY <2>1, <2>3, <2>4, <2>5, <2>6
    <2>8. 0 \in 0 .. m
        BY <1>2
    <2>9. QED
        BY <2>7, <2>8
<1>9. ASSUME NEW i \in 1 .. m, i - 1 \in T PROVE i \in T
    <2> DEFINE a == Len(p[i - 1])
               o == Prefix(oid, 1 + i)
               e == E[i]
               x == oid[2 + i]
    <2>1. i - 1 \in 0 .. m /\ i \in 0 .. m /\ 2 + (i - 1) = 1 + i /\ 1 + i \in 0 .. Len(oid) /\ 2 + i \in 0 .. Len(oid)
        BY <1>2
    <2>2. PICK v, n : Encodes(e, x, v, n)
        BY <1>3
    <2>3. e \in Seq(Nat) /\ Len(e) = n /\ n \in Nat \ {0}
        BY <2>2 DEF Encodes
    <2>4. p[i - 1] \in Seq(Nat) /\ p[i] = p[i - 1] \o e /\ p[i] \in Seq(Nat)
        BY <1>2, <1>3, <2>1
    <2>5. /\ a \in Nat /\ Len(p[i]) = a + n
          /\ \A k \in 1 .. n : p[i][a + k] = e[k]
        <3> DEFINE y == p[i - 1]
                   z == p[i]
        <3>1. y \in Seq(Nat) /\ z = y \o e
            BY <2>4
        <3> HIDE DEF y, z, e
        <3>2. Len(y) \in Nat /\ Len(z) = Len(y) + Len(e) /\ \A k \in 1 .. Len(e) : z[Len(y) + k] = e[k]
            <4>1. Len(y) \in Nat /\ Len(e) \in Nat
                BY <2>3, <3>1
            <4>2. /\ Len(z) = Len(y) + Len(e)
                  /\ \A k \in 1 .. Len(y) + Len(e) : z[k] = IF k <= Len(y) THEN y[k] ELSE e[k - Len(y)]
                BY <2>3, <3>1, ConcatProperties
            <4>3. ASSUME NEW k \in 1 .. Len(e) PROVE z[Len(y) + k] = e[k]
                <5>1. Len(y) + k \in 1 .. Len(y) + Len(e) /\ ~(Len(y) + k <= Len(y)) /\ (Len(y) + k) - Len(y) = k
                    BY <4>1
                <5>2. QED
                    BY <4>2, <5>1
            <4>4. QED
                BY <4>1, <4>2, <4>3
        <3>3. QED
            BY <2>3, <3>2 DEF y, z
    <2>6. a # 0
        <3>1. Begins(p[0], p[i - 1])
            <4>1. 0 \in 0 .. m /\ 0 <= i - 1
                BY <1>2
            <4>2. QED
                BY <1>2, <1>3, <1>4, <2>1, <4>1, WritesGrow
        <3>2. QED
            BY <1>2, <2>5, <3>1 DEF Begins
    <2>7. Len(p[i]) <= Len(b) /\ \A k \in 1 .. Len(p[i]) : p[i][k] = b[k]
        BY <1>6, <2>1 DEF Begins
    <2>8. a + n <= Len(b) /\ \A k \in 1 .. n : b[a + k] = e[k]
        <3> HIDE DEF a, e
        <3>1. \A k \in 1 .. n : a + k \in 1 .. Len(p[i])
            BY <2>3, <2>5
        <3>2. QED
            BY <2>5, <2>7, <3>1
    <2>9. f[a] = [v |-> 0, oid |-> o]
        BY <1>9, <2>1
    <2>10. o \in U /\ Len(o) = 1 + i /\ o # <<>>
        BY <2>1, OidFacts, PrefixFacts
    <2> HIDE DEF a, o, e, x
    <2>11. f[a + n] = [v |-> 0, oid |-> Append(o, x)]
        <3>1. a \in Nat \ {0}
            BY <2>5, <2>6 DEF a
        <3>2. b \in Seq(Nat) /\ Decodes(f, b) /\ a + n <= Len(b) /\ \A k \in 1 .. n : b[a + k] = e[k]
            BY <1>5, <1>7, <2>8
        <3> HIDE DEF b
        <3>3. o \in U /\ o # <<>> /\ f[a] = [v |-> 0, oid |-> o] /\ Encodes(e, x, v, n)
            BY <2>2, <2>9, <2>10
        <3>4. Reads(f, b, a, o, e, x, v, n)
            BY <3>1, <3>2, <3>3 DEF Reads
        <3>5. QED
            <4>1. Has(f, a + n, Append(o, x))
                BY <3>4, NumberDecoded
            <4>2. QED
                BY <4>1 DEF Has
    <2>12. Append(o, x) = Prefix(oid, 2 + i)
        <3> DEFINE w == Prefix(oid, 2 + i)
                   l == Append(o, x)
        <3>1. w \in U /\ Len(w) = 2 + i /\ \A k \in 1 .. 2 + i : w[k] = oid[k]
            BY <2>1, OidFacts, PrefixFacts
        <3>2. \A k \in 1 .. 1 + i : o[k] = oid[k]
            BY <2>1, OidFacts, PrefixFacts DEF o
        <3>3. x = oid[2 + i] /\ x \in Int
            <4>1. oid[2 + i] \in Nat
                BY <1>3
            <4>2. QED
                BY <4>1 DEF x
        <3>4. l \in U /\ Len(l) = 2 + i /\ l[2 + i] = x /\ \A k \in 1 .. 1 + i : l[k] = o[k]
            BY <2>10, <3>3 DEF U
        <3> HIDE DEF w, l
        <3>5. \A k \in 1 .. 2 + i : l[k] = w[k]
            BY <3>1, <3>2, <3>3, <3>4
        <3>6. l = w
            BY <3>1, <3>4, <3>5, SeqEqual DEF U
        <3>7. QED
            BY <3>6 DEF w, l
    <2>13. QED
        BY <2>1, <2>5, <2>11, <2>12 DEF a
<1> HIDE DEF T
<1>10. f[Len(b)] = [v |-> 0, oid |-> oid]
    <2>1. 0 .. m \subseteq T
        BY <1>2, <1>8, <1>9, InductTo
    <2>2. f[Len(b)] = [v |-> 0, oid |-> Prefix(oid, 2 + m)]
        BY <1>2, <2>1 DEF T
    <2>3. Prefix(oid, 2 + m) = oid
        BY <1>2, OidFacts, PrefixFull
    <2>4. QED
        BY <2>2, <2>3
<1>11. EncodeOid(oid) = b
    BY <1>1 DEF m
<1>12. f[Len(b)].v = 0 /\ f[Len(b)].oid = oid
    BY <1>10
<1>13. (f[Len(b)].v = 0) = TRUE
    BY <1>12
<1>14. QED
    BY <1>7, <1>11, <1>12, <1>13

-----------------------------------------------------------------------------
(* The agent's tree. *)

\* init_snmp() makes a sound tree of any MIB of this kind.
LEMMA AgentTree ==
    ASSUME NEW m \in Mibs
    PROVE  LET R == Range1(m, Len(m)) IN
           /\ R \subseteq Oids /\ Sound(R) /\ Grown(init_snmp(m), R)
           /\ \E D \in Nat : Deep(R, D)
<1> DEFINE n == Len(m)
           R == Range1(m, n)
<1>1. m \in Seq(Oids) /\ \A i, j \in 1 .. n : i # j => ~IsPrefix(m[i], m[j])
    BY MibsAssumption
<1>2. n \in Nat /\ \A i \in 1 .. n : m[i] \in Oids
    BY <1>1
<1>3. \A i \in 1 .. n : m[i] \in U /\ Len(m[i]) \in Nat /\ Len(m[i]) > 2 /\ m[i][1] = 1
    BY <1>2, OidFacts
<1> HIDE DEF n
<1>4. R \subseteq Oids
    BY <1>2 DEF Range1
<1>5. \A i, j \in 1 .. n : i # j => ~Begins(m[i], m[j])
    BY <1>1, <1>3, IsPrefixBegins
<1>6. Sound(R)
    <2>1. R \subseteq U /\ \A o \in R : Len(o) > 1
        BY <1>3 DEF Range1
    <2>2. \A o, p \in R : o[1] = p[1]
        BY <1>3 DEF Range1
    <2>3. \A o, p \in R : o # p => ~Begins(o, p)
        BY <1>5 DEF Range1
    <2>4. QED
        BY <2>1, <2>2, <2>3 DEF Sound
<1>7. \A i, j \in 1 .. n : i # j => m[i] # m[j]
    BY <1>5 DEF Begins
<1>8. m \in Seq(U)
    <2>1. m \in [1 .. n -> U]
        BY <1>1, <1>3 DEF n
    <2>2. QED
        BY <1>2, <2>1
<1>9. Grown(init_snmp(m), R)
    BY <1>6, <1>7, <1>8, InitGrown DEF n
<1>10. \E D \in Nat : Deep(R, D)
    <2> DEFINE T == {i \in 0 .. n : \E D \in Nat : Deep(Range1(m, i), D)}
    <2>1. 0 \in T
        <3>1. Deep(Range1(m, 0), 0)
            BY DEF Deep, Range1
        <3>2. QED
            BY <1>2, <3>1
    <2>2. ASSUME NEW i \in 1 .. n, i - 1 \in T PROVE i \in T
        <3>1. PICK D \in Nat : Deep(Range1(m, i - 1), D)
            BY <2>2
        <3> DEFINE E == D + Len(m[i])
        <3>2. E \in Nat /\ Len(m[i]) \in Nat /\ D <= E /\ Len(m[i]) <= E
            BY <1>3
        <3>3. ASSUME NEW o \in Range1(m, i) PROVE Len(o) <= E
            <4>1. PICK k \in 1 .. i : o = m[k]
                BY DEF Range1
            <4>2. CASE k = i
                BY <3>2, <4>1, <4>2
            <4>3. CASE k # i
                <5>1. o \in Range1(m, i - 1) /\ k \in 1 .. n
                    <6>1. k \in 1 .. i - 1 /\ k \in 1 .. n
                        BY <1>2, <4>3
                    <6>2. QED
                        BY <4>1, <6>1 DEF Range1
                <5>2. Len(o) <= D /\ Len(o) \in Nat
                    BY <1>3, <3>1, <4>1, <5>1 DEF Deep
                <5>3. QED
                    BY <3>2, <5>2
            <4>4. QED
                BY <4>2, <4>3
        <3>4. i \in 0 .. n
            OBVIOUS
        <3> HIDE DEF E
        <3>5. QED
            BY <3>2, <3>3, <3>4 DEF Deep
    <2> HIDE DEF T
    <2>3. 0 .. n \subseteq T
        BY <1>2, <2>1, <2>2, InductTo
    <2>4. QED
        BY <1>2, <2>3 DEF T
<1>11. QED
    BY <1>4, <1>6, <1>9, <1>10 DEF n

\* From a node that is an OID, find_next_oid() goes to the next object.
LEMMA NextObject ==
    ASSUME NEW m \in Mibs, NEW a \in U, NEW i \in 1 .. Len(m), Begins(a, m[i])
    PROVE  NextAfter(Range1(m, Len(m)), a, find_next_oid(init_snmp(m), a))
<1> DEFINE R == Range1(m, Len(m))
           t == init_snmp(m)
<1>1. Sound(R) /\ Grown(t, R) /\ \E D \in Nat : Deep(R, D)
    BY AgentTree
<1>2. m[i] \in R
    BY DEF Range1
<1>3. a \in NodesOf(R)
    BY <1>2 DEF NodesOf
<1>4. a \in Nodes(t)
    BY <1>1, <1>3 DEF Grown
<1> HIDE DEF R, t
<1>5. QED
    BY <1>1, <1>2, <1>4, FindNext DEF R, t

-----------------------------------------------------------------------------
(* Lengths. *)

Building == [o : Nat, n : Nat, full : BOOLEAN, whole : BOOLEAN]

\* s has what snmp_sequence::get_payload() has after every element.
Builds(s, sizes) ==
    /\ s \in [0 .. Len(sizes) -> Building]
    /\ s[0] = [o |-> 2, n |-> 0, full |-> FALSE, whole |-> TRUE]
    /\ \A i \in 1 .. Len(sizes) : s[i] = SequenceAdds(s[i - 1], sizes[i])

\* Adding an element, with its three outcomes.
LEMMA AddsFacts ==
    ASSUME NEW x \in Building, NEW size \in Nat
    PROVE  /\ SequenceAdds(x, size) \in Building
           /\ SequenceAdds(x, size).n \in {x.n, x.n + 1}
           /\ ~x.full /\ x.o + size < Uint8 =>
                SequenceAdds(x, size) = [o |-> x.o + size, n |-> x.n + 1, full |-> FALSE, whole |-> x.whole]
<1>1. Uint8 \in Nat \ {0} /\ x.o \in Nat /\ x.n \in Nat /\ x.full \in BOOLEAN /\ x.whole \in BOOLEAN
    BY Uint8Assumption DEF Building
<1>2. x = [o |-> x.o, n |-> x.n, full |-> x.full, whole |-> x.whole]
    BY DEF Building
<1>3. CASE x.full \/ x.o + size >= Uint8 + 1
    <2>1. SequenceAdds(x, size) = [x EXCEPT !.full = TRUE]
        BY <1>3 DEF SequenceAdds
    <2>2. SequenceAdds(x, size) = [o |-> x.o, n |-> x.n, full |-> TRUE, whole |-> x.whole]
        BY <1>2, <2>1
    <2>3. QED
        BY <1>1, <1>3, <2>2 DEF Building
<1>4. CASE ~(x.full \/ x.o + size >= Uint8 + 1)
    <2> DEFINE w == x.whole /\ x.o + size < Uint8
               l == (x.o + size) % Uint8
    <2>1. SequenceAdds(x, size) = [x EXCEPT !.o = (@ + size) % Uint8, !.n = @ + 1, !.whole = @ /\ x.o + size < Uint8]
        BY <1>4 DEF SequenceAdds
    <2>2. SequenceAdds(x, size) = [o |-> l, n |-> x.n + 1, full |-> x.full, whole |-> w]
        BY <1>2, <2>1
    <2>3. l \in Nat /\ w \in BOOLEAN
        BY <1>1
    <2>4. x.o + size < Uint8 => l = x.o + size /\ w = x.whole
        BY <1>1
    <2>5. x.full = FALSE
        BY <1>1, <1>4
    <2> HIDE DEF w, l
    <2>6. SequenceAdds(x, size) \in Building
        BY <1>1, <2>2, <2>3 DEF Building
    <2>7. SequenceAdds(x, size).n = x.n + 1
        BY <2>2
    <2>8. QED
        BY <2>2, <2>4, <2>5, <2>6, <2>7
<1>5. QED
    BY <1>3, <1>4

\* A sequence after each of its elements.
LEMMA SequenceLoop ==
    ASSUME NEW sizes \in Seq(Nat)
    PROVE  \E s : Builds(s, sizes) /\ Sequence(sizes) = s[Len(sizes)]
<1> DEFINE n == Len(sizes)
           base == [o |-> 2, n |-> 0, full |-> FALSE, whole |-> TRUE]
           step(x, i) == SequenceAdds(x, sizes[i])
           F == [i \in 1 .. n |-> [x \in Building |-> step(x, i)]]
           Is(f) == f = [i \in 0 .. n |-> IF i = 0 THEN base ELSE step(f[i - 1], i)]
           s == CHOOSE f : Is(f)
<1>1. n \in Nat /\ base \in Building /\ \A i \in 1 .. n : sizes[i] \in Nat
    BY DEF Building
<1>2. ASSUME NEW i \in 1 .. n, NEW x \in Building PROVE step(x, i) \in Building
    BY <1>1, AddsFacts
<1>3. F \in [1 .. n -> [Building -> Building]]
    <2> HIDE DEF step, n
    <2>1. QED
        BY <1>2
<1>4. Sequence(sizes) = s[n]
    BY DEF Sequence
<1> HIDE DEF base
<1>5. PICK f : Loop(f, Building, base, n, F)
    <2> HIDE DEF n, F
    <2>1. QED
        BY <1>1, <1>3, LoopValues
<1>6. ASSUME NEW i \in 1 .. n PROVE f[i] = step(f[i - 1], i)
    <2>1. f[i - 1] \in Building
        BY <1>1, <1>5 DEF Loop
    <2> HIDE DEF step
    <2>2. QED
        BY <1>5, <2>1 DEF Loop
<1> HIDE DEF F
<1>7. Is(f)
    <2> HIDE DEF n, step
    <2>1. \A i \in 0 .. n : f[i] = IF i = 0 THEN base ELSE step(f[i - 1], i)
        BY <1>1, <1>5, <1>6 DEF Loop
    <2>2. QED
        BY <1>5, <2>1 DEF Loop
<1>8. Is(s)
    <2> HIDE DEF n, step
    <2>1. QED
        BY <1>7
<1> HIDE DEF s
<1>9. s[n] = f[n]
    <2> HIDE DEF n, step
    <2> DEFINE T == {i \in 0 .. n : s[i] = f[i]}
    <2>1. 0 \in T
        BY <1>1, <1>7, <1>8
    <2>2. ASSUME NEW i \in 1 .. n, i - 1 \in T PROVE i \in T
        <3>1. s[i] = step(s[i - 1], i) /\ f[i] = step(f[i - 1], i) /\ i \in 0 .. n
            BY <1>1, <1>7, <1>8
        <3>2. QED
            BY <2>2, <3>1
    <2> HIDE DEF T
    <2>3. 0 .. n \subseteq T
        BY <1>1, <2>1, <2>2, InductTo
    <2>4. QED
        BY <1>1, <2>3 DEF T
<1>10. Builds(f, sizes)
    BY <1>5, <1>6 DEF Builds, Loop, base
<1>11. QED
    BY <1>4, <1>9, <1>10

\* The length and the number of elements of a sequence are numbers.
LEMMA SequenceType ==
    ASSUME NEW sizes \in Seq(Nat)
    PROVE  Sequence(sizes) \in Building /\ Sequence(sizes).n \in 0 .. Len(sizes)
<1>1. PICK s : Builds(s, sizes) /\ Sequence(sizes) = s[Len(sizes)]
    BY SequenceLoop
<1> DEFINE m == Len(sizes)
           T == {i \in 0 .. m : s[i] \in Building /\ s[i].n \in 0 .. i}
<1>2. m \in Nat /\ \A i \in 1 .. m : sizes[i] \in Nat
    OBVIOUS
<1>3. 0 \in T
    BY <1>1, <1>2 DEF Builds
<1>4. ASSUME NEW i \in 1 .. m, i - 1 \in T PROVE i \in T
    <2> DEFINE x == s[i - 1]
    <2>1. x \in Building /\ x.n \in 0 .. i - 1 /\ sizes[i] \in Nat
        BY <1>2, <1>4
    <2>2. s[i] = SequenceAdds(x, sizes[i])
        BY <1>1 DEF Builds
    <2> HIDE DEF x
    <2>3. s[i] \in Building /\ s[i].n \in {x.n, x.n + 1}
        BY <2>1, <2>2, AddsFacts, ZenonT(30)
    <2>4. s[i].n \in 0 .. i /\ i \in 0 .. m
        <3> DEFINE y == x.n
                   z == s[i].n
        <3>1. y \in 0 .. i - 1 /\ i \in Nat /\ i <= m /\ (z = y \/ z = y + 1)
            BY <1>2, <2>1, <2>3, SMTT(30)
        <3> HIDE DEF y, z
        <3>2. z \in 0 .. i /\ i \in 0 .. m
            BY <1>2, <3>1
        <3>3. QED
            BY <3>2 DEF z
    <2>5. QED
        BY <2>3, <2>4
<1> HIDE DEF T, m
<1>5. 0 .. m \subseteq T
    BY <1>2, <1>3, <1>4, InductTo
<1>6. m \in T
    BY <1>2, <1>5
<1>7. QED
    BY <1>1, <1>6 DEF T, m

\* Sums of the first elements do not get less.
LEMMA RunningGrows ==
    ASSUME NEW w \in Seq(Nat), NEW r, RunningTotal(r, w), NEW i \in 0 .. Len(w) PROVE r[i] <= r[Len(w)]
<1> DEFINE m == Len(w)
<1>1. i \in 0 .. m
    OBVIOUS
<1>2. m \in Nat /\ \A k \in 1 .. m : w[k] \in Nat
    OBVIOUS
<1>3. r \in [0 .. m -> Nat] /\ r[0] = 0 /\ \A k \in 1 .. m : r[k] = r[k - 1] + w[k]
    BY DEF RunningTotal
<1>4. r[i] <= r[m]
    <2> DEFINE V == {k \in 0 .. m : k >= i => r[i] <= r[k]}
    <2> HIDE DEF m
    <2>1. 0 \in V
        <3>1. i = 0 => r[i] <= r[0]
            BY <1>2, <1>3
        <3>2. QED
            BY <1>2, <3>1
    <2>2. ASSUME NEW k \in 1 .. m, k - 1 \in V PROVE k \in V
        <3>1. r[k] = r[k - 1] + w[k] /\ r[k] \in Nat /\ r[k - 1] \in Nat /\ r[i] \in Nat /\ w[k] \in Nat /\ k \in 0 .. m
            <4>1. k - 1 \in 0 .. m /\ k \in 0 .. m
                BY <1>2
            <4>2. QED
                BY <1>1, <1>2, <1>3, <4>1
        <3>2. k >= i => k = i \/ r[i] <= r[k - 1]
            BY <1>2, <2>2
        <3>3. k >= i => r[i] <= r[k]
            <4> DEFINE A == r[k - 1]
                       B == r[k]
                       C == r[i]
                       E == w[k]
            <4>1. A \in Nat /\ B \in Nat /\ C \in Nat /\ E \in Nat /\ B = A + E
                BY <3>1
            <4>2. (k = i => C = B) /\ (k >= i => k = i \/ C <= A)
                BY <3>2
            <4> HIDE DEF A, B, C, E
            <4>3. k >= i => C <= B
                BY <4>1, <4>2
            <4>4. QED
                BY <4>3 DEF B, C
        <3>4. QED
            BY <3>1, <3>3
    <2> HIDE DEF V
    <2>3. 0 .. m \subseteq V
        BY <1>2, <2>1, <2>2, InductTo
    <2>4. m \in 0 .. m /\ m >= i
        BY <1>1, <1>2
    <2>5. QED
        BY <2>3, <2>4 DEF V
<1>5. QED
    BY <1>4

\* What fits in less than a full buffer is all there.
LEMMA SequenceFits ==
    ASSUME NEW sizes \in Seq(Nat), 2 + Total(sizes) < Uint8
    PROVE  Sequence(sizes) = [o |-> 2 + Total(sizes), n |-> Len(sizes), full |-> FALSE, whole |-> TRUE]
<1>1. PICK s : Builds(s, sizes) /\ Sequence(sizes) = s[Len(sizes)]
    BY SequenceLoop
<1>2. PICK r : RunningTotal(r, sizes) /\ Total(sizes) = r[Len(sizes)]
    BY TotalRuns
<1> DEFINE m == Len(sizes)
           T == {i \in 0 .. m : s[i] = [o |-> 2 + r[i], n |-> i, full |-> FALSE, whole |-> TRUE]}
<1>3. m \in Nat /\ \A i \in 1 .. m : sizes[i] \in Nat
    OBVIOUS
<1>4. r \in [0 .. m -> Nat] /\ r[0] = 0 /\ \A i \in 1 .. m : r[i] = r[i - 1] + sizes[i]
    BY <1>2 DEF RunningTotal
<1>5. ASSUME NEW i \in 0 .. m PROVE r[i] <= r[m]
    BY <1>2, RunningGrows
<1>6. r[m] \in Nat /\ 2 + r[m] < Uint8 /\ Uint8 \in Nat
    <2>1. m \in 0 .. m
        BY <1>3
    <2>2. QED
        BY <1>2, <1>4, <2>1, Uint8Assumption
<1>7. 0 \in T
    <2>1. s[0] = [o |-> 2, n |-> 0, full |-> FALSE, whole |-> TRUE]
        BY <1>1 DEF Builds
    <2>2. 2 + r[0] = 2 /\ 0 \in 0 .. m
        BY <1>3, <1>4
    <2>3. QED
        BY <2>1, <2>2
<1>8. ASSUME NEW i \in 1 .. m, i - 1 \in T PROVE i \in T
    <2> DEFINE x == s[i - 1]
    <2>1. i - 1 \in 0 .. m /\ i \in 0 .. m /\ (i - 1) + 1 = i
        BY <1>3
    <2>2. x = [o |-> 2 + r[i - 1], n |-> i - 1, full |-> FALSE, whole |-> TRUE]
        BY <1>8
    <2>3. r[i - 1] \in Nat /\ r[i] \in Nat /\ sizes[i] \in Nat /\ r[i] = r[i - 1] + sizes[i] /\ r[i] <= r[m]
        BY <1>3, <1>4, <1>5, <2>1
    <2>4. x \in Building /\ ~x.full /\ x.o + sizes[i] < Uint8
        <3>1. x \in Building
            BY <1>1, <2>1 DEF Builds
        <3>2. x.o = 2 + r[i - 1] /\ x.full = FALSE
            BY <2>2
        <3>3. QED
            <4> DEFINE A == r[i - 1]
                       B == r[i]
                       C == sizes[i]
                       M == r[m]
            <4>1. A \in Nat /\ B \in Nat /\ C \in Nat /\ M \in Nat /\ B = A + C /\ B <= M /\ 2 + M < Uint8 /\ Uint8 \in Nat
                BY <1>6, <2>3
            <4> HIDE DEF A, B, C, M
            <4>2. (2 + A) + C < Uint8
                BY <4>1
            <4>3. QED
                BY <3>1, <3>2, <4>2 DEF A, C
    <2>5. s[i] = SequenceAdds(x, sizes[i])
        BY <1>1 DEF Builds
    <2>6. x.o = 2 + r[i - 1] /\ x.n = i - 1 /\ x.whole = TRUE
        BY <2>2
    <2> HIDE DEF x
    <2>7. s[i] = [o |-> x.o + sizes[i], n |-> x.n + 1, full |-> FALSE, whole |-> x.whole]
        BY <2>3, <2>4, <2>5, AddsFacts
    <2>8. x.o + sizes[i] = 2 + r[i] /\ x.n + 1 = i
        <3> DEFINE A == r[i - 1]
                   B == r[i]
                   C == sizes[i]
        <3>1. A \in Nat /\ C \in Nat /\ B = A + C
            BY <2>3
        <3> HIDE DEF A, B, C
        <3>2. (2 + A) + C = 2 + B
            BY <3>1
        <3>3. QED
            BY <2>1, <2>6, <3>2 DEF A, B, C
    <2>9. s[i] = [o |-> 2 + r[i], n |-> i, full |-> FALSE, whole |-> TRUE]
        BY <2>6, <2>7, <2>8
    <2>10. QED
        BY <2>1, <2>9
<1> HIDE DEF T
<1>9. m \in T
    <2> HIDE DEF m
    <2>1. 0 .. m \subseteq T
        BY <1>3, <1>7, <1>8, InductTo
    <2>2. QED
        BY <1>3, <2>1
<1>10. QED
    BY <1>1, <1>2, <1>9 DEF T

-----------------------------------------------------------------------------
(* Requests and replies. *)

\* A request with one varbind.
LEMMA ProcessOne ==
    ASSUME NEW q, NEW b, q.list = <<b>>
    PROVE  process_BER(q) = ProcessVarbind([oids |-> <<>>, err |-> 0], q.kind, b)
<1> DEFINE base == [oids |-> <<>>, err |-> 0]
           step(x, i) == ProcessVarbind(x, q.kind, q.list[i])
           Is(f) == f = [i \in 0 .. Len(q.list) |-> IF i = 0 THEN base ELSE step(f[i - 1], i)]
           s == CHOOSE f : Is(f)
           g == [i \in 0 .. Len(q.list) |-> IF i = 0 THEN base ELSE step(base, 1)]
<1>1. process_BER(q) = s[Len(q.list)]
    BY DEF process_BER
<1>2. Len(q.list) = 1 /\ q.list[1] = b
    OBVIOUS
<1>3. Is(g)
    <2> HIDE DEF base, step
    <2>1. g[0] = base /\ g[1] = step(base, 1) /\ 1 - 1 = 0
        BY <1>2
    <2>2. \A i \in 0 .. Len(q.list) : i = 0 \/ i = 1
        BY <1>2
    <2>3. \A i \in 0 .. Len(q.list) : g[i] = IF i = 0 THEN base ELSE step(g[i - 1], i)
        BY <2>1, <2>2
    <2>4. QED
        BY <2>3
<1> HIDE DEF g
<1>4. Is(s)
    <2> HIDE DEF base, step
    <2>1. QED
        BY <1>3
<1> HIDE DEF s
<1>5. s[0] = base /\ s[1] = step(s[0], 1)
    <2> HIDE DEF base, step
    <2>1. 0 \in 0 .. Len(q.list) /\ 1 \in 0 .. Len(q.list) /\ 1 # 0 /\ 1 - 1 = 0
        BY <1>2
    <2>2. QED
        BY <1>4, <2>1
<1>6. QED
    BY <1>1, <1>2, <1>5

\* What a step of the walk asks for.
LEMMA StepProcessed ==
    ASSUME NEW a \in Oids, NEW q, q.kind = "getnext", q.list = <<EncodeOid(a)>>,
           NEW x, x = find_next_oid(tree, a)
    PROVE  process_BER(q) = IF x = <<>> THEN [oids |-> <<>>, err |-> 2] ELSE [oids |-> <<x>>, err |-> 0]
<1> DEFINE base == [oids |-> <<>>, err |-> 0]
           d == get_OID(EncodeOid(a))
<1>1. process_BER(q) = ProcessVarbind(base, "getnext", EncodeOid(a))
    BY ProcessOne
<1>2. d = [ok |-> TRUE, oid |-> a]
    BY RoundTrip
<1>3. d.ok /\ d.oid = a
    BY <1>2
<1>4. ProcessVarbind(base, "getnext", EncodeOid(a)) =
        IF x = <<>> THEN [base EXCEPT !.err = 2] ELSE [base EXCEPT !.oids = Append(@, x)]
    <2> HIDE DEF base
    <2>1. QED
        BY <1>3 DEF ProcessVarbind
<1>5. [base EXCEPT !.err = 2] = [oids |-> <<>>, err |-> 2]
    OBVIOUS
<1>6. [base EXCEPT !.oids = Append(@, x)] = [oids |-> <<x>>, err |-> 0]
    <2>1. Append(<<>>, x) = <<x>>
        OBVIOUS
    <2>2. QED
        BY <2>1
<1>7. QED
    BY <1>1, <1>4, <1>5, <1>6

Varbinds(o) == [i \in 1 .. Len(o.oids) |-> Varbind(o.oids[i])]

Sizes(o) == [i \in 1 .. Len(Varbinds(o)) |-> Varbinds(o)[i].size]

List(o) == Sequence(Sizes(o))

Pdu(o) == Sequence(<<6, 6, 6, List(o).o>>)

Message(q, o) == Sequence(<<6, 2 + Community(q), Pdu(o).o>>)

There(q, o) ==
    Message(q, o).n = 3 /\ Pdu(o).n = 4 /\ Message(q, o).whole /\ Pdu(o).whole /\ List(o).whole

Listed(q, o) == IF There(q, o) THEN Prefix(Varbinds(o), List(o).n) ELSE <<>>

\* gen_reply(), in the names used here.
LEMMA ReplyIs ==
    ASSUME NEW q, NEW o
    PROVE  gen_reply(q, o) = IF Message(q, o).o = 0 THEN {}
                             ELSE {[id |-> q.id, err |-> o.err, list |-> Listed(q, o)]}
BY Zenon DEF gen_reply, Varbinds, Sizes, List, Pdu, Message, There, Listed

\* A reply has the id and the error of the request, and none or the first varbinds.
LEMMA ReplyFacts ==
    ASSUME NEW q, NEW o, NEW r \in gen_reply(q, o)
    PROVE  /\ r.id = q.id /\ r.err = o.err
           /\ r.list = <<>> \/ r.list = Prefix(Varbinds(o), Sequence(Sizes(o)).n)
<1>1. r = [id |-> q.id, err |-> o.err, list |-> Listed(q, o)]
    BY ReplyIs
<1>2. Listed(q, o) = <<>> \/ Listed(q, o) = Prefix(Varbinds(o), Sequence(Sizes(o)).n)
    BY DEF Listed, List
<1>3. QED
    BY <1>1, <1>2

\* The varbind of an object.
LEMMA ObjectVarbind ==
    ASSUME mib \in Mibs, tree = init_snmp(mib), NEW x \in Registered
    PROVE  /\ x \in Oids /\ x # <<>> /\ Len(EncodeOid(x)) \in Nat /\ ValueSize[x] \in Nat
           /\ Varbind(x) = [oid |-> EncodeOid(x), value |-> x,
                            size |-> Sequence(<<2 + Len(EncodeOid(x)), ValueSize[x]>>).o]
           /\ Varbind(x).size \in Nat
<1>1. Registered = Range1(mib, Len(mib))
    BY DEF Registered, Range1
<1>2. Registered \subseteq Oids /\ Sound(Registered) /\ Grown(tree, Registered)
    BY <1>1, AgentTree
<1>3. x \in Oids /\ x \in U /\ x # <<>> /\ x \in Seq(Numbers)
    BY <1>2, OidFacts
<1>4. Len(EncodeOid(x)) \in Nat
    BY <1>3, EncodeType
<1>5. ValueSize[x] \in Nat
    BY ValueSizeAssumption DEF Registered
<1>6. x \in Nodes(tree) /\ x \in tree.data
    <2>1. Begins(x, x)
        BY <1>3 DEF Begins, U
    <2>2. x \in NodesOf(Registered)
        BY <1>3, <2>1 DEF NodesOf
    <2>3. QED
        BY <1>2, <2>2 DEF Grown
<1>7. find_by_oid(tree, x) = "data"
    BY <1>3, <1>6 DEF find_by_oid
<1>8. ObjectOf(x) = x
    BY <1>7 DEF ObjectOf
<1> DEFINE sizes == <<2 + Len(EncodeOid(x)), ValueSize[x]>>
<1>9. Varbind(x) = [oid |-> EncodeOid(x), value |-> x, size |-> Sequence(sizes).o]
    BY <1>7, <1>8 DEF Varbind
<1>10. sizes \in Seq(Nat)
    BY <1>4, <1>5
<1> HIDE DEF sizes
<1>11. Sequence(sizes).o \in Nat
    BY <1>10, SequenceType DEF Building
<1>12. Varbind(x).size \in Nat
    BY <1>9, <1>11
<1>13. QED
    BY <1>3, <1>4, <1>5, <1>9, <1>12 DEF sizes

\* What a reply says of the objects after a.
Tells(r, a) ==
    /\ r.list # <<>> => LET x == get_OID(r.list[1].oid).oid IN x # <<>> /\ NextAfter(Registered, a, x)
    /\ r.list = <<>> /\ r.err # 0 => NextAfter(Registered, a, <<>>)

\* The reply to a GetNext tells what comes after its OID.
LEMMA StepReply ==
    ASSUME mib \in Mibs, tree = init_snmp(mib), NEW a \in Oids, NEW j \in 1 .. Len(mib), Begins(a, mib[j]),
           NEW q, q.kind = "getnext", q.list = <<EncodeOid(a)>>,
           NEW r \in gen_reply(q, process_BER(q))
    PROVE  r.id = q.id /\ Tells(r, a)
<1> DEFINE x == find_next_oid(tree, a)
           o == process_BER(q)
<1>1. Registered = Range1(mib, Len(mib)) /\ a \in U
    BY OidFacts DEF Registered, Range1
<1>2. NextAfter(Registered, a, x)
    BY <1>1, NextObject
<1>3. o = IF x = <<>> THEN [oids |-> <<>>, err |-> 2] ELSE [oids |-> <<x>>, err |-> 0]
    BY StepProcessed
<1>4. /\ r.id = q.id /\ r.err = o.err
      /\ r.list = <<>> \/ r.list = Prefix(Varbinds(o), Sequence(Sizes(o)).n)
    BY ReplyFacts
<1> HIDE DEF x, o
<1>5. CASE x = <<>>
    <2>1. o.oids = <<>> /\ o.err = 2
        BY <1>3, <1>5
    <2>2. Varbinds(o) = <<>> /\ Len(Varbinds(o)) = 0
        BY <2>1 DEF Varbinds
    <2>3. Sizes(o) = <<>>
        BY <2>2 DEF Sizes
    <2>4. Sequence(Sizes(o)).n \in 0 .. 0
        <3>1. Sizes(o) \in Seq(Nat) /\ Len(Sizes(o)) = 0
            BY <2>3
        <3>2. QED
            BY <3>1, SequenceType
    <2>5. r.list = <<>>
        BY <1>4, <2>2, <2>4 DEF Prefix
    <2>6. QED
        BY <1>2, <1>4, <1>5, <2>5 DEF Tells
<1>6. CASE x # <<>>
    <2>1. o.oids = <<x>> /\ o.err = 0 /\ Len(o.oids) = 1 /\ o.oids[1] = x
        BY <1>3, <1>6
    <2>2. x \in Registered
        BY <1>2, <1>6 DEF NextAfter
    <2>3. x \in Oids /\ Varbind(x).oid = EncodeOid(x) /\ Varbind(x).size \in Nat
        <3>1. /\ x \in Oids /\ Varbind(x).size \in Nat
              /\ Varbind(x) = [oid |-> EncodeOid(x), value |-> x,
                               size |-> Sequence(<<2 + Len(EncodeOid(x)), ValueSize[x]>>).o]
            BY <2>2, ObjectVarbind
        <3>2. QED
            BY <3>1
    <2> DEFINE v == Varbinds(o)
               n == Sequence(Sizes(o)).n
    <2>4. v = [i \in 1 .. 1 |-> Varbind(x)]
        BY <2>1 DEF Varbinds
    <2>5. v \in Seq({Varbind(x)}) /\ Len(v) = 1 /\ v[1] = Varbind(x)
        BY <2>4
    <2>6. Sizes(o) \in Seq(Nat) /\ Len(Sizes(o)) = 1
        <3>1. Sizes(o) = [i \in 1 .. 1 |-> Varbind(x).size]
            BY <2>4, <2>5 DEF Sizes
        <3>2. QED
            BY <2>3, <3>1
    <2>7. n \in 0 .. 1
        BY <2>6, SequenceType
    <2> HIDE DEF v, n
    <2>8. ASSUME r.list # <<>> PROVE r.list[1] = Varbind(x)
        <3>1. r.list = SubSeq(v, 1, n)
            BY <1>4, <2>8 DEF Prefix, v, n
        <3>2. n = 1
            BY <2>5, <2>7, <2>8, <3>1
        <3>3. QED
            BY <2>5, <3>1, <3>2
    <2>9. get_OID(EncodeOid(x)) = [ok |-> TRUE, oid |-> x]
        BY <2>3, RoundTrip
    <2>10. ASSUME r.list # <<>> PROVE get_OID(r.list[1].oid).oid = x
        BY <2>3, <2>8, <2>9, <2>10
    <2>11. r.err = 0
        BY <1>4, <2>1
    <2>12. QED
        BY <1>2, <1>4, <1>6, <2>10, <2>11 DEF Tells
<1>7. QED
    BY <1>5, <1>6

-----------------------------------------------------------------------------
(* Walks. *)

\* Where the walk was when it had seen k objects, and what it asked there.
PlaceAt(k) == IF k = 0 THEN walk.start ELSE walk.seen[k]

AskAt(k) == [kind |-> "getnext", id |-> k, community |-> 6, list |-> <<EncodeOid(PlaceAt(k))>>]

AgentInv ==
    /\ mib \in Mibs /\ tree = init_snmp(mib)
    /\ walk \in [start : Starts, seen : Seq(Registered), done : BOOLEAN]

OrderInv ==
    /\ \A i \in 1 .. Len(walk.seen) : Less(walk.start, walk.seen[i])
    /\ \A i \in 1 .. Len(walk.seen) : walk.seen[i] = At \/ Less(walk.seen[i], At)
    /\ \A i \in 1 .. Len(walk.seen) - 1 : Less(walk.seen[i], walk.seen[i + 1])
    /\ \A oid \in Registered : Less(walk.start, oid) =>
            (\E i \in 1 .. Len(walk.seen) : walk.seen[i] = oid) \/ Less(At, oid)
    /\ walk.done => \A oid \in Registered : ~Less(At, oid)

RequestInv == \A q \in requests : q \in OtherAsks \/ \E k \in 0 .. Len(walk.seen) : q = AskAt(k)

ReplyInv ==
    \A r \in replies : r.id < 0 \/ \E k \in 0 .. Len(walk.seen) : r.id = k /\ Tells(r, PlaceAt(k))

WalkInv == AgentInv /\ OrderInv /\ RequestInv /\ ReplyInv

\* What the walk has seen, and where it is.
LEMMA WalkFacts ==
    ASSUME AgentInv
    PROVE  /\ Registered \subseteq Oids /\ Registered \subseteq U
           /\ walk.seen \in Seq(Registered) /\ Len(walk.seen) \in Nat /\ walk.start \in Starts
           /\ walk = [start |-> walk.start, seen |-> walk.seen, done |-> walk.done]
           /\ \A k \in 0 .. Len(walk.seen) :
                /\ PlaceAt(k) \in Oids /\ PlaceAt(k) \in U
                /\ \E j \in 1 .. Len(mib) : Begins(PlaceAt(k), mib[j])
           /\ PlaceAt(Len(walk.seen)) = At /\ At \in U /\ walk.start \in U
<1>1. mib \in Mibs /\ walk.start \in Starts /\ walk.seen \in Seq(Registered) /\ Len(walk.seen) \in Nat
    BY DEF AgentInv
<1>2. Registered = Range1(mib, Len(mib))
    BY DEF Registered, Range1
<1>3. Registered \subseteq Oids
    BY <1>1, <1>2, AgentTree
<1>4. Registered \subseteq U
    BY <1>3, OidFacts
<1>5. walk.start \in Oids /\ walk.start \in U /\ \E j \in 1 .. Len(mib) : IsPrefix(walk.start, mib[j])
    BY <1>1, StartsAssumption, OidFacts
<1>6. \E j \in 1 .. Len(mib) : Begins(walk.start, mib[j])
    <2>1. PICK j \in 1 .. Len(mib) : IsPrefix(walk.start, mib[j])
        BY <1>5
    <2>2. mib[j] \in U
        BY <1>4 DEF Registered
    <2>3. QED
        BY <1>5, <2>1, <2>2, IsPrefixBegins
<1>7. ASSUME NEW k \in 0 .. Len(walk.seen)
      PROVE  /\ PlaceAt(k) \in Oids /\ PlaceAt(k) \in U
             /\ \E j \in 1 .. Len(mib) : Begins(PlaceAt(k), mib[j])
    <2>1. CASE k = 0
        BY <1>5, <1>6, <2>1 DEF PlaceAt
    <2>2. CASE k # 0
        <3>1. PlaceAt(k) = walk.seen[k] /\ walk.seen[k] \in Registered
            BY <1>1, <2>2 DEF PlaceAt
        <3>2. PICK j \in 1 .. Len(mib) : mib[j] = PlaceAt(k)
            BY <3>1 DEF Registered
        <3>3. Begins(PlaceAt(k), mib[j])
            <4>1. PlaceAt(k) \in U
                BY <1>4, <3>1
            <4>2. QED
                BY <3>2, <4>1 DEF Begins, U
        <3>4. QED
            BY <1>3, <1>4, <3>1, <3>3
    <2>3. QED
        BY <2>1, <2>2
<1>8. PlaceAt(Len(walk.seen)) = At
    <2>1. walk.seen = <<>> <=> Len(walk.seen) = 0
        BY <1>1
    <2>2. QED
        BY <2>1 DEF PlaceAt, At, Last
<1>9. At \in U
    <2>1. Len(walk.seen) \in 0 .. Len(walk.seen)
        BY <1>1
    <2>2. QED
        BY <1>7, <1>8, <2>1
<1>10. walk = [start |-> walk.start, seen |-> walk.seen, done |-> walk.done]
    BY DEF AgentInv
<1>11. QED
    BY <1>1, <1>3, <1>4, <1>5, <1>7, <1>8, <1>9, <1>10

LEMMA WalkInit == Init => WalkInv
<1> SUFFICES ASSUME Init PROVE WalkInv
    OBVIOUS
<1>1. PICK s \in Starts : walk = [start |-> s, seen |-> <<>>, done |-> FALSE]
    BY DEF Init
<1>2. walk.start = s /\ walk.seen = <<>> /\ walk.done = FALSE /\ Len(walk.seen) = 0
    BY <1>1
<1>3. AgentInv
    <2>1. <<>> \in Seq(Registered)
        OBVIOUS
    <2>2. QED
        BY <1>1, <2>1 DEF Init, AgentInv
<1>4. At = walk.start
    BY <1>2 DEF At
<1>5. OrderInv
    BY <1>2, <1>4 DEF OrderInv
<1>6. RequestInv /\ ReplyInv
    BY DEF Init, RequestInv, ReplyInv
<1>7. QED
    BY <1>3, <1>5, <1>6 DEF WalkInv

\* An answer that the walk takes: it is at the next object then, or at the end.
LEMMA WalkAnswered ==
    ASSUME WalkInv, NEW r \in replies, Answer(r) PROVE WalkInv'
<1> DEFINE n == Len(walk.seen)
           x == get_OID(r.list[1].oid).oid
<1>1. /\ mib' = mib /\ tree' = tree /\ requests' = requests /\ replies' = replies \ {r}
      /\ ~walk.done /\ r.id = n /\ (r.list # <<>> \/ r.err # 0)
    BY DEF Answer, IsAnswer
<1>2. AgentInv /\ OrderInv /\ RequestInv /\ ReplyInv
    BY DEF WalkInv
<1>3. /\ Registered \subseteq U /\ walk.seen \in Seq(Registered) /\ n \in Nat /\ walk.start \in Starts
      /\ walk = [start |-> walk.start, seen |-> walk.seen, done |-> walk.done]
      /\ PlaceAt(n) = At /\ At \in U /\ walk.start \in U
    BY <1>2, WalkFacts
<1>4. Tells(r, At)
    <2>1. ~(r.id < 0)
        BY <1>1, <1>3
    <2>2. PICK k \in 0 .. Len(walk.seen) : r.id = k /\ Tells(r, PlaceAt(k))
        BY <1>2, <2>1 DEF ReplyInv
    <2>3. QED
        BY <1>1, <1>3, <2>2
<1>5. Registered' = Registered
    BY <1>1 DEF Registered
<1>6. CASE r.list = <<>>
    <2>1. walk' = [walk EXCEPT !.done = TRUE]
        BY <1>6 DEF Answer
    <2>2. walk'.start = walk.start /\ walk'.seen = walk.seen /\ walk'.done = TRUE
        BY <1>3, <2>1
    <2>3. \A oid \in Registered : ~Less(At, oid)
        BY <1>1, <1>4, <1>6 DEF Tells, NextAfter
    <2>4. At' = At /\ \A k : PlaceAt(k)' = PlaceAt(k)
        BY <2>2 DEF At, PlaceAt
    <2>5. AgentInv'
        <3>1. walk' = [start |-> walk.start, seen |-> walk.seen, done |-> TRUE]
            BY <1>3, <2>1
        <3>2. QED
            BY <1>1, <1>2, <1>3, <1>5, <3>1 DEF AgentInv
    <2>6. OrderInv'
        BY <1>2, <1>5, <2>2, <2>3, <2>4 DEF OrderInv
    <2>7. RequestInv'
        <3>1. \A k : AskAt(k)' = AskAt(k)
            BY <2>4 DEF AskAt
        <3>2. QED
            BY <1>1, <1>2, <2>2, <3>1 DEF RequestInv
    <2>8. ReplyInv'
        <3>1. \A s, k : Tells(s, PlaceAt(k))' <=> Tells(s, PlaceAt(k))
            BY <1>5, <2>4 DEF Tells
        <3>2. QED
            BY <1>1, <1>2, <2>2, <3>1 DEF ReplyInv
    <2>9. QED
        BY <2>5, <2>6, <2>7, <2>8 DEF WalkInv
<1>7. CASE r.list # <<>>
    <2>1. walk' = [walk EXCEPT !.seen = Append(@, x)]
        BY <1>7 DEF Answer
    <2>2. x # <<>> /\ NextAfter(Registered, At, x)
        BY <1>4, <1>7 DEF Tells
    <2>3. x \in Registered /\ Less(At, x) /\ \A M \in Registered : Less(At, M) => M = x \/ Less(x, M)
        BY <2>2 DEF NextAfter
    <2> HIDE DEF x
    <2>4. walk' = [start |-> walk.start, seen |-> Append(walk.seen, x), done |-> walk.done]
        BY <1>3, <2>1
    <2>5. walk'.start = walk.start /\ walk'.seen = Append(walk.seen, x) /\ walk'.done = FALSE
        <3>1. walk'.start = walk.start /\ walk'.seen = Append(walk.seen, x) /\ walk'.done = walk.done
            BY <2>4
        <3>2. walk.done = FALSE
            BY <1>1, <1>2 DEF AgentInv
        <3>3. QED
            BY <3>1, <3>2
    <2> DEFINE w == Append(walk.seen, x)
    <2>6. /\ w \in Seq(Registered) /\ Len(w) = n + 1 /\ w[n + 1] = x /\ w # <<>>
          /\ \A i \in 1 .. n : w[i] = walk.seen[i]
        BY <1>3, <2>3
    <2> HIDE DEF w, n
    <2>7. At' = x
        BY <2>5, <2>6 DEF At, Last, w
    <2>8. \A k \in 0 .. n : PlaceAt(k)' = PlaceAt(k)
        <3>1. \A k \in 0 .. n : k # 0 => k \in 1 .. n
            BY <1>3
        <3>2. QED
            BY <2>5, <2>6, <3>1 DEF PlaceAt, w
    <2>9. AgentInv'
        BY <1>1, <1>2, <1>3, <1>5, <2>4, <2>6 DEF AgentInv, w
    <2>10. x \in U /\ \A i \in 1 .. n : walk.seen[i] \in U
        BY <1>3, <2>3 DEF n
    <2>11. ASSUME NEW i \in 1 .. n PROVE Less(walk.seen[i], x)
        <3>1. walk.seen[i] = At \/ Less(walk.seen[i], At)
            BY <1>2 DEF OrderInv, n
        <3>2. QED
            BY <1>3, <2>3, <2>10, <3>1, LessTrans
    <2>12. Less(walk.start, x)
        <3>1. CASE n = 0
            <4>1. At = walk.start
                BY <1>3, <3>1 DEF PlaceAt
            <4>2. QED
                BY <2>3, <4>1
        <3>2. CASE n # 0
            <4>1. 1 \in 1 .. n
                BY <1>3, <3>2
            <4>2. Less(walk.start, walk.seen[1])
                BY <1>2, <4>1 DEF OrderInv, n
            <4>3. QED
                BY <1>3, <2>10, <2>11, <4>1, <4>2, LessTrans
        <3>3. QED
            BY <3>1, <3>2
    <2>13. \A i \in 1 .. n + 1 : i \in 1 .. n \/ i = n + 1
        BY <1>3
    <2>14. OrderInv'
        <3>1. \A i \in 1 .. n + 1 : Less(walk.start, w[i])
            BY <1>2, <2>6, <2>12, <2>13 DEF OrderInv, n
        <3>2. \A i \in 1 .. n + 1 : w[i] = x \/ Less(w[i], x)
            BY <2>6, <2>11, <2>13
        <3>3. ASSUME NEW i \in 1 .. (n + 1) - 1 PROVE Less(w[i], w[i + 1])
            <4>1. CASE i = n
                <5>1. i \in 1 .. n
                    BY <1>3
                <5>2. QED
                    BY <2>6, <2>11, <4>1, <5>1
            <4>2. CASE i # n
                <5>1. i \in 1 .. n - 1 /\ i \in 1 .. n /\ i + 1 \in 1 .. n
                    BY <1>3, <4>2
                <5>2. Less(walk.seen[i], walk.seen[i + 1])
                    BY <1>2, <5>1 DEF OrderInv, n
                <5>3. QED
                    BY <2>6, <5>1, <5>2
            <4>3. QED
                BY <4>1, <4>2
        <3>4. ASSUME NEW oid \in Registered, Less(walk.start, oid)
              PROVE  (\E i \in 1 .. n + 1 : w[i] = oid) \/ Less(x, oid)
            <4>1. CASE \E i \in 1 .. n : walk.seen[i] = oid
                <5>1. PICK i \in 1 .. n : walk.seen[i] = oid
                    BY <4>1
                <5>2. i \in 1 .. n + 1 /\ w[i] = oid
                    BY <1>3, <2>6, <5>1
                <5>3. QED
                    BY <5>2
            <4>2. CASE Less(At, oid)
                <5>1. oid = x \/ Less(x, oid)
                    BY <2>3, <4>2
                <5>2. n + 1 \in 1 .. n + 1
                    BY <1>3
                <5>3. QED
                    BY <2>6, <5>1, <5>2
            <4>3. QED
                BY <1>2, <3>4, <4>1, <4>2 DEF OrderInv, n
        <3>5. Len(walk'.seen) = n + 1 /\ walk'.seen = w
            BY <2>5, <2>6 DEF w
        <3>6. QED
            BY <1>5, <2>5, <2>7, <3>1, <3>2, <3>3, <3>4, <3>5 DEF OrderInv
    <2>15. \A k \in 0 .. n : k \in 0 .. Len(walk'.seen)
        <3>1. Len(walk'.seen) = n + 1
            BY <2>5, <2>6 DEF w
        <3>2. QED
            BY <1>3, <3>1
    <2>16. RequestInv'
        <3>1. \A k \in 0 .. n : AskAt(k)' = AskAt(k)
            BY <2>8 DEF AskAt
        <3>2. QED
            BY <1>1, <1>2, <2>15, <3>1 DEF RequestInv, n
    <2>17. ReplyInv'
        <3>1. \A k \in 0 .. n : \A s : Tells(s, PlaceAt(k))' <=> Tells(s, PlaceAt(k))
            BY <1>5, <2>8 DEF Tells
        <3>2. QED
            BY <1>1, <1>2, <2>15, <3>1 DEF ReplyInv, n
    <2>18. QED
        BY <2>9, <2>14, <2>16, <2>17 DEF WalkInv
<1>8. QED
    BY <1>6, <1>7

\* Steps of the agent, the others and the network leave the walk where it is.
LEMMA WalkStays ==
    ASSUME WalkInv, UNCHANGED <<mib, tree, walk>>
    PROVE  /\ AgentInv' /\ OrderInv'
           /\ \A k : PlaceAt(k)' = PlaceAt(k) /\ AskAt(k)' = AskAt(k)
           /\ \A r, a : Tells(r, a)' <=> Tells(r, a)
<1>1. mib' = mib /\ tree' = tree /\ walk' = walk /\ AgentInv /\ OrderInv
    BY DEF WalkInv
<1>2. Registered' = Registered /\ At' = At
    BY <1>1 DEF Registered, At
<1>3. AgentInv'
    BY <1>1, <1>2 DEF AgentInv
<1>4. OrderInv'
    BY <1>1, <1>2 DEF OrderInv
<1>5. \A k : PlaceAt(k)' = PlaceAt(k)
    BY <1>1 DEF PlaceAt
<1>6. \A k : AskAt(k)' = AskAt(k)
    BY <1>5 DEF AskAt
<1>7. \A r, a : Tells(r, a)' <=> Tells(r, a)
    BY <1>2 DEF Tells
<1>8. QED
    BY <1>3, <1>4, <1>5, <1>6, <1>7

\* A reply keeps the invariant.
LEMMA WalkServed ==
    ASSUME WalkInv, NEW q \in requests, Serve(q) PROVE WalkInv'
<1>1. UNCHANGED <<mib, tree, walk>> /\ requests' \subseteq requests
    BY DEF Serve
<1>2. /\ AgentInv' /\ OrderInv'
      /\ \A k : PlaceAt(k)' = PlaceAt(k) /\ AskAt(k)' = AskAt(k)
      /\ \A r, a : Tells(r, a)' <=> Tells(r, a)
    BY <1>1, WalkStays
<1>3. AgentInv /\ RequestInv /\ ReplyInv /\ walk' = walk
    BY <1>1 DEF WalkInv
<1>4. RequestInv'
    BY <1>1, <1>2, <1>3 DEF RequestInv
<1>5. ReplyInv'
    <2>1. CASE q.kind = "junk"
        <3>1. replies' = replies
            BY <2>1 DEF Serve
        <3>2. QED
            BY <1>2, <1>3, <3>1 DEF ReplyInv
    <2>2. CASE q.kind # "junk"
        <3>1. replies' = replies \cup gen_reply(q, process_BER(q))
            BY <2>2 DEF Serve
        <3>2. ASSUME NEW r \in gen_reply(q, process_BER(q))
              PROVE  r.id < 0 \/ \E k \in 0 .. Len(walk.seen) : r.id = k /\ Tells(r, PlaceAt(k))
            <4>1. CASE q \in OtherAsks
                <5>1. q.id < 0
                    BY <2>2, <4>1, OtherAsksAssumption
                <5>2. r.id = q.id
                    BY ReplyFacts
                <5>3. QED
                    BY <5>1, <5>2
            <4>2. ASSUME NEW k \in 0 .. Len(walk.seen), q = AskAt(k) PROVE r.id = k /\ Tells(r, PlaceAt(k))
                <5>1. q.kind = "getnext" /\ q.id = k /\ q.list = <<EncodeOid(PlaceAt(k))>>
                    BY <4>2 DEF AskAt
                <5>2. PlaceAt(k) \in Oids /\ \E j \in 1 .. Len(mib) : Begins(PlaceAt(k), mib[j])
                    BY <1>3, WalkFacts
                <5>3. mib \in Mibs /\ tree = init_snmp(mib)
                    BY <1>3 DEF AgentInv
                <5>4. QED
                    BY <5>1, <5>2, <5>3, StepReply
            <4>3. QED
                BY <1>3, <4>1, <4>2 DEF RequestInv
        <3>3. QED
            BY <1>2, <1>3, <3>1, <3>2 DEF ReplyInv
    <2>3. QED
        BY <2>1, <2>2
<1>6. QED
    BY <1>2, <1>4, <1>5 DEF WalkInv

\* So does every step.
LEMMA WalkNext == WalkInv /\ [Next]_vars => WalkInv'
<1> SUFFICES ASSUME WalkInv, [Next]_vars PROVE WalkInv'
    OBVIOUS
<1>1. AgentInv /\ RequestInv /\ ReplyInv
    BY DEF WalkInv
<1>2. ASSUME NEW q \in requests, Serve(q) PROVE WalkInv'
    BY <1>2, WalkServed
<1>3. ASSUME NEW r \in replies, Answer(r) PROVE WalkInv'
    BY <1>3, WalkAnswered
<1>4. ASSUME UNCHANGED <<mib, tree, walk>>, replies' \subseteq replies,
             \A q \in requests' : q \in requests \/ q \in OtherAsks \/ q = NextAsk
      PROVE  WalkInv'
    <2>1. /\ AgentInv' /\ OrderInv'
          /\ \A k : PlaceAt(k)' = PlaceAt(k) /\ AskAt(k)' = AskAt(k)
          /\ \A r, a : Tells(r, a)' <=> Tells(r, a)
        BY <1>4, WalkStays
    <2>2. Len(walk.seen) \in Nat /\ PlaceAt(Len(walk.seen)) = At
        BY <1>1, WalkFacts
    <2>3. Len(walk.seen) \in 0 .. Len(walk.seen) /\ NextAsk = AskAt(Len(walk.seen))
        BY <2>2 DEF NextAsk, AskAt
    <2>4. RequestInv'
        BY <1>1, <1>4, <2>1, <2>3 DEF RequestInv
    <2>5. ReplyInv'
        BY <1>1, <1>4, <2>1 DEF ReplyInv
    <2>6. QED
        BY <2>1, <2>4, <2>5 DEF WalkInv
<1>5. CASE AskNext
    BY <1>4, <1>5 DEF AskNext
<1>6. CASE AskOther
    BY <1>4, <1>6 DEF AskOther
<1>7. CASE Lose
    BY <1>4, <1>7 DEF Lose
<1>8. CASE UNCHANGED vars
    BY <1>4, <1>8 DEF vars
<1>9. QED
    BY <1>2, <1>3, <1>5, <1>6, <1>7, <1>8 DEF Next

\* Each object being the next after the one before, none is left out.
LEMMA WalkInvOrder == WalkInv => WalkInOrder
<1> SUFFICES ASSUME WalkInv PROVE WalkInOrder
    OBVIOUS
<1> DEFINE n == Len(walk.seen)
           seen == {walk.seen[i] : i \in 1 .. n}
           ahead == {oid \in Registered : Less(walk.start, oid)}
<1>1. AgentInv /\ OrderInv
    BY DEF WalkInv
<1>2. Registered \subseteq U /\ walk.seen \in Seq(Registered) /\ n \in Nat /\ At \in U
    BY <1>1, WalkFacts
<1>3. seen \subseteq ahead
    BY <1>1, <1>2 DEF OrderInv
<1>4. \A i \in 1 .. n - 1 : Less(walk.seen[i], walk.seen[i + 1])
    BY <1>1 DEF OrderInv
<1>5. \A oid \in ahead : oid \in seen \/ Less(At, oid)
    BY <1>1 DEF OrderInv
<1>6. \A s \in seen : s = At \/ Less(s, At)
    BY <1>1 DEF OrderInv
<1>7. \A oid \in ahead \ seen : \A s \in seen : Less(s, oid)
    <2> SUFFICES ASSUME NEW oid \in ahead \ seen, NEW s \in seen PROVE Less(s, oid)
        OBVIOUS
    <2>1. oid \in U /\ s \in U
        BY <1>2, <1>3
    <2>2. Less(At, oid)
        BY <1>5
    <2>3. s = At \/ Less(s, At)
        BY <1>6
    <2>4. QED
        BY <1>2, <2>1, <2>2, <2>3, LessTrans
<1>8. walk.done => seen = ahead
    <2>1. ASSUME walk.done, NEW oid \in ahead PROVE oid \in seen
        <3>1. oid \in Registered
            OBVIOUS
        <3>2. ~Less(At, oid)
            BY <1>1, <2>1, <3>1 DEF OrderInv
        <3>3. QED
            BY <1>5, <3>2
    <2>2. QED
        BY <1>3, <2>1
<1>9. QED
    BY <1>3, <1>4, <1>7, <1>8 DEF WalkInOrder

LEMMA WalkAlways == Spec => []WalkInv
BY WalkInit, WalkNext, PTL DEF Spec

\* Whatever is registered, in any order, and whatever the network does, a
\* walk with GetNext sees the objects after its start in lexicographic order,
\* each once, and is told that it is at the end after the last one only.
THEOREM WalksInOrder == Spec => []WalkInOrder
<1>1. Spec => []WalkInv
    BY WalkAlways
<1>2. QED
    BY <1>1, WalkInvOrder, PTL

-----------------------------------------------------------------------------
(* Replies that fit. *)

\* Sums of a few.
LEMMA TotalOne == ASSUME NEW a \in Nat PROVE <<a>> \in Seq(Nat) /\ Total(<<a>>) = a
<1> DEFINE e == <<>>
<1>1. e \in Seq(Nat) /\ (\A i \in 1 .. Len(e) : e[i] = 0) /\ <<a>> = Append(e, a)
    OBVIOUS
<1>2. <<a>> \in Seq(Nat)
    OBVIOUS
<1> HIDE DEF e
<1>3. Total(e) = 0 /\ Total(Append(e, a)) = Total(e) + a
    BY <1>1, TotalZero, TotalAppend
<1>4. Total(Append(e, a)) = a
    BY <1>3
<1>5. QED
    BY <1>1, <1>2, <1>4

LEMMA TotalTwo ==
    ASSUME NEW a \in Nat, NEW b \in Nat PROVE <<a, b>> \in Seq(Nat) /\ Total(<<a, b>>) = a + b
<1> DEFINE e == <<a>>
<1>1. e \in Seq(Nat) /\ Total(e) = a
    BY TotalOne
<1>2. <<a, b>> = Append(e, b) /\ <<a, b>> \in Seq(Nat)
    OBVIOUS
<1> HIDE DEF e
<1>3. Total(Append(e, b)) = Total(e) + b
    BY <1>1, TotalAppend
<1>4. QED
    BY <1>1, <1>2, <1>3

LEMMA TotalThree ==
    ASSUME NEW a \in Nat, NEW b \in Nat, NEW c \in Nat
    PROVE  <<a, b, c>> \in Seq(Nat) /\ Total(<<a, b, c>>) = a + b + c
<1> DEFINE e == <<a, b>>
<1>1. e \in Seq(Nat) /\ Total(e) = a + b
    BY TotalTwo
<1>2. <<a, b, c>> = Append(e, c) /\ <<a, b, c>> \in Seq(Nat)
    OBVIOUS
<1> HIDE DEF e
<1>3. Total(Append(e, c)) = Total(e) + c
    BY <1>1, TotalAppend
<1>4. QED
    BY <1>1, <1>2, <1>3

LEMMA TotalPdu ==
    ASSUME NEW a \in Nat, NEW l \in Nat
    PROVE  <<a, a, a, l>> \in Seq(Nat) /\ Total(<<a, a, a, l>>) = 3 * a + l
<1> DEFINE e == <<a, a, a>>
<1>1. e \in Seq(Nat) /\ Total(e) = a + a + a
    BY TotalThree
<1>2. <<a, a, a, l>> = Append(e, l) /\ <<a, a, a, l>> \in Seq(Nat)
    OBVIOUS
<1> HIDE DEF e
<1>3. Total(Append(e, l)) = Total(e) + l
    BY <1>1, TotalAppend
<1>4. Total(Append(e, l)) = 3 * a + l
    BY <1>1, <1>3
<1>5. QED
    BY <1>2, <1>4

\* A varbind of an OID of L bytes and a value of V.
LEMMA VarbindFits ==
    ASSUME NEW L \in Nat, NEW V \in Nat, 4 + L + V < Uint8 PROVE Sequence(<<2 + L, V>>).o = 4 + L + V
<1> DEFINE sizes == <<2 + L, V>>
<1>1. sizes \in Seq(Nat)
    OBVIOUS
<1>2. Total(sizes) = (2 + L) + V
    BY TotalTwo, 2 + L \in Nat
<1>3. 2 + Total(sizes) = 4 + L + V
    BY <1>2
<1> HIDE DEF sizes
<1>4. Sequence(sizes) = [o |-> 2 + Total(sizes), n |-> Len(sizes), full |-> FALSE, whole |-> TRUE]
    BY <1>1, <1>3, SequenceFits
<1>5. Sequence(sizes).o = 4 + L + V
    BY <1>3, <1>4
<1>6. QED
    BY <1>5 DEF sizes

\* The varbinds of a reply, one for every OID.
LEMMA WholeSequence ==
    ASSUME NEW o, NEW n, o.oids \in [1 .. n -> U], n \in Nat
    PROVE  /\ Len(o.oids) = n /\ Len(Varbinds(o)) = n
           /\ \A i \in 1 .. n : Varbinds(o)[i] = Varbind(o.oids[i])
           /\ Prefix(Varbinds(o), n) = Varbinds(o)
<1>1. Len(o.oids) = n
    OBVIOUS
<1> DEFINE v == Varbinds(o)
           S == {Varbind(o.oids[i]) : i \in 1 .. n}
<1>2. v = [i \in 1 .. n |-> Varbind(o.oids[i])]
    BY <1>1 DEF Varbinds
<1>3. v \in [1 .. n -> S]
    BY <1>2
<1>4. \A i \in 1 .. n : v[i] = Varbind(o.oids[i])
    BY <1>2
<1> HIDE DEF v, S
<1>5. v \in Seq(S) /\ Len(v) = n
    BY <1>3
<1>6. SubSeq(v, 1, n) = v
    <2>1. SubSeq(v, 1, n) \in Seq(S) /\ Len(SubSeq(v, 1, n)) = n /\ \A i \in 1 .. n : SubSeq(v, 1, n)[i] = v[i]
        BY <1>5
    <2>2. QED
        BY <1>5, <2>1, SeqEqual
<1>7. QED
    BY <1>1, <1>4, <1>5, <1>6 DEF v, Prefix

\* A message of less than a full buffer is sent whole.
LEMMA MessageFits ==
    ASSUME NEW q, q.community \in Nat, NEW o, NEW n \in Nat, o.oids \in [1 .. n -> U],
           \A i \in 1 .. n : Varbind(o.oids[i]).size \in Nat,
           32 + Community(q) + Total(Sizes(o)) < Uint8
    PROVE  gen_reply(q, o) = {[id |-> q.id, err |-> o.err, list |-> Varbinds(o)]}
<1>1. /\ Len(o.oids) = n /\ Len(Varbinds(o)) = n
      /\ \A i \in 1 .. n : Varbinds(o)[i] = Varbind(o.oids[i])
      /\ Prefix(Varbinds(o), n) = Varbinds(o)
    BY WholeSequence
<1> DEFINE s == Sizes(o)
           T == Total(s)
           C == Community(q)
<1>2. s \in Seq(Nat) /\ Len(s) = n
    <2>1. \A i \in 1 .. n : Varbinds(o)[i].size \in Nat
        BY <1>1
    <2>2. s = [i \in 1 .. n |-> Varbinds(o)[i].size]
        BY <1>1 DEF Sizes
    <2>3. s \in [1 .. n -> Nat]
        BY <2>1, <2>2
    <2> HIDE DEF s
    <2>4. QED
        BY <2>3
<1>3. T \in Nat
    BY <1>2, TotalNat
<1>4. C \in Nat
    BY DEF Community
<1>5. Uint8 \in Nat /\ 32 + C + T < Uint8
    BY Uint8Assumption
<1> HIDE DEF s, T, C
<1>6. List(o) = [o |-> 2 + T, n |-> n, full |-> FALSE, whole |-> TRUE]
    <2>1. 2 + T < Uint8
        BY <1>3, <1>4, <1>5
    <2>2. QED
        BY <1>2, <2>1, SequenceFits DEF List, T, s
<1>7. List(o).o = 2 + T /\ List(o).n = n /\ List(o).whole
    BY <1>6
<1>8. Pdu(o) = [o |-> 22 + T, n |-> 4, full |-> FALSE, whole |-> TRUE]
    <2> DEFINE six == 6
               l == List(o).o
               p == <<six, six, six, l>>
    <2>1. Pdu(o) = Sequence(p) /\ Len(p) = 4
        BY DEF Pdu
    <2>2. six \in Nat /\ six = 6 /\ l \in Nat /\ l = 2 + T
        BY <1>3, <1>7
    <2> HIDE DEF l, six
    <2>3. p \in Seq(Nat) /\ Total(p) = 3 * six + l
        BY <2>2, TotalPdu
    <2> HIDE DEF p
    <2>4. 2 + Total(p) = 22 + T /\ 2 + Total(p) < Uint8
        BY <1>3, <1>4, <1>5, <2>2, <2>3
    <2>5. QED
        BY <2>1, <2>3, <2>4, SequenceFits
<1>9. Pdu(o).o = 22 + T /\ Pdu(o).n = 4 /\ Pdu(o).whole
    BY <1>8
<1>10. Message(q, o) = [o |-> 32 + C + T, n |-> 3, full |-> FALSE, whole |-> TRUE]
    <2> DEFINE six == 6
               l == Pdu(o).o
               c == 2 + Community(q)
               p == <<six, c, l>>
    <2>1. Message(q, o) = Sequence(p) /\ Len(p) = 3
        BY DEF Message
    <2>2. six \in Nat /\ six = 6 /\ l \in Nat /\ l = 22 + T
        BY <1>3, <1>9
    <2>3. c \in Nat /\ c = 2 + C
        BY <1>4 DEF C
    <2> HIDE DEF l, c, six
    <2>4. p \in Seq(Nat) /\ Total(p) = six + c + l
        BY <2>2, <2>3, TotalThree
    <2> HIDE DEF p
    <2>5. 2 + Total(p) = 32 + C + T /\ 2 + Total(p) < Uint8
        BY <1>3, <1>4, <1>5, <2>2, <2>3, <2>4
    <2>6. QED
        BY <2>1, <2>4, <2>5, SequenceFits
<1>11. Message(q, o).o # 0 /\ Message(q, o).n = 3 /\ Message(q, o).whole
    <2>1. 32 + C + T # 0
        BY <1>3, <1>4
    <2>2. QED
        BY <1>10, <2>1
<1>12. Listed(q, o) = Varbinds(o)
    BY <1>1, <1>7, <1>9, <1>11 DEF Listed, There
<1>13. QED
    BY <1>11, <1>12, ReplyIs

\* A message with any one object is smaller than the buffer.
EveryObjectFits ==
    \A m \in Mibs : \A i \in 1 .. Len(m) : 42 + Len(EncodeOid(m[i])) + ValueSize[m[i]] < Uint8

\* GetNexts are those of the walk.
OthersGet == \A q \in OtherAsks : q.kind # "getnext"

\* A GetNext of the walk gets an object or an error.
LEMMA StepSent ==
    ASSUME EveryObjectFits, mib \in Mibs, tree = init_snmp(mib),
           NEW a \in Oids, NEW j \in 1 .. Len(mib), Begins(a, mib[j]),
           NEW q, q.kind = "getnext", q.list = <<EncodeOid(a)>>, q.community = 6
    PROVE  LET sent == gen_reply(q, process_BER(q)) IN
           sent # {} /\ \A r \in sent : r.list # <<>> \/ r.err # 0
<1> DEFINE x == find_next_oid(tree, a)
           o == process_BER(q)
<1>1. Registered = Range1(mib, Len(mib)) /\ a \in U
    BY OidFacts DEF Registered, Range1
<1>2. NextAfter(Registered, a, x)
    BY <1>1, NextObject
<1>3. o = IF x = <<>> THEN [oids |-> <<>>, err |-> 2] ELSE [oids |-> <<x>>, err |-> 0]
    BY StepProcessed
<1> HIDE DEF x, o
<1>4. Uint8 \in Nat /\ Community(q) = 6 /\ q.community \in Nat
    BY Uint8Assumption DEF Community
<1>5. CASE x = <<>>
    <2>1. o.oids = <<>> /\ o.err = 2 /\ Len(o.oids) = 0
        BY <1>3, <1>5
    <2>2. o.oids \in [1 .. 0 -> U] /\ \A i \in 1 .. 0 : Varbind(o.oids[i]).size \in Nat
        BY <2>1
    <2>3. Total(Sizes(o)) = 0
        <3>1. Len(Varbinds(o)) = 0
            BY <2>1 DEF Varbinds
        <3>2. Sizes(o) = <<>>
            BY <3>1 DEF Sizes
        <3> DEFINE e == Sizes(o)
        <3>3. e \in Seq(Nat) /\ \A i \in 1 .. Len(e) : e[i] = 0
            BY <3>2
        <3> HIDE DEF e
        <3>4. Total(e) = 0
            BY <3>3, TotalZero
        <3>5. QED
            BY <3>4 DEF e
    <2>4. 38 < Uint8
        <3>1. mib[j] \in Registered
            BY DEF Registered
        <3>2. Len(EncodeOid(mib[j])) \in Nat /\ ValueSize[mib[j]] \in Nat
            BY <3>1, ObjectVarbind
        <3>3. 42 + Len(EncodeOid(mib[j])) + ValueSize[mib[j]] < Uint8
            BY DEF EveryObjectFits
        <3>4. QED
            BY <1>4, <3>2, <3>3
    <2>5. 32 + Community(q) + Total(Sizes(o)) < Uint8
        BY <1>4, <2>3, <2>4
    <2>6. gen_reply(q, o) = {[id |-> q.id, err |-> o.err, list |-> Varbinds(o)]}
        BY <1>4, <2>2, <2>5, 0 \in Nat, MessageFits
    <2>7. \A r \in gen_reply(q, o) : r.err = 2
        BY <2>1, <2>6
    <2>8. QED
        BY <2>6, <2>7 DEF o
<1>6. CASE x # <<>>
    <2> DEFINE L == Len(EncodeOid(x))
               V == ValueSize[x]
    <2>1. o.oids = <<x>> /\ o.err = 0 /\ Len(o.oids) = 1 /\ o.oids[1] = x
        BY <1>3, <1>6
    <2>2. x \in Registered /\ x \in U
        <3>1. x \in Registered
            BY <1>2, <1>6 DEF NextAfter
        <3>2. x \in Oids
            BY <3>1, ObjectVarbind
        <3>3. QED
            BY <3>1, <3>2, OidFacts
    <2>3. /\ L \in Nat /\ V \in Nat /\ Varbind(x).size \in Nat
          /\ Varbind(x) = [oid |-> EncodeOid(x), value |-> x, size |-> Sequence(<<2 + L, V>>).o]
        BY <2>2, ObjectVarbind
    <2>4. 42 + L + V < Uint8
        BY <2>2 DEF EveryObjectFits, Registered
    <2>5. Varbind(x).size = 4 + L + V
        <3> HIDE DEF L, V
        <3>1. 4 + L + V < Uint8
            BY <1>4, <2>3, <2>4
        <3>2. Sequence(<<2 + L, V>>).o = 4 + L + V
            BY <2>3, <3>1, VarbindFits
        <3>3. Varbind(x).size = Sequence(<<2 + L, V>>).o
            BY <2>3
        <3>4. QED
            BY <3>2, <3>3
    <2>6. o.oids \in [1 .. 1 -> U] /\ \A i \in 1 .. 1 : Varbind(o.oids[i]).size \in Nat
        BY <2>1, <2>2, <2>3
    <2>7. Total(Sizes(o)) = 4 + L + V
        <3> HIDE DEF L, V
        <3>1. Len(Varbinds(o)) = 1 /\ Varbinds(o)[1] = Varbind(x)
            BY <2>1 DEF Varbinds
        <3>2. Sizes(o) = <<Varbind(x).size>>
            BY <3>1 DEF Sizes
        <3>3. QED
            BY <2>3, <2>5, <3>2, TotalOne
    <2>8. 32 + Community(q) + Total(Sizes(o)) < Uint8
        <3> HIDE DEF L, V
        <3>1. QED
            BY <1>4, <2>3, <2>4, <2>7
    <2>9. gen_reply(q, o) = {[id |-> q.id, err |-> o.err, list |-> Varbinds(o)]}
        BY <1>4, <2>6, <2>8, 1 \in Nat, MessageFits
    <2>10. Varbinds(o) # <<>>
        BY <2>1 DEF Varbinds
    <2>11. \A r \in gen_reply(q, o) : r.list # <<>>
        BY <2>9, <2>10
    <2>12. QED
        BY <2>9, <2>11 DEF o
<1>7. QED
    BY <1>5, <1>6

\* If any one object fits in a message and no other sends GetNexts, the agent
\* has an answer to every step of a walk: an object, or the error at the end.
THEOREM StepsAreAnswered ==
    ASSUME EveryObjectFits, OthersGet PROVE Spec => []StepsAnswered
<1>1. WalkInv => StepsAnswered
    <2> SUFFICES ASSUME WalkInv, NEW q \in requests, q.kind = "getnext"
                 PROVE  LET sent == gen_reply(q, process_BER(q)) IN
                        sent # {} /\ \A r \in sent : r.list # <<>> \/ r.err # 0
        BY DEF StepsAnswered
    <2>1. AgentInv /\ RequestInv
        BY DEF WalkInv
    <2>2. PICK k \in 0 .. Len(walk.seen) : q = AskAt(k)
        BY <2>1 DEF RequestInv, OthersGet
    <2>3. q.list = <<EncodeOid(PlaceAt(k))>> /\ q.community = 6
        BY <2>2 DEF AskAt
    <2>4. PlaceAt(k) \in Oids /\ \E i \in 1 .. Len(mib) : Begins(PlaceAt(k), mib[i])
        BY <2>1, WalkFacts
    <2>5. mib \in Mibs /\ tree = init_snmp(mib)
        BY <2>1 DEF AgentInv
    <2>6. QED
        BY <2>3, <2>4, <2>5, StepSent
<1>2. QED
    BY <1>1, WalkAlways, PTL

-----------------------------------------------------------------------------
(* Gets. *)

\* A sum is not less than an element.
LEMMA TotalAtLeast ==
    ASSUME NEW w \in Seq(Nat), NEW i \in 1 .. Len(w) PROVE w[i] <= Total(w)
<1>1. PICK r : RunningTotal(r, w) /\ Total(w) = r[Len(w)]
    BY TotalRuns
<1>2. i \in 0 .. Len(w) /\ i - 1 \in 0 .. Len(w) /\ Len(w) \in 0 .. Len(w)
    OBVIOUS
<1>3. r[i] <= r[Len(w)]
    BY <1>1, <1>2, RunningGrows
<1>4. r[i] = r[i - 1] + w[i] /\ r[i] \in Nat /\ r[i - 1] \in Nat /\ r[Len(w)] \in Nat /\ w[i] \in Nat
    <2>1. r \in [0 .. Len(w) -> Nat] /\ \A k \in 1 .. Len(w) : r[k] = r[k - 1] + w[k]
        BY <1>1 DEF RunningTotal
    <2>2. w[i] \in Nat
        OBVIOUS
    <2>3. QED
        BY <1>2, <2>1, <2>2
<1> DEFINE A == r[i - 1]
           B == r[i]
           C == r[Len(w)]
           E == w[i]
<1>5. A \in Nat /\ B \in Nat /\ C \in Nat /\ E \in Nat /\ B = A + E /\ B <= C
    BY <1>3, <1>4
<1> HIDE DEF A, B, C, E
<1>6. E <= C
    BY <1>5
<1>7. QED
    BY <1>1, <1>6 DEF C, E

\* All OIDs that are well formed, in order, and no error.
LEMMA GetProcessed ==
    ASSUME NEW q, q.kind # "getnext", q.list \in Seq(Seq(Nat)),
           \A i \in 1 .. Len(q.list) : get_OID(q.list[i]).oid \in Seq(Numbers)
    PROVE  Asked(q) \in Seq(Seq(Numbers)) /\ process_BER(q) = [oids |-> Asked(q), err |-> 0]
<1> DEFINE n == Len(q.list)
           S == Seq(Seq(Numbers))
           oid(i) == get_OID(q.list[i]).oid
           ok(i) == get_OID(q.list[i]).ok
           step(x, i) == IF ok(i) THEN Append(x, oid(i)) ELSE x
           F == [i \in 1 .. n |-> [x \in S |-> step(x, i)]]
           Is(f) == f = [i \in 0 .. n |-> IF i = 0 THEN <<>> ELSE step(f[i - 1], i)]
           s == CHOOSE f : Is(f)
           base == [oids |-> <<>>, err |-> 0]
           vb(x, i) == ProcessVarbind(x, q.kind, q.list[i])
           Pr(f) == f = [i \in 0 .. n |-> IF i = 0 THEN base ELSE vb(f[i - 1], i)]
           p == CHOOSE f : Pr(f)
<1>1. n \in Nat /\ <<>> \in S /\ \A i \in 1 .. n : oid(i) \in Seq(Numbers)
    <2>1. n \in Nat
        BY LenProperties
    <2>2. \A i \in 1 .. n : oid(i) \in Seq(Numbers)
        OBVIOUS
    <2>3. <<>> \in S
        OBVIOUS
    <2> HIDE DEF n, oid, S
    <2>4. QED
        BY <2>1, <2>2, <2>3
<1>2. Asked(q) = s[n]
    BY DEF Asked
<1>3. process_BER(q) = p[n]
    BY DEF process_BER
<1>4. ASSUME NEW i \in 1 .. n, NEW x
      PROVE  vb([oids |-> x, err |-> 0], i) = [oids |-> step(x, i), err |-> 0]
    <2> DEFINE y == [oids |-> x, err |-> 0]
    <2>1. vb(y, i) = IF ok(i) THEN [y EXCEPT !.oids = Append(@, oid(i))] ELSE y
        <3> HIDE DEF y
        <3>1. QED
            BY DEF ProcessVarbind
    <2>2. [y EXCEPT !.oids = Append(@, oid(i))] = [oids |-> Append(x, oid(i)), err |-> 0]
        <3> DEFINE z == Append(y.oids, oid(i))
        <3>1. [y EXCEPT !.oids = Append(@, oid(i))] = [y EXCEPT !.oids = z]
            OBVIOUS
        <3>2. z = Append(x, oid(i))
            OBVIOUS
        <3> HIDE DEF oid, z
        <3>3. [y EXCEPT !.oids = z] = [oids |-> z, err |-> 0]
            OBVIOUS
        <3>4. QED
            BY <3>1, <3>2, <3>3
    <2> HIDE DEF oid, ok, vb
    <2>3. QED
        BY <2>1, <2>2
<1>5. ASSUME NEW i \in 1 .. n, NEW x \in S PROVE step(x, i) \in S
    <2> HIDE DEF oid, ok, n
    <2>1. Append(x, oid(i)) \in S
        BY <1>1
    <2>2. QED
        BY <2>1
<1>6. F \in [1 .. n -> [S -> S]]
    <2> HIDE DEF step, n, S
    <2>1. QED
        BY <1>5
<1> HIDE DEF oid, ok
<1>7. PICK f : Loop(f, S, <<>>, n, F)
    <2> HIDE DEF n, F, S
    <2>1. QED
        BY <1>1, <1>6, LoopValues
<1> HIDE DEF S
<1>8. ASSUME NEW i \in 1 .. n PROVE f[i] = step(f[i - 1], i)
    <2> HIDE DEF n, step
    <2>1. f[i - 1] \in S
        <3>1. i - 1 \in 0 .. n /\ f \in [0 .. n -> S]
            BY <1>1, <1>7 DEF Loop
        <3>2. QED
            BY <3>1
    <2>2. QED
        BY <1>7, <2>1 DEF Loop
<1> HIDE DEF F, step, vb, base, n
<1>9. f \in [0 .. n -> S] /\ f[0] = <<>> /\ n \in 0 .. n
    BY <1>1, <1>7 DEF Loop
<1>10. Is(f)
    <2>1. \A i \in 0 .. n : f[i] = IF i = 0 THEN <<>> ELSE step(f[i - 1], i)
        BY <1>1, <1>8, <1>9
    <2>2. QED
        BY <1>9, <2>1
<1>11. Is(s)
    BY <1>10
<1> DEFINE g == [i \in 0 .. n |-> [oids |-> f[i], err |-> 0]]
<1>12. Pr(g)
    <2>1. ASSUME NEW i \in 1 .. n PROVE g[i] = vb(g[i - 1], i)
        <3>1. i \in 0 .. n /\ i - 1 \in 0 .. n
            BY <1>1
        <3>2. g[i] = [oids |-> f[i], err |-> 0] /\ g[i - 1] = [oids |-> f[i - 1], err |-> 0]
            BY <3>1
        <3> HIDE DEF g
        <3>3. QED
            BY <1>4, <1>8, <3>2
    <2>2. g[0] = base
        BY <1>1, <1>9 DEF base
    <2>3. \A i \in 0 .. n : g[i] = IF i = 0 THEN base ELSE vb(g[i - 1], i)
        <3> HIDE DEF g
        <3>1. QED
            BY <1>1, <2>1, <2>2
    <2>4. g = [i \in 0 .. n |-> g[i]]
        OBVIOUS
    <2> HIDE DEF g
    <2>5. QED
        BY <2>3, <2>4
<1>13. g[n] = [oids |-> f[n], err |-> 0]
    BY <1>9
<1> HIDE DEF g
<1>14. Pr(p)
    BY <1>12
<1> HIDE DEF s, p
<1> DEFINE T == {i \in 0 .. n : s[i] = f[i] /\ p[i] = g[i]}
<1>15. 0 \in T
    BY <1>1, <1>10, <1>11, <1>12, <1>14
<1>16. ASSUME NEW i \in 1 .. n, i - 1 \in T PROVE i \in T
    <2>1. s[i] = step(s[i - 1], i) /\ f[i] = step(f[i - 1], i) /\ i \in 0 .. n
        BY <1>1, <1>10, <1>11
    <2>2. p[i] = vb(p[i - 1], i) /\ g[i] = vb(g[i - 1], i)
        BY <1>1, <1>12, <1>14
    <2>3. QED
        BY <1>16, <2>1, <2>2
<1> HIDE DEF T
<1>17. 0 .. n \subseteq T
    BY <1>1, <1>15, <1>16, InductTo
<1>18. s[n] = f[n] /\ p[n] = g[n]
    BY <1>9, <1>17 DEF T
<1>19. QED
    BY <1>2, <1>3, <1>9, <1>13, <1>18 DEF S

Found(oid) == find_by_oid(tree, ObjectOf(oid)) = "data"

\* The agent finds what is to answer for an OID, or nothing does.
LEMMA FindsExpected ==
    ASSUME mib \in Mibs, tree = init_snmp(mib), NEW oid \in U
    PROVE  Expected(oid) = IF Found(oid) THEN {ObjectOf(oid)} ELSE {}
<1> DEFINE R == Registered
<1>1. R = Range1(mib, Len(mib))
    BY DEF Registered, Range1
<1>2. Sound(R) /\ Grown(tree, R)
    BY <1>1, AgentTree
<1> HIDE DEF R
<1>3. /\ R \subseteq U /\ (\A o \in R : Len(o) > 1) /\ \A o, p \in R : o # p => ~Begins(o, p)
    BY <1>2 DEF Sound
<1>4. tree.data = R /\ Nodes(tree) = NodesOf(R)
    BY <1>2 DEF Grown
<1>5. Len(oid) \in Nat
    BY DEF U
<1>6. ASSUME NEW o \in U, oid = Append(o, 0)
      PROVE  Begins(o, oid) /\ Len(oid) = Len(o) + 1 /\ o = Front(oid) /\ Last(oid) = 0 /\ o # oid
    <2>1. Len(o) \in Nat /\ Len(oid) = Len(o) + 1 /\ oid[Len(o) + 1] = 0 /\ \A i \in 1 .. Len(o) : oid[i] = o[i]
        BY <1>6 DEF U
    <2>2. Begins(o, oid) /\ o # oid
        BY <2>1 DEF Begins
    <2>3. Prefix(oid, Len(o)) = o
        BY <2>2, BeginsPrefix
    <2>4. QED
        BY <2>1, <2>2, <2>3 DEF Front, Last, Prefix
<1>7. R \subseteq NodesOf(R)
    BY <1>3 DEF NodesOf, Begins, U
<1>8. Expected(oid) = {o \in R : o = oid} \cup {o \in R : Append(o, 0) = oid}
    BY DEF Expected, R
<1>9. CASE oid \in NodesOf(R) /\ oid # <<>>
    <2>1. find_by_oid(tree, oid) = IF oid \in R THEN "data" ELSE "null"
        BY <1>4, <1>9 DEF find_by_oid
    <2>2. ObjectOf(oid) = oid
        BY <2>1 DEF ObjectOf
    <2>3. ASSUME NEW o \in R, Append(o, 0) = oid PROVE FALSE
        <3>1. o \in U
            BY <1>3
        <3>2. Begins(o, oid) /\ Len(oid) = Len(o) + 1
            BY <1>6, <2>3, <3>1
        <3>3. PICK p \in R : Begins(oid, p)
            BY <1>9 DEF NodesOf
        <3>4. p \in U
            BY <1>3
        <3>5. Begins(o, p)
            BY <3>1, <3>2, <3>3, <3>4, BeginsTrans
        <3>6. o # p
            <4>1. Len(o) \in Nat /\ Len(p) \in Nat
                BY <3>1, <3>4 DEF U
            <4>2. QED
                BY <1>5, <3>2, <3>3, <4>1 DEF Begins
        <3>7. QED
            BY <1>3, <3>5, <3>6
    <2>4. Expected(oid) = {o \in R : o = oid}
        BY <1>8, <2>3
    <2>5. QED
        BY <2>1, <2>2, <2>4 DEF Found
<1>10. CASE ~(oid \in NodesOf(R) /\ oid # <<>>)
    <2>1. oid \notin R
        BY <1>3, <1>7, <1>10
    <2>2. find_by_oid(tree, oid) = "none"
        BY <1>4, <1>10 DEF find_by_oid
    <2>3. CASE Len(oid) > 1 /\ Last(oid) = 0
        <3> DEFINE f == Front(oid)
        <3>1. ObjectOf(oid) = f
            BY <2>2, <2>3 DEF ObjectOf
        <3>2. f \in U /\ Len(f) = Len(oid) - 1 /\ f # <<>> /\ Append(f, 0) = oid
            <4>1. Len(oid) - 1 \in 0 .. Len(oid) /\ f = Prefix(oid, Len(oid) - 1)
                BY <1>5, <2>3 DEF Front, Prefix
            <4>2. f \in U /\ Len(f) = Len(oid) - 1 /\ \A i \in 1 .. Len(oid) - 1 : f[i] = oid[i]
                BY <4>1, PrefixFacts
            <4> HIDE DEF f
            <4>3. f # <<>>
                BY <1>5, <2>3, <4>2
            <4> DEFINE g == Append(f, 0)
            <4>4. g \in U /\ Len(g) = Len(oid) /\ g[Len(oid)] = 0 /\ \A i \in 1 .. Len(oid) - 1 : g[i] = f[i]
                BY <1>5, <4>2 DEF U
            <4>5. oid[Len(oid)] = 0
                BY <2>3 DEF Last
            <4> HIDE DEF g
            <4>6. \A i \in 1 .. Len(oid) : g[i] = oid[i]
                BY <1>5, <4>2, <4>4, <4>5
            <4>7. g = oid
                BY <4>4, <4>6, SeqEqual DEF U
            <4>8. QED
                BY <4>2, <4>3, <4>7 DEF g
        <3>3. Found(oid) <=> f \in R
            <4> HIDE DEF f
            <4>1. find_by_oid(tree, f) = "data" <=> f \in R
                BY <1>4, <1>7, <3>2 DEF find_by_oid
            <4>2. QED
                BY <3>1, <4>1 DEF Found
        <3>4. \A o \in R : Append(o, 0) = oid <=> o = f
            BY <1>3, <1>6, <3>2
        <3> HIDE DEF f
        <3>5. Expected(oid) = {o \in R : o = f}
            BY <1>8, <2>1, <3>4
        <3>6. QED
            BY <3>1, <3>3, <3>5
    <2>4. CASE ~(Len(oid) > 1 /\ Last(oid) = 0)
        <3>1. ObjectOf(oid) = oid /\ ~Found(oid)
            BY <2>2, <2>4 DEF ObjectOf, Found
        <3>2. ASSUME NEW o \in R, Append(o, 0) = oid PROVE FALSE
            <4>1. o \in U /\ Len(o) \in Nat /\ Len(o) > 1
                BY <1>3 DEF U
            <4>2. Len(oid) = Len(o) + 1 /\ Last(oid) = 0
                BY <1>6, <3>2, <4>1
            <4>3. QED
                BY <2>4, <4>1, <4>2
        <3>3. Expected(oid) = {}
            BY <1>8, <2>1, <3>2
        <3>4. QED
            BY <3>1, <3>3
    <2>5. QED
        BY <2>3, <2>4
<1>11. QED
    BY <1>9, <1>10

\* What the requests of others are.
LEMMA OtherFacts ==
    ASSUME NEW q \in OtherAsks, q.kind # "junk"
    PROVE  /\ q.id \in Int /\ q.id < 0 /\ q.community \in Nat /\ q.list \in Seq(Seq(Nat))
           /\ \A i \in 1 .. Len(q.list) : get_OID(q.list[i]).oid \in Seq(Numbers)
<1>1. q \in [kind : {"get", "getnext", "set"}, id : Int, community : Nat, list : Seq(Seq(Bytes))]
    BY OtherAsksAssumption DEF Asks
<1>2. q.id \in Int /\ q.community \in Nat /\ q.list \in Seq(Seq(Bytes))
    BY <1>1
<1>3. Bytes \subseteq Nat
    BY Uint8Assumption DEF Bytes
<1>4. ASSUME NEW b \in Seq(Bytes) PROVE b \in Seq(Nat)
    <2>1. Len(b) \in Nat /\ b \in [1 .. Len(b) -> Bytes]
        OBVIOUS
    <2>2. b \in [1 .. Len(b) -> Nat]
        BY <1>3, <2>1
    <2>3. QED
        BY <2>1, <2>2
<1>5. q.list \in Seq(Seq(Nat))
    <2> DEFINE l == q.list
               S == Seq(Bytes)
               V == Seq(Nat)
    <2>1. l \in Seq(S) /\ S \subseteq V
        BY <1>2, <1>4
    <2> HIDE DEF l, S, V
    <2>2. Len(l) \in Nat /\ l \in [1 .. Len(l) -> S]
        BY <2>1
    <2>3. l \in [1 .. Len(l) -> V]
        BY <2>1, <2>2
    <2>4. l \in Seq(V)
        BY <2>2, <2>3
    <2>5. QED
        BY <2>4 DEF l, V
<1>6. Numbers = NoNumber .. MaxInt
    BY DEF Numbers, NoNumber
<1>7. q.id < 0 /\ \A i \in 1 .. Len(q.list) : get_OID(q.list[i]).oid \in Seq(Numbers)
    BY <1>6, OtherAsksAssumption
<1>8. QED
    BY <1>2, <1>5, <1>7

LEMMA NumbersAreInts == ASSUME NEW oid \in Seq(Numbers) PROVE oid \in U
<1>1. Numbers \subseteq Int
    BY MaxIntNat DEF Numbers
<1>2. Len(oid) \in Nat /\ oid \in [1 .. Len(oid) -> Numbers]
    OBVIOUS
<1>3. oid \in [1 .. Len(oid) -> Int]
    BY <1>1, <1>2
<1>4. QED
    BY <1>2, <1>3 DEF U

\* Bytes of the value that answers for an OID.
SizeIn(S) == IF S = {} THEN 2 ELSE ValueSize[CHOOSE o \in S : TRUE]
Value(oid) == SizeIn(Expected(oid))

\* The varbind for any OID, and its size.
LEMMA GetVarbind ==
    ASSUME mib \in Mibs, tree = init_snmp(mib), NEW oid \in Seq(Numbers)
    PROVE  LET L == Len(EncodeOid(oid))
               V == Value(oid)
           IN  /\ L \in Nat /\ V \in Nat
               /\ Varbind(oid).oid = EncodeOid(oid)
               /\ IF Expected(oid) = {} THEN Varbind(oid).value = <<>> ELSE Varbind(oid).value \in Expected(oid)
               /\ Varbind(oid).size = Sequence(<<2 + L, V>>).o /\ Varbind(oid).size \in Nat
<1> DEFINE L == Len(EncodeOid(oid))
           V == Value(oid)
           x == ObjectOf(oid)
           F == Found(oid)
           e == Expected(oid)
           z == Sequence(<<2 + L, IF F THEN ValueSize[x] ELSE 2>>).o
<1>1. oid \in U /\ L \in Nat
    BY EncodeType, NumbersAreInts
<1>2. e = IF F THEN {x} ELSE {}
    BY <1>1, FindsExpected
<1>3. Varbind(oid) = [oid |-> EncodeOid(oid), value |-> IF F THEN x ELSE <<>>, size |-> z]
    BY DEF Varbind, Found
<1>4. e \subseteq Registered
    BY DEF Expected
<1>5. F => x \in Registered
    <2> HIDE DEF e, F, x
    <2>1. QED
        BY <1>2, <1>4
<1>6. F => ValueSize[x] \in Nat
    <2> HIDE DEF F, x
    <2>1. QED
        BY <1>5, ObjectVarbind
<1>7. V = (IF F THEN ValueSize[x] ELSE 2)
    <2>1. V = IF e = {} THEN 2 ELSE ValueSize[CHOOSE o \in e : TRUE]
        BY DEF Value, SizeIn
    <2> HIDE DEF e, F, x, V
    <2>2. CASE F
        <3>1. e = {x}
            BY <1>2, <2>2
        <3>2. (CHOOSE o \in e : TRUE) \in e
            BY <3>1
        <3>3. (CHOOSE o \in e : TRUE) = x
            BY <3>1, <3>2
        <3>4. QED
            BY <2>1, <2>2, <3>1, <3>3
    <2>3. CASE ~F
        BY <1>2, <2>1, <2>3
    <2>4. QED
        BY <2>2, <2>3
<1>8. V \in Nat /\ z = Sequence(<<2 + L, V>>).o
    <2> HIDE DEF F, x, V, L
    <2>1. QED
        BY <1>6, <1>7
<1>9. z \in Nat
    <2> DEFINE s == <<2 + L, V>>
    <2> HIDE DEF L, V, z
    <2>1. s \in Seq(Nat)
        BY <1>1, <1>8
    <2> HIDE DEF s
    <2>2. Sequence(s).o \in Nat
        BY <2>1, SequenceType DEF Building
    <2>3. QED
        BY <1>8, <2>2 DEF s
<1> HIDE DEF L, V, x, F, e, z
<1>10. Varbind(oid).oid = EncodeOid(oid) /\ Varbind(oid).size = z /\ Varbind(oid).value = IF F THEN x ELSE <<>>
    BY <1>3
<1>11. IF e = {} THEN Varbind(oid).value = <<>> ELSE Varbind(oid).value \in e
    BY <1>2, <1>10
<1>12. QED
    BY <1>1, <1>8, <1>9, <1>10, <1>11 DEF L, V, e

\* The reply to one Get.
Answers(r, q) ==
    LET asked == Asked(q) IN
    FullSize(q, asked) < Uint8 =>
        /\ Len(r.list) = Len(asked)
        /\ \A i \in 1 .. Len(r.list) :
            /\ r.list[i].oid = EncodeOid(asked[i])
            /\ IF Expected(asked[i]) = {} THEN r.list[i].value = <<>>
               ELSE r.list[i].value \in Expected(asked[i])

\* A reply to a Get that fits answers every OID.
LEMMA GetReply ==
    ASSUME mib \in Mibs, tree = init_snmp(mib), NEW q \in OtherAsks, q.kind = "get",
           NEW r \in gen_reply(q, process_BER(q))
    PROVE  Answers(r, q)
<1> DEFINE a == Asked(q)
           n == Len(a)
           o == process_BER(q)
           w == [i \in 1 .. n |-> 4 + Len(EncodeOid(a[i])) + Value(a[i])]
<1>1. SUFFICES ASSUME FullSize(q, a) < Uint8
               PROVE  /\ Len(r.list) = n
                      /\ \A i \in 1 .. n :
                          /\ r.list[i].oid = EncodeOid(a[i])
                          /\ IF Expected(a[i]) = {} THEN r.list[i].value = <<>>
                             ELSE r.list[i].value \in Expected(a[i])
    BY DEF Answers
<1>2. /\ q.community \in Nat /\ q.list \in Seq(Seq(Nat))
      /\ \A i \in 1 .. Len(q.list) : get_OID(q.list[i]).oid \in Seq(Numbers)
    BY OtherFacts
<1>3. a \in Seq(Seq(Numbers)) /\ o = [oids |-> a, err |-> 0]
    BY <1>2, GetProcessed
<1>4. FullSize(q, a) = 32 + Community(q) + Total(w)
    BY DEF FullSize, Value, SizeIn
<1> HIDE DEF a, o
<1>5. n \in Nat /\ \A i \in 1 .. n : a[i] \in Seq(Numbers)
    <2> DEFINE S == Seq(Numbers)
    <2>1. a \in Seq(S)
        BY <1>3
    <2> HIDE DEF S
    <2>2. n \in Nat /\ \A i \in 1 .. n : a[i] \in S
        BY <2>1
    <2>3. QED
        BY <2>2 DEF S
<1>6. a \in [1 .. n -> U] /\ o.oids = a
    <2>1. \A i \in 1 .. n : a[i] \in U
        BY <1>5, NumbersAreInts
    <2>2. a \in [1 .. n -> Seq(Numbers)]
        <3> DEFINE S == Seq(Numbers)
        <3>1. a \in Seq(S)
            BY <1>3
        <3> HIDE DEF S
        <3>2. a \in [1 .. n -> S]
            BY <3>1
        <3>3. QED
            BY <3>2 DEF S
    <2>3. a \in [1 .. n -> U]
        BY <2>1, <2>2
    <2>4. QED
        BY <1>3, <2>3
<1> HIDE DEF n
<1>7. ASSUME NEW i \in 1 .. n
      PROVE  /\ Len(EncodeOid(a[i])) \in Nat /\ Value(a[i]) \in Nat
             /\ Varbind(a[i]).oid = EncodeOid(a[i])
             /\ IF Expected(a[i]) = {} THEN Varbind(a[i]).value = <<>> ELSE Varbind(a[i]).value \in Expected(a[i])
             /\ Varbind(a[i]).size = Sequence(<<2 + Len(EncodeOid(a[i])), Value(a[i])>>).o
             /\ Varbind(a[i]).size \in Nat
    <2>1. a[i] \in Seq(Numbers)
        BY <1>5
    <2>2. QED
        BY <2>1, GetVarbind
<1>8. w \in Seq(Nat) /\ Len(w) = n /\ \A i \in 1 .. n : w[i] = 4 + Len(EncodeOid(a[i])) + Value(a[i])
    <2>1. ASSUME NEW i \in 1 .. n PROVE 4 + Len(EncodeOid(a[i])) + Value(a[i]) \in Nat
        <3>1. Len(EncodeOid(a[i])) \in Nat /\ Value(a[i]) \in Nat
            BY <1>7
        <3>2. QED
            BY <3>1
    <2>2. w \in [1 .. n -> Nat]
        BY <2>1
    <2>3. \A i \in 1 .. n : w[i] = 4 + Len(EncodeOid(a[i])) + Value(a[i])
        OBVIOUS
    <2> HIDE DEF w
    <2>4. QED
        BY <1>5, <2>2, <2>3
<1> HIDE DEF w
<1> DEFINE C == Community(q)
           T == Total(w)
<1>9. C \in Nat /\ T \in Nat /\ 32 + C + T < Uint8 /\ Uint8 \in Nat
    <2>1. T \in Nat
        BY <1>8, TotalNat
    <2>2. C \in Nat
        BY <1>2 DEF Community
    <2>3. QED
        BY <1>1, <1>4, <2>1, <2>2, Uint8Assumption
<1>10. ASSUME NEW i \in 1 .. n PROVE Varbind(a[i]).size = w[i]
    <2> DEFINE L == Len(EncodeOid(a[i]))
               V == Value(a[i])
    <2>1. L \in Nat /\ V \in Nat /\ Varbind(a[i]).size = Sequence(<<2 + L, V>>).o
        BY <1>7
    <2>2. w[i] <= T /\ w[i] = 4 + L + V
        BY <1>8, TotalAtLeast
    <2> HIDE DEF L, V, C, T
    <2>3. 4 + L + V < Uint8
        <3> DEFINE y == w[i]
        <3>1. y = 4 + L + V /\ y <= T
            BY <2>2
        <3> HIDE DEF y
        <3>2. QED
            BY <1>9, <2>1, <3>1
    <2>4. Sequence(<<2 + L, V>>).o = 4 + L + V
        BY <2>1, <2>3, VarbindFits
    <2>5. QED
        BY <2>1, <2>2, <2>4
<1>11. /\ Len(Varbinds(o)) = n
       /\ \A i \in 1 .. n : Varbinds(o)[i] = Varbind(a[i])
    BY <1>5, <1>6, WholeSequence
<1>12. Sizes(o) = w
    <2>1. Sizes(o) = [i \in 1 .. n |-> Varbinds(o)[i].size]
        BY <1>11 DEF Sizes
    <2>2. \A i \in 1 .. n : Varbinds(o)[i].size = w[i]
        BY <1>10, <1>11
    <2>3. w = [i \in 1 .. n |-> w[i]]
        BY <1>8
    <2>4. QED
        BY <2>1, <2>2, <2>3
<1>13. gen_reply(q, o) = {[id |-> q.id, err |-> o.err, list |-> Varbinds(o)]}
    <2>1. 32 + Community(q) + Total(Sizes(o)) < Uint8
        BY <1>9, <1>12
    <2>2. o.oids \in [1 .. n -> U] /\ \A i \in 1 .. n : Varbind(o.oids[i]).size \in Nat
        BY <1>6, <1>7
    <2>3. QED
        BY <1>2, <1>5, <2>1, <2>2, MessageFits
<1>14. r.list = Varbinds(o)
    <2>1. r \in gen_reply(q, o)
        BY DEF o
    <2>2. QED
        BY <1>13, <2>1
<1>15. QED
    BY <1>7, <1>11, <1>14, ZenonT(30)

\* Every OID of a Get is answered, in order, with the value that is registered
\* for it, whatever else the agent is asked and whatever the network does, if
\* the reply is smaller than the buffer.
THEOREM GetsAreAnswered == Spec => []GetsAnswered
<1>1. Init => GetsAnswered
    BY DEF Init, GetsAnswered
<1>2. WalkInv /\ GetsAnswered /\ [Next]_vars => GetsAnswered'
    <2> SUFFICES ASSUME WalkInv, GetsAnswered, [Next]_vars PROVE GetsAnswered'
        OBVIOUS
    <2>1. mib' = mib
        BY DEF Next, Serve, Answer, AskNext, AskOther, Lose, vars
    <2>2. \A r, q : Answers(r, q)' <=> Answers(r, q)
        <3>1. Registered' = Registered
            BY <2>1 DEF Registered
        <3>2. \A oid : Expected(oid)' = Expected(oid)
            BY <3>1 DEF Expected
        <3>3. ASSUME NEW q, NEW a PROVE FullSize(q, a)' = FullSize(q, a)
            <4> DEFINE w == [i \in 1 .. Len(a) |-> 4 + Len(EncodeOid(a[i])) + Value(a[i])]
            <4>1. \A oid : Value(oid)' = Value(oid)
                BY <3>2 DEF Value
            <4>2. w' = w
                BY <4>1
            <4>3. FullSize(q, a) = 32 + Community(q) + Total(w)
                BY DEF FullSize, Value, SizeIn
            <4>4. FullSize(q, a)' = 32 + Community(q) + Total(w')
                BY DEF FullSize, Value, SizeIn
            <4> HIDE DEF w
            <4>5. QED
                BY <4>2, <4>3, <4>4
        <3>4. QED
            BY <3>2, <3>3, ZenonT(30) DEF Answers
    <2>3. \A r \in replies : \A g \in OtherAsks : g.kind = "get" /\ g.id = r.id => Answers(r, g)
        BY DEF GetsAnswered, Answers
    <2>4. SUFFICES ASSUME NEW r \in replies', NEW g \in OtherAsks, g.kind = "get", g.id = r.id
                   PROVE  Answers(r, g)
        BY <2>2 DEF GetsAnswered, Answers
    <2>5. CASE r \in replies
        BY <2>3, <2>4, <2>5
    <2>6. CASE r \notin replies
        <3>1. PICK q \in requests : q.kind # "junk" /\ r \in gen_reply(q, process_BER(q))
            BY <2>4, <2>6 DEF Next, Serve, Answer, AskNext, AskOther, Lose, vars
        <3>2. r.id = q.id
            BY <3>1, ReplyFacts
        <3>3. AgentInv /\ RequestInv
            BY DEF WalkInv
        <3>4. g.id \in Int /\ g.id < 0
            BY <2>4, OtherFacts
        <3>5. ASSUME NEW k \in 0 .. Len(walk.seen), q = AskAt(k) PROVE FALSE
            <4>1. q.id = k
                BY <3>5 DEF AskAt
            <4>2. k \in Nat
                BY <3>3, WalkFacts
            <4>3. QED
                BY <2>4, <3>2, <3>4, <4>1, <4>2
        <3>6. q \in OtherAsks
            BY <3>3, <3>5 DEF RequestInv
        <3>7. q = g
            BY <2>4, <3>1, <3>2, <3>6, OtherAsksAssumption
        <3>8. mib \in Mibs /\ tree = init_snmp(mib)
            BY <3>3 DEF AgentInv
        <3>9. QED
            BY <2>4, <3>1, <3>7, <3>8, GetReply
    <2>7. QED
        BY <2>5, <2>6
<1>3. QED
    BY <1>1, <1>2, WalkAlways, PTL DEF Spec
=============================================================================
