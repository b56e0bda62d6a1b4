-------------------------- MODULE InductionLemmas ---------------------------
(***************************************************************************)
(* Induction and recursion over natural numbers, for sets and functions:   *)
(* the library states them for operators.  Both follow from its theorem    *)
(* that a well-founded relation has minimal elements.  And what sums are.  *)
(***************************************************************************)
EXTENDS Sums, WellFoundedInduction, SequenceTheorems, TLAPS

\* A set of natural numbers has a least element.
LEMMA LeastElement ==
    ASSUME NEW T \in SUBSET Nat, T # {} PROVE \E x \in T : \A y \in T : x <= y
<1> DEFINE R == OpToRel(<, Nat)
<1>1. IsWellFoundedOn(R, Nat)
    BY NatLessThanWellFounded, Zenon
<1>2. \A x, y \in Nat : x < y => <<x, y>> \in R
    BY Zenon DEF OpToRel
<1> HIDE DEF R
<1>3. \E x \in T : \A y \in T : <<y, x>> \notin R
    BY <1>1, WFMin
<1>4. PICK x \in T : \A y \in T : <<y, x>> \notin R
    BY <1>3
<1>5. ASSUME NEW y \in T PROVE x <= y
    <2>1. x \in Nat /\ y \in Nat /\ ~(y < x)
        BY <1>2, <1>4
    <2>2. QED
        BY <2>1
<1>6. QED
    BY <1>5

\* What holds of 0, and of n + 1 if it does of n, holds of all.
LEMMA Induct ==
    ASSUME NEW T, 0 \in T, \A n \in Nat : n \in T => n + 1 \in T PROVE Nat \subseteq T
<1>1. SUFFICES ASSUME Nat \ T # {} PROVE FALSE
    OBVIOUS
<1>2. PICK x \in Nat \ T : \A y \in Nat \ T : x <= y
    BY <1>1, LeastElement
<1>3. x - 1 \in Nat /\ x - 1 \in T
    BY <1>2
<1>4. QED
    BY <1>2, <1>3

\* f has the value of every step of a loop that starts with base.
Loop(f, S, base, n, F) ==
    f \in [0 .. n -> S] /\ f[0] = base /\ \A i \in 1 .. n : f[i] = F[i][f[i - 1]]

\* There is such an f: with it, a function that is defined by recursion on
\* 0 .. n has the values it says.
LEMMA LoopValues ==
    ASSUME NEW S, NEW base \in S, NEW n \in Nat, NEW F \in [1 .. n -> [S -> S]]
    PROVE  \E f : Loop(f, S, base, n, F)
<1> DEFINE OK(k, f) == f[0] = base /\ \A i \in 1 .. k : f[i] = F[i][f[i - 1]]
           T == {k \in Nat : k <= n => \E f \in [0 .. k -> S] : OK(k, f)}
<1>1. 0 \in T
    <2> DEFINE g == [i \in 0 .. 0 |-> base]
    <2>1. g \in [0 .. 0 -> S] /\ OK(0, g)
        OBVIOUS
    <2>2. QED
        BY <2>1
<1>2. ASSUME NEW k \in Nat, k \in T PROVE k + 1 \in T
    <2>1. SUFFICES ASSUME k + 1 <= n PROVE \E f \in [0 .. k + 1 -> S] : OK(k + 1, f)
        OBVIOUS
    <2>2. PICK f \in [0 .. k -> S] : OK(k, f)
        BY <1>2, <2>1
    <2> DEFINE g == [i \in 0 .. k + 1 |-> IF i = k + 1 THEN F[k + 1][f[k]] ELSE f[i]]
    <2>3. F[k + 1][f[k]] \in S
        BY <2>1
    <2>4. g \in [0 .. k + 1 -> S]
        BY <2>3
    <2>5. g[k + 1] = F[k + 1][f[k]] /\ \A i \in 0 .. k : g[i] = f[i]
        OBVIOUS
    <2> HIDE DEF g
    <2>6. ASSUME NEW i \in 1 .. k + 1 PROVE g[i] = F[i][g[i - 1]]
        <3>1. CASE i = k + 1
            <4>1. i - 1 = k
                BY <3>1
            <4>2. QED
                BY <2>5, <3>1, <4>1
        <3>2. CASE i \in 1 .. k
            BY <2>2, <2>5, <3>2
        <3>3. QED
            BY <3>1, <3>2
    <2>7. OK(k + 1, g)
        BY <2>2, <2>5, <2>6
    <2>8. QED
        BY <2>4, <2>7
<1> HIDE DEF T
<1>3. n \in T
    BY <1>1, <1>2, Induct
<1>4. QED
    BY <1>3 DEF T, Loop
-----------------------------------------------------------------------------
(* Sums. *)

RunningTotal(s, w) ==
    /\ s \in [0 .. Len(w) -> Nat] /\ s[0] = 0
    /\ \A i \in 1 .. Len(w) : s[i] = s[i - 1] + w[i]

LEMMA TotalRuns ==
    ASSUME NEW w \in Seq(Nat) PROVE \E s : RunningTotal(s, w) /\ Total(w) = s[Len(w)]
<1> DEFINE n == Len(w)
           F == [i \in 1 .. n |-> [x \in Nat |-> x + w[i]]]
           Is(f) == f = [i \in 0 .. n |-> IF i = 0 THEN 0 ELSE f[i - 1] + w[i]]
           sum == CHOOSE f : Is(f)
<1>1. n \in Nat /\ \A i \in 1 .. n : w[i] \in Nat
    OBVIOUS
<1> HIDE DEF n
<1>2. F \in [1 .. n -> [Nat -> Nat]]
    <2>1. ASSUME NEW i \in 1 .. n PROVE [x \in Nat |-> x + w[i]] \in [Nat -> Nat]
        BY <1>1
    <2>2. QED
        BY <2>1
<1>3. PICK f : Loop(f, Nat, 0, n, F)
    <2> HIDE DEF F
    <2>1. QED
        BY <1>1, <1>2, LoopValues, 0 \in Nat
<1>4. f \in [0 .. n -> Nat] /\ f[0] = 0
    BY <1>3 DEF Loop
<1>5. ASSUME NEW i \in 1 .. n PROVE f[i] = f[i - 1] + w[i]
    <2>1. f[i - 1] \in Nat /\ f[i] = F[i][f[i - 1]]
        <3>1. i - 1 \in 0 .. n
            BY <1>1
        <3>2. QED
            BY <1>3, <3>1 DEF Loop
    <2>2. QED
        BY <2>1
<1> HIDE DEF F
<1>6. Is(f)
    <2>1. \A i \in 0 .. n : f[i] = IF i = 0 THEN 0 ELSE f[i - 1] + w[i]
        BY <1>1, <1>4, <1>5
    <2>2. QED
        BY <1>4, <2>1
<1>7. Is(sum)
    BY <1>6
<1>8. Total(w) = sum[n]
    BY DEF Total, n
<1> HIDE DEF sum
<1>9. /\ \A i \in 0 .. n : sum[i] = IF i = 0 THEN 0 ELSE sum[i - 1] + w[i]
      /\ DOMAIN sum = 0 .. n /\ sum = [i \in 0 .. n |-> sum[i]]
    BY <1>7
<1>s. sum[0] = 0 /\ \A i \in 1 .. n : sum[i] = sum[i - 1] + w[i]
    <2>1. 0 \in 0 .. n
        BY <1>1
    <2>2. ASSUME NEW i \in 1 .. n PROVE sum[i] = sum[i - 1] + w[i]
        <3>1. i \in 0 .. n /\ i # 0
            BY <1>1
        <3>2. QED
            BY <1>9, <3>1, Zenon
    <2>3. QED
        BY <1>9, <2>1, <2>2, Zenon
<1> DEFINE T == {i \in Nat : i <= n => sum[i] \in Nat}
<1>10. 0 \in T
    BY <1>s
<1>11. ASSUME NEW i \in Nat, i \in T PROVE i + 1 \in T
    <2>1. SUFFICES ASSUME i + 1 <= n PROVE sum[i + 1] \in Nat
        OBVIOUS
    <2>2. sum[i] \in Nat
        BY <1>1, <1>11, <2>1
    <2>3. i + 1 \in 1 .. n /\ (i + 1) - 1 = i
        BY <1>1, <2>1
    <2>4. sum[i + 1] = sum[(i + 1) - 1] + w[i + 1]
        BY <1>s, <2>3, Zenon
    <2>5. w[i + 1] \in Nat
        BY <1>1, <2>3, Zenon
    <2>6. QED
        BY <2>2, <2>3, <2>4, <2>5
<1>12. \A i \in 0 .. n : sum[i] \in Nat
    <2> HIDE DEF T
    <2>1. Nat \subseteq T
        BY <1>10, <1>11, Induct
    <2>2. QED
        BY <1>1, <2>1 DEF T
<1>13. RunningTotal(sum, w)
    <2>1. sum \in [0 .. n -> Nat]
        BY <1>9, <1>12
    <2>2. QED
        BY <1>s, <2>1 DEF RunningTotal, n
<1>14. QED
    BY <1>8, <1>13 DEF n

\* There is only one.
LEMMA RunningTotalEnds ==
    ASSUME NEW w \in Seq(Nat), NEW s, RunningTotal(s, w) PROVE Total(w) = s[Len(w)]
<1>1. PICK r : RunningTotal(r, w) /\ Total(w) = r[Len(w)]
    BY TotalRuns
<1> DEFINE n == Len(w)
           T == {i \in Nat : i <= n => r[i] = s[i]}
<1>2. n \in Nat
    OBVIOUS
<1>3. 0 \in T
    BY <1>1 DEF RunningTotal
<1>4. ASSUME NEW i \in Nat, i \in T PROVE i + 1 \in T
    <2>1. SUFFICES ASSUME i + 1 <= n PROVE r[i + 1] = s[i + 1]
        OBVIOUS
    <2>2. r[i] = s[i]
        BY <1>2, <1>4, <2>1
    <2>3. i + 1 \in 1 .. n /\ (i + 1) - 1 = i
        BY <1>2, <2>1
    <2>4. r[i + 1] = r[i] + w[i + 1] /\ s[i + 1] = s[i] + w[i + 1]
        BY <1>1, <2>3 DEF RunningTotal
    <2>5. QED
        BY <2>2, <2>4
<1> HIDE DEF T
<1>5. n \in T
    BY <1>2, <1>3, <1>4, Induct
<1>6. QED
    BY <1>1, <1>2, <1>5 DEF T

LEMMA TotalNat == ASSUME NEW w \in Seq(Nat) PROVE Total(w) \in Nat
<1>1. PICK r : RunningTotal(r, w) /\ Total(w) = r[Len(w)]
    BY TotalRuns
<1>2. Len(w) \in 0 .. Len(w)
    OBVIOUS
<1>3. QED
    BY <1>1, <1>2 DEF RunningTotal

LEMMA TotalZero ==
    ASSUME NEW w \in Seq(Nat), \A i \in 1 .. Len(w) : w[i] = 0 PROVE Total(w) = 0
<1> DEFINE s == [i \in 0 .. Len(w) |-> 0]
<1>1. RunningTotal(s, w) /\ s[Len(w)] = 0
    BY DEF RunningTotal
<1> HIDE DEF s
<1>2. QED
    BY <1>1, RunningTotalEnds

LEMMA TotalAppend ==
    ASSUME NEW w \in Seq(Nat), NEW x \in Nat PROVE Total(Append(w, x)) = Total(w) + x
<1> DEFINE n == Len(w)
           v == Append(w, x)
<1>1. /\ n \in Nat /\ v \in Seq(Nat) /\ Len(v) = n + 1 /\ v[n + 1] = x
      /\ \A i \in 1 .. n : v[i] = w[i]
    OBVIOUS
<1>2. PICK r : RunningTotal(r, w) /\ Total(w) = r[n]
    BY TotalRuns
<1>3. r \in [0 .. n -> Nat] /\ r[0] = 0 /\ \A i \in 1 .. n : r[i] = r[i - 1] + w[i]
    BY <1>2 DEF RunningTotal
<1> HIDE DEF n, v
<1> DEFINE s == [i \in 0 .. n + 1 |-> IF i = n + 1 THEN r[n] + x ELSE r[i]]
<1>4. s \in [0 .. n + 1 -> Nat]
    BY <1>1, <1>3
<1>5. /\ s[n + 1] = r[n] + x
      /\ \A i \in 0 .. n : s[i] = r[i]
    BY <1>1
<1> HIDE DEF s
<1>6. ASSUME NEW i \in 1 .. n + 1 PROVE s[i] = s[i - 1] + v[i]
    <2>1. CASE i = n + 1
        <3>1. i - 1 = n /\ n \in 0 .. n
            BY <1>1, <2>1
        <3>2. QED
            BY <1>1, <1>5, <2>1, <3>1
    <2>2. CASE i \in 1 .. n
        <3>1. i \in 0 .. n /\ i - 1 \in 0 .. n
            BY <1>1, <2>2
        <3>2. QED
            BY <1>1, <1>3, <1>5, <2>2, <3>1
    <2>3. QED
        BY <1>1, <2>1, <2>2
<1>7. s[0] = 0
    BY <1>1, <1>3, <1>5
<1>8. RunningTotal(s, v)
    BY <1>1, <1>4, <1>6, <1>7 DEF RunningTotal
<1>9. Total(v) = s[n + 1]
    BY <1>1, <1>8, RunningTotalEnds
<1>10. QED
    BY <1>2, <1>5, <1>9 DEF v

LEMMA TotalTail ==
    ASSUME NEW w \in Seq(Nat), w # <<>> PROVE Total(w) = w[1] + Total(Tail(w))
<1> DEFINE n == Len(w)
           v == Tail(w)
<1>1. /\ n \in Nat \ {0} /\ v \in Seq(Nat) /\ Len(v) = n - 1 /\ w[1] \in Nat
      /\ \A i \in 1 .. n - 1 : v[i] = w[i + 1]
    OBVIOUS
<1>2. PICK r : RunningTotal(r, v) /\ Total(v) = r[n - 1]
    BY <1>1, TotalRuns
<1>3. r \in [0 .. n - 1 -> Nat] /\ r[0] = 0 /\ \A i \in 1 .. n - 1 : r[i] = r[i - 1] + v[i]
    BY <1>1, <1>2 DEF RunningTotal
<1> HIDE DEF v
<1> HIDE DEF n
<1> DEFINE s == [i \in 0 .. n |-> IF i = 0 THEN 0 ELSE w[1] + r[i - 1]]
<1>4. s \in [0 .. n -> Nat]
    <2>1. ASSUME NEW i \in 0 .. n PROVE (IF i = 0 THEN 0 ELSE w[1] + r[i - 1]) \in Nat
        <3>1. i # 0 => i - 1 \in 0 .. n - 1
            BY <1>1
        <3>2. QED
            BY <1>1, <1>3, <3>1
    <2>2. QED
        BY <2>1
<1>5. /\ s[0] = 0 /\ \A i \in 1 .. n : s[i] = w[1] + r[i - 1]
    BY <1>1
<1> HIDE DEF s
<1>6. ASSUME NEW i \in 1 .. n PROVE s[i] = s[i - 1] + w[i]
    <2>1. CASE i = 1
        <3>1. s[1] = w[1] + r[1 - 1] /\ s[1 - 1] = 0 /\ r[1 - 1] = 0
            BY <1>1, <1>3, <1>5
        <3>2. QED
            BY <1>1, <2>1, <3>1
    <2>2. CASE i # 1
        <3>1. i - 1 \in 1 .. n - 1 /\ i - 1 \in 1 .. n /\ (i - 1) + 1 = i /\ (i - 1) - 1 \in 0 .. n - 1
            BY <1>1, <2>2
        <3>2. s[i - 1] = w[1] + r[(i - 1) - 1] /\ s[i] = w[1] + r[i - 1]
            BY <1>5, <3>1
        <3>3. r[i - 1] = r[(i - 1) - 1] + w[i]
            BY <1>1, <1>3, <3>1
        <3>4. w[i] \in Nat /\ r[(i - 1) - 1] \in Nat
            <4>1. i \in 1 .. Len(w)
                BY DEF n
            <4>2. w[i] \in Nat
                BY <4>1
            <4>3. QED
                BY <1>3, <3>1, <4>2
        <3>5. w[1] + (r[(i - 1) - 1] + w[i]) = (w[1] + r[(i - 1) - 1]) + w[i]
            <4>1. \A a, b, d \in Nat : a + (b + d) = (a + b) + d
                OBVIOUS
            <4>2. w[1] \in Nat
                BY <1>1
            <4> HIDE DEF n
            <4>3. QED
                BY <3>4, <4>1, <4>2, Zenon
        <3>6. QED
            BY <3>2, <3>3, <3>5, Zenon
    <2>3. QED
        BY <2>1, <2>2
<1>7. RunningTotal(s, w)
    BY <1>1, <1>4, <1>5, <1>6 DEF RunningTotal, n
<1>8. Total(w) = s[n]
    BY <1>7, RunningTotalEnds DEF n
<1>9. QED
    BY <1>1, <1>2, <1>5, <1>8 DEF v
=============================================================================
