-------------------------------- MODULE Sums --------------------------------
(* Sums of sequences of numbers. *)
EXTENDS Integers, Sequences

\* sum[i]: the first i of them.
Total(w) ==
    LET sum[i \in 0 .. Len(w)] == IF i = 0 THEN 0 ELSE sum[i - 1] + w[i]
    IN sum[Len(w)]
=============================================================================
