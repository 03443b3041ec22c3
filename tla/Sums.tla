-------------------------------- MODULE Sums --------------------------------
(* The sum of a function on 1..n, as a recursive function. *)
EXTENDS Integers

SumTo(H, n) ==
    LET total[i \in 0..n] == IF i = 0 THEN 0 ELSE total[i - 1] + H[i]
    IN  total[n]
=============================================================================
