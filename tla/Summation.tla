----------------------------- MODULE Summation ------------------------------
(* Sums, as a recursive function on the positions, which can be reasoned   *)
(* about by induction.                                                     *)
EXTENDS Integers

(* f[1] + ... + f[n] *)
Sum(f, n) ==
    LET sum[i \in 0..n] == IF i = 0 THEN 0 ELSE sum[i - 1] + f[i]
    IN  sum[n]
=============================================================================
