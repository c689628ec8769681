----------------------------- MODULE PrefixSums -----------------------------
(***************************************************************************)
(* The sum of the first n values of a function on 1..n, as a recursive     *)
(* function so that it can be reasoned about.                              *)
(***************************************************************************)
EXTENDS Integers

(* p[i] is f[1] + ... + f[i]. *)
PrefixSum(f, n) ==
    LET p[i \in 0 .. n] == IF i = 0 THEN 0 ELSE p[i - 1] + f[i] IN p

SumUpTo(f, n) == PrefixSum(f, n)[n]
=============================================================================
