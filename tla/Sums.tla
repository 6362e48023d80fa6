-------------------------------- MODULE Sums --------------------------------
(***************************************************************************)
(* Sums of weights, as a recursive function, so that they can be reasoned   *)
(* about.                                                                  *)
(***************************************************************************)
EXTENDS Integers

\* w[1] + ... + w[n]
Sum(w, n) ==
  LET sum[i \in 0 .. n] == IF i = 0 THEN 0 ELSE sum[i - 1] + w[i]
  IN  sum[n]
=============================================================================
