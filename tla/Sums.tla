--------------------------------- MODULE Sums ---------------------------------
(***************************************************************************)
(* Sums as the constructors of the writers work them out: in a loop over   *)
(* the elements, or sub-elements, one size after the other.                *)
(***************************************************************************)
EXTENDS Integers

\* The sum of the first n numbers of a sequence.
SumUpTo(a, n) ==
  LET sum[k \in 0 .. n] == IF k = 0 THEN 0 ELSE sum[k - 1] + a[k]
  IN  sum[n]
===============================================================================
