---------------------------- MODULE MCWritableArray ----------------------------
(***************************************************************************)
(* WritableArray with fewer slots than there are keys, so that the table   *)
(* fills up with new and with old keys.                                    *)
(***************************************************************************)
EXTENDS WritableArray, TLC

CONSTANTS k1, k2, k3, k4, v1, v2

Keys == {k1, k2, k3, k4}
Values == {v1, v2}

\* Neither the keys nor the values are told apart by anything but equality.
Symmetry == Permutations(Keys) \cup Permutations(Values)
=============================================================================
