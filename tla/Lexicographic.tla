---------------------------- MODULE Lexicographic ----------------------------
(***************************************************************************)
(* The order of tuples of numbers by the first place in which they differ. *)
(* A run whose steps all move forward in it, within bounds, has an end.    *)
(***************************************************************************)
EXTENDS Integers

Precedes(a, b) ==
  \E k \in DOMAIN a : a[k] < b[k] /\ \A j \in 1 .. k - 1 : a[j] = b[j]
=============================================================================
