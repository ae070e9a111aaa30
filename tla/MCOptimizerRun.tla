--------------------------- MODULE MCOptimizerRun ---------------------------
(* Small instances of OptimizerRun. *)
EXTENDS OptimizerRun, TLC

OneBaseline ==
  {[it |-> 0, name |-> 1, src |-> CleanSource, rate |-> 1]}

SourceSymmetry == Permutations(Sources)
=============================================================================
