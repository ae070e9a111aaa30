------------------------- MODULE MCProposerIteration -------------------------
(* Small instances of ProposerIteration. *)
EXTENDS ProposerIteration, TLC

FileSymmetry == Permutations(Files)
=============================================================================
