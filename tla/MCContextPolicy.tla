-------------------------- MODULE MCContextPolicy --------------------------
(* Instance of ContextPolicy for TLC: see context_policy.cfg for the bounds.  *)
EXTENDS ContextPolicy
=============================================================================
