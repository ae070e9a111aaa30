---------------------------- MODULE MCEvaluators ----------------------------
(***************************************************************************)
(* Small instances of Evaluators.  What a run of another kind is           *)
(* configured with does not matter, and the suite's first launch may ask   *)
(* for either model: the second asks for any.                              *)
(***************************************************************************)
EXTENDS Evaluators

CONSTANTS a, b

SmallInit ==
  /\ Init
  /\ kind # "terminus" => ~tb_force
  /\ kind # "swebench" => ~sw_writes
  /\ kind # "scaffold" => cs_sandbox = "none"
  /\ kind # "final_test" => ~ft_force
  /\ bs_request.limit = 1 /\ bs_request.model = a

(* Only proposals that mark one file at most, whose paths are not the       *)
(* host's own, and that have a helper only where nothing else is special:   *)
(* no project, no path in the container, a file that the name spells.       *)
SmallProposal ==
  /\ cs_candidate # None =>
       /\ cs_candidate.form # "host"
       /\ cs_candidate.project \/ cs_candidate.form = "container" \/ cs_candidate.kind = "package"
            => cs_candidate.helper = None
  /\ \A p, q \in cs_foul : p[1] = q[1] => p = q

SmallSpec == SmallInit /\ [][Next /\ SmallProposal']_vars
=============================================================================
