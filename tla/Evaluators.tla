----------------------------- MODULE Evaluators -----------------------------
(***************************************************************************)
(* The four ways a proposal is evaluated, the final test and the baseline  *)
(* suite, side by side: which of them happens is the task of the run,      *)
(* chosen at the start.                                                    *)
(***************************************************************************)
EXTENDS Naturals

CONSTANTS
  Iterations,    \* number of iterations of a run
  Launches,      \* bound on the launches of a run
  Tasks, Trials,                   \* Terminus
  Issues, MaxCrashes,              \* Swebench, whose instances are issues
  Graphs, TopGraphs, Attempts,     \* GraphColouring
  Modules, Nested, MaxProposals,   \* CandidateSource
  TopK, Limit, MaxRate,            \* FrontierTest
  Scaffolds, Models, Limits, Repeats,  \* BaselineSuite
  None, Host, Torn

VARIABLES
  kind,  \* the task of this run
  tb_pc, tb_force, tb_version, tb_foul, tb_trials, tb_jobs, tb_result,
  sw_pc, sw_iteration, sw_writes, sw_base, sw_gate, sw_source, sw_attempt,
  sw_patch, sw_runs, sw_stored, sw_flag, sw_edited, sw_crashes,
  gc_pc, gc_iter, gc_attempt, gc_base, gc_tree, gc_snaps, gc_work, gc_csv,
  gc_stage, gc_score, gc_orphans, gc_results, gc_best,
  cs_sandbox, cs_iteration, cs_pc, cs_proposals, cs_foul, cs_generated,
  cs_archive, cs_base, cs_candidate, cs_spec, cs_cached, cs_trained,
  cs_tested,
  ft_force, ft_pc, ft_iter, ft_version, ft_launch, ft_used, ft_archive,
  ft_proposal, ft_results, ft_tests, ft_memory, ft_rows,
  bs_pc, bs_request, bs_repeat, bs_forced, bs_taken, bs_results,
  bs_summaries, bs_suite, bs_launches, bs_lost, bs_seeds

T == INSTANCE Terminus WITH
  pc <- tb_pc, force <- tb_force, version <- tb_version, foul <- tb_foul,
  trials <- tb_trials, jobs <- tb_jobs, result <- tb_result

S == INSTANCE Swebench WITH
  Instances <- Issues,
  pc <- sw_pc, iteration <- sw_iteration, writes <- sw_writes,
  base <- sw_base, gate <- sw_gate, source <- sw_source,
  attempt <- sw_attempt, patch <- sw_patch, runs <- sw_runs,
  stored <- sw_stored, flag <- sw_flag, edited <- sw_edited,
  crashes <- sw_crashes

G == INSTANCE GraphColouring WITH
  TopK <- TopGraphs,
  pc <- gc_pc, iter <- gc_iter, attempt <- gc_attempt, base <- gc_base,
  tree <- gc_tree, snaps <- gc_snaps, work <- gc_work, csv <- gc_csv,
  stage <- gc_stage, score <- gc_score, orphans <- gc_orphans,
  results <- gc_results, best <- gc_best

C == INSTANCE CandidateSource WITH
  sandbox <- cs_sandbox, iteration <- cs_iteration, pc <- cs_pc,
  proposals <- cs_proposals, foul <- cs_foul, generated <- cs_generated,
  archive <- cs_archive, base <- cs_base, candidate <- cs_candidate,
  spec <- cs_spec, cached <- cs_cached, trained <- cs_trained,
  tested <- cs_tested

F == INSTANCE FrontierTest WITH
  force <- ft_force, pc <- ft_pc, iter <- ft_iter, version <- ft_version,
  launch <- ft_launch, used <- ft_used, archive <- ft_archive,
  proposal <- ft_proposal, results <- ft_results, tests <- ft_tests,
  memory <- ft_memory, rows <- ft_rows

B == INSTANCE BaselineSuite WITH
  MaxLaunches <- Launches,
  pc <- bs_pc, request <- bs_request, repeat <- bs_repeat,
  forced <- bs_forced, taken <- bs_taken, results <- bs_results,
  summaries <- bs_summaries, suite <- bs_suite, launches <- bs_launches,
  lost <- bs_lost, seeds <- bs_seeds

ASSUME IterationsAssumption == Iterations \in Nat \ {0}
ASSUME RepeatsAssumption == Repeats \in Nat
ASSUME NestedAssumption == Nested \subseteq Modules

(* A missing file and the optimizer's own package are no contents that a    *)
(* proposal wrote, and what is not there is no code and no file.            *)
ASSUME ContentsAssumption == None \notin Nat /\ Host \notin Nat

Codes == [main : Nat \cup {None, Host}, helper : Nat \cup {None, Host},
          package : Nat \cup {None, Host}]
ASSUME NoneAssumption == None \notin Codes /\ None \notin C!Proposal

Measurements == [limit : Limits, model : Models]
Summaries ==
  [limit : Limits, model : Models,
   candidates : UNION {[D -> Measurements] : D \in SUBSET Scaffolds}]
ASSUME FilesAssumption == None \notin Summaries /\ Torn \notin Summaries /\ None # Torn

tbVars ==
  <<tb_pc, tb_force, tb_version, tb_foul, tb_trials, tb_jobs, tb_result>>
swVars ==
  <<sw_pc, sw_iteration, sw_writes, sw_base, sw_gate, sw_source,
    sw_attempt, sw_patch, sw_runs, sw_stored, sw_flag, sw_edited, sw_crashes>>
gcVars ==
  <<gc_pc, gc_iter, gc_attempt, gc_base, gc_tree, gc_snaps, gc_work,
    gc_csv, gc_stage, gc_score, gc_orphans, gc_results, gc_best>>
csVars ==
  <<cs_sandbox, cs_iteration, cs_pc, cs_proposals, cs_foul, cs_generated,
    cs_archive, cs_base, cs_candidate, cs_spec, cs_cached, cs_trained,
    cs_tested>>
ftVars ==
  <<ft_force, ft_pc, ft_iter, ft_version, ft_launch, ft_used, ft_archive,
    ft_proposal, ft_results, ft_tests, ft_memory, ft_rows>>
bsVars ==
  <<bs_pc, bs_request, bs_repeat, bs_forced, bs_taken, bs_results,
    bs_summaries, bs_suite, bs_launches, bs_lost, bs_seeds>>
vars == <<kind, tbVars, swVars, gcVars, csVars, ftVars, bsVars>>

Init ==
  /\ kind \in {"terminus", "swebench", "graph_colouring", "scaffold", "final_test", "baseline"}
  /\ T!Init /\ S!Init /\ G!Init /\ C!Init /\ F!Init /\ B!Init

Next ==
  /\ UNCHANGED kind
  /\ \/ kind = "terminus" /\ T!Next /\ UNCHANGED <<swVars, gcVars, csVars, ftVars, bsVars>>
     \/ kind = "swebench" /\ S!Next /\ UNCHANGED <<tbVars, gcVars, csVars, ftVars, bsVars>>
     \/ kind = "graph_colouring" /\ G!Next /\ UNCHANGED <<tbVars, swVars, csVars, ftVars, bsVars>>
     \/ kind = "scaffold" /\ C!Next /\ UNCHANGED <<tbVars, swVars, gcVars, ftVars, bsVars>>
     \/ kind = "final_test" /\ F!Next /\ UNCHANGED <<tbVars, swVars, gcVars, csVars, bsVars>>
     \/ kind = "baseline" /\ B!Next /\ UNCHANGED <<tbVars, swVars, gcVars, csVars, ftVars>>

Spec == Init /\ [][Next]_vars

-----------------------------------------------------------------------------
(* A stored score is made of what this attempt at the iteration ran: of its *)
(* trials, its patches, its rows and its modules, never of what an earlier  *)
(* attempt left in the same directory.                                      *)
OwnEvidence == T!OwnTrialsOnly /\ S!PassedOwnPatch /\ G!RowsOwn

(* What the proposer edited is what is compiled and inherited, what the     *)
(* evaluation must be able to trust is put right before the next proposer,  *)
(* and without a crash between the gate and the result the flag of a        *)
(* candidate says whether its proposer changed a file it was told to leave. *)
WorkspaceSound == G!EditsKept /\ S!StartsTrusted /\ S!FlagsTrue

(* A baseline suite that ended holds what was asked for, measured as it was *)
(* asked for, and the seeds an optimization takes from it are alike.        *)
BaselineSound == B!SuiteIsRequested /\ B!SeedsSound

(* Code with a forbidden marker is measured only where the scan does not    *)
(* look: in a nested module whose file the proposal does not name, and by   *)
(* the final test in a module that a later proposal has replaced.           *)
FoulOnlyUnseen == C!FoulOnlyUnseen

(* A candidate of the frontier is tested with the code its train result was *)
(* measured on: by the import of its module in the run that goes on, and in *)
(* a Terminus or SWE-bench run after any crash and resumption.              *)
TestedAsTrained == C!TestedAsTrained /\ F!TestMatchesTrain

(* The module and the package an iteration measures are those of its own    *)
(* proposal, whatever earlier iterations left in the directory and in the   *)
(* process.                                                                 *)
MeasuresProposal == C!MeasuresProposal
=============================================================================
