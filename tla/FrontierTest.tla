---------------------------- MODULE FrontierTest ----------------------------
(***************************************************************************)
(* The final test of a Terminus or SWE-bench run.  The proposal of each    *)
(* iteration is archived, evaluated on the train split and stored; at the  *)
(* end the frontier is evaluated again on the test split, from the         *)
(* archive, into a directory of results of its own.  Both evaluations take *)
(* a stored result of the same id and config instead of measuring, unless  *)
(* --force is given.  The run may crash and be started again, with         *)
(* --resume or not.                                                        *)
(*                                                                         *)
(* An id is the number of its iteration, the seed's is 0; a version stands *)
(* for the code one proposal left, version 0 for upstream.                 *)
(***************************************************************************)
EXTENDS Integers, FiniteSets, FiniteSetsExt

CONSTANTS
  Iterations, TopK,
  Limit,     \* --test-frontier-candidate-limit, 0 for none
  MaxRate,   \* passrates are 0..MaxRate
  Launches   \* bound on the launches

VARIABLES
  force,     \* --force
  pc, iter, version, launch,
  used,      \* was the directory of a run started again without --resume?
  archive,   \* iteration -> version of the source in its archive, -1 for none
  proposal,  \* where the config of the candidate names its source
  results,   \* candidate_results/: id -> [proposal, version, rate]
  tests,     \* test_frontier/candidate_results/
  memory,    \* candidates: id -> [proposal, version, rate]
  rows       \* rows of the test so far: id -> version that was tested, -1 for a failure

vars == <<force, pc, iter, version, launch, used, archive, proposal, results, tests,
          memory, rows>>

Iters == 1..Iterations
Rates == 0..MaxRate
Proposals == {"top", "extra", "none"}
SeedProposal == "none"

(* _quality_frontier, cut to the limit. *)
Frontier ==
  LET Above(i) == {j \in DOMAIN memory : \/ memory[j].rate > memory[i].rate
                                         \/ memory[j].rate = memory[i].rate /\ j > i}
      Size == IF Limit = 0 THEN TopK ELSE Min({Limit, TopK})
  IN  {i \in DOMAIN memory : Cardinality(Above(i)) < Size}

(* _normalize_candidate_source_project_path: the version a candidate runs. *)
SourceOf(p, i) == IF p = "none" THEN 0 ELSE archive[i]

(* _load_candidate_result *)
Stored(results_, i, p) == ~force /\ i \in DOMAIN results_ /\ results_[i].proposal = p

Put(f, i, e) == [j \in DOMAIN f \cup {i} |-> IF i = j THEN e ELSE f[j]]

Init ==
  /\ force \in BOOLEAN
  /\ pc = "seed" /\ iter = 1 /\ version = 0 /\ launch = 1 /\ used = FALSE
  /\ archive = [i \in Iters |-> -1] /\ proposal = SeedProposal
  /\ results = <<>> /\ tests = <<>> /\ memory = <<>> /\ rows = <<>>

(* run_swebench_frontier, run_terminus_frontier. *)
EvaluateSeed ==
  /\ pc = "seed"
  /\ IF Stored(results, 0, SeedProposal) THEN UNCHANGED results
     ELSE \E rate \in Rates :
            results' = Put(results, 0, [proposal |-> SeedProposal, version |-> 0, rate |-> rate])
  /\ memory' = Put(memory, 0, results'[0])
  /\ pc' = "propose"
  /\ UNCHANGED <<force, iter, version, launch, used, archive, proposal, tests, rows>>

(* The agent, and the archive of what it left. *)
Propose ==
  /\ pc = "propose" /\ iter \in Iters
  /\ version' = version + 1
  /\ archive' = [archive EXCEPT ![iter] = version']
  /\ proposal' \in Proposals
  /\ pc' = "evaluate"
  /\ UNCHANGED <<force, iter, launch, used, results, tests, memory, rows>>

NextIteration == iter' = iter + 1 /\ pc' = "propose"

(* The candidate is rejected or its evaluation raises. *)
Reject ==
  /\ pc = "evaluate"
  /\ NextIteration
  /\ UNCHANGED <<force, version, launch, used, archive, proposal, results, tests,
                 memory, rows>>

(* _evaluate_proposed *)
Evaluate ==
  /\ pc = "evaluate"
  /\ IF Stored(results, iter, proposal) THEN UNCHANGED results
     ELSE \E rate \in Rates :
            results' = Put(results, iter, [proposal |-> proposal,
                             version |-> SourceOf(proposal, iter), rate |-> rate])
  /\ memory' = Put(memory, iter, results'[iter])
  /\ NextIteration
  /\ UNCHANGED <<force, version, launch, used, archive, proposal, tests, rows>>

StartTest ==
  /\ pc = "propose" /\ iter \notin Iters
  /\ pc' = "test" /\ rows' = <<>>
  /\ UNCHANGED <<force, iter, version, launch, used, archive, proposal, results,
                 tests, memory>>

(* _swebench_test_spec; Terminus takes the config as it is. *)
TestSpec(c) == c.proposal

(* One member of the frontier, in _run_test_frontier. *)
TestOne(i) ==
  /\ pc = "test" /\ i \in Frontier \ DOMAIN rows
  /\ LET p == TestSpec(memory[i]) IN
       IF Stored(tests, i, p) THEN UNCHANGED tests
       ELSE tests' = Put(tests, i, [proposal |-> p, version |-> SourceOf(p, i), rate |-> 0])
  /\ rows' = Put(rows, i, tests'[i].version)
  /\ UNCHANGED <<force, pc, iter, version, launch, used, archive, proposal, results,
                 memory>>

(* The evaluation of a member raises; the others go on. *)
FailTest(i) ==
  /\ pc = "test" /\ i \in Frontier \ DOMAIN rows
  /\ rows' = Put(rows, i, -1)
  /\ UNCHANGED <<force, pc, iter, version, launch, used, archive, proposal, results,
                 tests, memory>>

Complete ==
  /\ pc = "test" /\ Frontier = DOMAIN rows
  /\ pc' = "done"
  /\ UNCHANGED <<force, iter, version, launch, used, archive, proposal, results,
                 tests, memory, rows>>

(* The last evaluated iteration is run again. *)
FaultResumeStart == Max(DOMAIN results \cup {1})

(* _resume_start_iteration *)
ResumeStart == Max(DOMAIN results \cup {0}) + 1

(* After a crash anywhere, or after the end, with --resume. The seed is     *)
(* known by its result.                                                     *)
Resume ==
  /\ launch < Launches /\ 0 \in DOMAIN results
  /\ launch' = launch + 1
  /\ iter' = ResumeStart
  /\ archive' = [i \in Iters |-> IF i < iter' THEN archive[i] ELSE -1]
  /\ memory' = results
  /\ pc' = "propose" /\ rows' = <<>>
  /\ UNCHANGED <<force, version, used, proposal, results, tests>>

(* The same without --resume. *)
StartAgain ==
  /\ launch < Launches
  /\ launch' = launch + 1 /\ used' = TRUE
  /\ pc' = "seed" /\ iter' = 1 /\ memory' = <<>> /\ rows' = <<>>
  /\ UNCHANGED <<force, version, archive, proposal, results, tests>>

Done == pc = "done" /\ UNCHANGED vars

Next == \/ EvaluateSeed \/ Propose \/ Reject \/ Evaluate \/ StartTest
        \/ \E i \in 0..Iterations : TestOne(i) \/ FailTest(i)
        \/ Complete \/ Resume \/ StartAgain \/ Done

Spec == Init /\ [][Next]_vars

-----------------------------------------------------------------------------
(* The code a member of the frontier is tested with is the code its train   *)
(* result was measured on, after any number of crashes and resumptions, as  *)
(* long as the directory was not used for another run.                      *)
TestMatchesTrain ==
  ~used => \A i \in DOMAIN rows : rows[i] \in {-1, results[i].version}
=============================================================================
