---------------------------- MODULE StoreTables ----------------------------
(***************************************************************************)
(* The rows of runstore.db and what the RunStore tools answer from them    *)
(* (run_store.py, run_store_mcp_server.py).  EvidenceStore follows the     *)
(* base and the flags of an iteration through the run loop; this module    *)
(* follows artifacts, calls, results per task, the frontier by iteration,  *)
(* outcomes and links through iterations that crashes make run again.      *)
(* The store is never cleaned: a rerun writes over what it finds.          *)
(***************************************************************************)
EXTENDS Integers, FiniteSets

CONSTANTS Tasks, TopK,
          Sizes,       \* of a diff
          MaxExamples, \* max_examples, how many tasks a list of a tool holds
          Iterations,  \* bound on iterations; the last of them is only begun
          Attempts     \* bound on attempts at iterations

ASSUME TasksAssumption == IsFiniteSet(Tasks)
ASSUME TopKAssumption == TopK \in Nat
ASSUME MaxExamplesAssumption == MaxExamples \in Nat
ASSUME IterationsAssumption == Iterations \in Nat \ {0}

VARIABLES
  pc, iter, attempt,
  result,   \* candidate_results/: iteration -> tasks passed, for those stored
  diff,     \* diff.patch: iteration -> [attempt, size], for those on disk
  traced,   \* iterations in traces/index.db
  db        \* runstore.db

vars == <<pc, iter, attempt, result, diff, traced, db>>

Iters == 0 .. Iterations
Rate(r, i) == Cardinality(r[i])

(* pareto_frontier over the results of S, later iterations first on a tie. *)
Frontier(r, S) ==
  {i \in S : Cardinality({j \in S : \/ Rate(r, j) > Rate(r, i)
                                    \/ Rate(r, j) = Rate(r, i) /\ j > i}) < TopK}

-----------------------------------------------------------------------------
(* Rebuilding what is derived *)

Passed(d, i, t) == [it |-> i, task |-> t, passed |-> TRUE] \in d.evals
Failed(d, i, t) == [it |-> i, task |-> t, passed |-> FALSE] \in d.evals

(* A task that one side was not evaluated on counts as failed there. *)
FaultCounts(d, l, r) ==
  [better |-> Cardinality({t \in Tasks : ~Passed(d, l, t) /\ Passed(d, r, t)}),
   worse  |-> Cardinality({t \in Tasks : Passed(d, l, t) /\ ~Passed(d, r, t)})]

(* _proposal_task_counts *)
Counts(d, l, r) ==
  [better |-> Cardinality({t \in Tasks : Failed(d, l, t) /\ Passed(d, r, t)}),
   worse  |-> Cardinality({t \in Tasks : Passed(d, l, t) /\ Failed(d, r, t)})]

(* _base_candidate_for_iteration: the base that was recorded, or else the   *)
(* latest earlier iteration with a candidate; it may have none.             *)
BaseOf(d, i) ==
  LET earlier == {j \in d.candidates : j < i}
  IN  IF d.base[i] # -1 THEN d.base[i]
      ELSE IF earlier = {} THEN -1
      ELSE CHOOSE j \in earlier : \A k \in earlier : k <= j

(* _rebuild_proposal_outcomes *)
Outcomes(d) ==
  {[it |-> i, base |-> BaseOf(d, i), counts |-> Counts(d, BaseOf(d, i), i)] :
     i \in {j \in d.candidates \ {0} : BaseOf(d, j) \in d.candidates}}

(* Only the proposals that have an outcome are linked. *)
FaultLinks(d) ==
  LET proposals == {o.it : o \in Outcomes(d)}
      linked    == {e \in d.evals : <<e.it, e.task>> \in d.traces}
  IN  {<<"call", i, "proposal", i>> : i \in proposals}
      \cup {<<"proposal", i, "candidate", i>> : i \in proposals}
      \cup {<<"candidate", e.it, "eval", <<e.it, e.task>>>> : e \in d.evals}
      \cup {<<"eval", <<e.it, e.task>>, "trace", <<e.it, e.task>>>> : e \in linked}

(* _rebuild_links, with the ends of a link named by their table. *)
Links(d) ==
  LET proposals == d.candidates \ {0}
      linked    == {e \in d.evals : <<e.it, e.task>> \in d.traces}
  IN  {<<"call", i, "proposal", i>> : i \in proposals}
      \cup {<<"proposal", i, "modification", i>> : i \in proposals}
      \cup {<<"proposal", i, "candidate", i>> : i \in proposals}
      \cup {<<"modification", i, "candidate", i>> : i \in d.candidates}
      \cup {<<"candidate", e.it, "eval", <<e.it, e.task>>>> : e \in d.evals}
      \cup {<<"eval", <<e.it, e.task>>, "trace", <<e.it, e.task>>>> : e \in linked}
      \cup {<<"call", i, "modification", i>> : i \in d.modified}

(* _import_run_artifacts: a new row for each content a file ever had. *)
ImportedArtifacts(d, files) ==
  d.artifacts \cup {[it |-> i, attempt |-> files[i].attempt, size |-> files[i].size] :
                      i \in DOMAIN files}

(* refresh: the imports, the outcomes and then the links. *)
Refreshed(d, files, traces) ==
  LET imported == [d EXCEPT !.artifacts = ImportedArtifacts(d, files),
                            !.traces = @ \cup (traces \X Tasks),
                            !.modified = @ \cup DOMAIN files]
  IN  [imported EXCEPT !.outcomes = Outcomes(imported), !.links = Links(imported)]

-----------------------------------------------------------------------------
(* Incremental writers *)

BegunIteration(d, i, b) == [d EXCEPT !.base[i] = IF b # 0 THEN b ELSE @, !.begun = @ \cup {i}]

RecordedCandidate(d, i) == [d EXCEPT !.candidates = @ \cup {i}]

(* record_eval: rows of the same candidate and task are replaced.           *)
RecordedEval(d, i, passed) ==
  [d EXCEPT !.evals = {e \in @ : e.it # i}
                        \cup {[it |-> i, task |-> t, passed |-> t \in passed] : t \in Tasks}]

(* update_frontier: the seed has no row; as_of is the last iteration with a *)
(* candidate.                                                               *)
UpdatedFrontier(d, r) ==
  LET asOf == CHOOSE i \in DOMAIN r : \A j \in DOMAIN r : j <= i
  IN  [d EXCEPT !.frontier = {m \in @ : m[1] # asOf}
                  \cup ({asOf} \X (Frontier(r, DOMAIN r) \ {0}))]

-----------------------------------------------------------------------------
(* The RunStore tools *)

(* Only the iterations that ended with a candidate are known. *)
FaultStateFrontier(d, asOf) == {m[2] : m \in {n \in d.frontier : n[1] = asOf}}

(* runstore_fact_state, its frontier. *)
StateFrontier(d, asOf) ==
  LET known == {m[1] : m \in {n \in d.frontier : n[1] <= asOf}}
  IN  {m[2] : m \in {n \in d.frontier : n[1] \in known /\ \A k \in known : k <= n[1]}}

(* _comparison_rows with _classify_pair *)
Breakthroughs(d, l, r) == {t \in Tasks : Failed(d, l, t) /\ Passed(d, r, t)}
Regressions(d, l, r)   == {t \in Tasks : Passed(d, l, t) /\ Failed(d, r, t)}

(* A list is cut to MaxExamples tasks, in the order that the rows come in.  *)
Cut(S) ==
  IF Cardinality(S) <= MaxExamples THEN S
  ELSE CHOOSE listed \in SUBSET S : Cardinality(listed) = MaxExamples

(* runstore_link_explain_proposal *)
Explained(d, i) ==
  {[outcome |-> o, breakthroughs |-> Cut(Breakthroughs(d, o.base, i)),
    regressions |-> Cut(Regressions(d, o.base, i))] : o \in {p \in d.outcomes : p.it = i}}

(* runstore_link_chain_task: from the results of a task to their traces. *)
TaskChain(d, t) == {l \in d.links : l[1] = "eval" /\ l[2][2] = t}

(* runstore_artifact_get by its path: the largest of the rows. *)
ArtifactGet(d, i) ==
  {a \in d.artifacts : a.it = i /\ \A b \in d.artifacts : b.it = i => b.size <= a.size}

-----------------------------------------------------------------------------
Empty ==
  [begun |-> {}, base |-> [i \in Iters |-> -1], candidates |-> {}, evals |-> {},
   traces |-> {}, modified |-> {}, artifacts |-> {}, frontier |-> {}, outcomes |-> {},
   links |-> {}]

(* The seed is evaluated, recorded and committed. *)
Init ==
  /\ pc = "begin" /\ iter = 1 /\ attempt = 1
  /\ \E passed \in SUBSET Tasks :
       /\ result = [i \in {0} |-> passed]
       /\ db = UpdatedFrontier(
                 Refreshed(RecordedEval(RecordedCandidate(Empty, 0), 0, passed), <<>>, {0}),
                 result)
  /\ diff = <<>> /\ traced = {0}

(* _run_progressive_proposer_iteration: a base, if any, and the workspace's *)
(* copy of the store.                                                       *)
Begin ==
  /\ pc = "begin"
  /\ \E b \in {0} \cup Frontier(result, DOMAIN result) :
       db' = Refreshed(BegunIteration(db, iter, b), diff, traced)
  /\ pc' = "call"
  /\ UNCHANGED <<iter, attempt, result, diff, traced>>

(* The agent returns; its diff is archived and recorded, again after a      *)
(* repair.                                                                  *)
Archive ==
  /\ pc \in {"call", "archived"} /\ iter < Iterations
  /\ \E size \in Sizes :
       diff' = [i \in DOMAIN diff \cup {iter} |->
                  IF i = iter THEN [attempt |-> attempt, size |-> size] ELSE diff[i]]
  /\ db' = Refreshed(db, diff', traced)
  /\ pc' = IF pc = "call" THEN "archived" ELSE "repaired"
  /\ UNCHANGED <<iter, attempt, result, traced>>

(* No candidate: rejected, or its evaluation failed. *)
Fail ==
  /\ pc \in {"call", "archived", "repaired"} /\ iter < Iterations
  /\ pc' = "frontier"
  /\ UNCHANGED <<iter, attempt, result, diff, traced, db>>

(* _evaluate_proposed: the result file, then its row. *)
Score ==
  /\ pc \in {"archived", "repaired"}
  /\ \E passed \in SUBSET Tasks :
       result' = [i \in DOMAIN result \cup {iter} |-> IF i = iter THEN passed ELSE result[i]]
  /\ pc' = "record"
  /\ UNCHANGED <<iter, attempt, diff, traced, db>>

(* _append_summary *)
Record ==
  /\ pc = "record"
  /\ db' = Refreshed(RecordedCandidate(db, iter), diff, traced)
  /\ pc' = "commit"
  /\ UNCHANGED <<iter, attempt, result, diff, traced>>

(* Traces, results of the tasks, refresh. *)
Commit ==
  /\ pc = "commit"
  /\ traced' = traced \cup {iter}
  /\ db' = Refreshed(RecordedEval(db, iter, result[iter]), diff, traced')
  /\ pc' = "frontier"
  /\ UNCHANGED <<iter, attempt, result, diff>>

(* _save_best_candidates *)
SaveFrontier ==
  /\ pc = "frontier"
  /\ db' = UpdatedFrontier(db, result)
  /\ iter' = iter + 1 /\ attempt' = attempt + 1 /\ pc' = "begin"
  /\ UNCHANGED <<result, diff, traced>>

(* A crash and --resume: the iterations after the last stored result run    *)
(* again, their call directories are removed, the frontier is saved.        *)
Relaunch ==
  /\ attempt < Attempts
  /\ attempt' = attempt + 1 /\ pc' = "begin"
  /\ iter' = 1 + (CHOOSE i \in DOMAIN result : \A j \in DOMAIN result : j <= i)
  /\ diff' = [i \in {j \in DOMAIN diff : j < iter'} |-> diff[i]]
  /\ db' = UpdatedFrontier(db, result)
  /\ UNCHANGED <<result, traced>>

Done == pc = "call" /\ iter = Iterations /\ UNCHANGED vars

Next == Begin \/ Archive \/ Fail \/ Score \/ Record \/ Commit \/ SaveFrontier
        \/ Relaunch \/ Done

Spec == Init /\ [][Next]_vars

-----------------------------------------------------------------------------
(* A list is as long as the count says, or full.                            *)
AsCounted(listed, count) ==
  IF count <= MaxExamples THEN Cardinality(listed) = count
  ELSE Cardinality(listed) = MaxExamples

(* What the agent of an iteration is told of an earlier proposal agrees     *)
(* with itself, also when the base or the proposal has no results because   *)
(* a crash lost them: the tasks it broke through on and lost, listed from   *)
(* the results, are as many as its outcome counts where these fit in the    *)
(* lists, and else the lists are full. So the counts tell the agent whether *)
(* it sees every task, and each task listed is what the list says.          *)
ExplainAgrees ==
  pc = "call" => \A i \in db.candidates : \A e \in Explained(db, i) :
    /\ AsCounted(e.breakthroughs, e.outcome.counts.better)
    /\ AsCounted(e.regressions, e.outcome.counts.worse)
    /\ \A t \in e.breakthroughs : Failed(db, e.outcome.base, t) /\ Passed(db, i, t)
    /\ \A t \in e.regressions : Passed(db, e.outcome.base, t) /\ Failed(db, i, t)

(* The frontier as of an earlier iteration is always what it was then: the  *)
(* best of the results up to it, whatever iterations in between left none   *)
(* and however often the run was resumed.                                   *)
HistoryStable ==
  pc = "call" =>
    \A i \in 1 .. iter - 1 : i \in DOMAIN result =>
      /\ StateFrontier(db, i) = Frontier(result, {j \in DOMAIN result : j <= i}) \ {0}
      /\ i + 1 \in (1 .. iter - 1) \ DOMAIN result =>
           StateFrontier(db, i + 1) = StateFrontier(db, i)

(* From every proposal whose results were recorded the links lead to its    *)
(* candidate, to each task it was run on, and from there to the trace.      *)
ChainComplete ==
  pc = "call" =>
    \A e \in db.evals :
      /\ <<"candidate", e.it, "eval", <<e.it, e.task>>>> \in db.links
      /\ <<"eval", <<e.it, e.task>>, "trace", <<e.it, e.task>>>> \in TaskChain(db, e.task)
      /\ e.it # 0 => {<<"call", e.it, "proposal", e.it>>,
                      <<"proposal", e.it, "candidate", e.it>>} \subseteq db.links

(* An artifact that is asked for by its path is what the file holds.        *)
ArtifactIsCurrent ==
  pc = "call" => \A i \in DOMAIN diff : \A a \in ArtifactGet(db, i) : a.attempt = diff[i].attempt
=============================================================================
