--------------------------- MODULE GraphColouring ---------------------------
(***************************************************************************)
(* Graph colouring runs (graph_colouring.py, its overlay and optimizer):   *)
(* a proposal is a C++ tree with an `evolved` slot that the overlay adds   *)
(* to every copy.  It is copied, overlaid and compiled in a workspace,     *)
(* then run once per graph; each run leaves a row in a csv file that is    *)
(* read back.  Trees are told apart by the attempt that wrote the slot.    *)
(***************************************************************************)
EXTENDS Naturals, FiniteSets, FiniteSetsExt

CONSTANTS Graphs, Iterations, TopK,
          Attempts   \* bound on attempts at iterations, rerun after crashes

VARIABLES pc, iter, attempt,
          base,      \* iteration the tree was copied from, 0 for upstream
          tree,      \* upstream_source/graph-colouring of the iteration
          snaps,     \* the trees that earlier iterations left
          work,      \* candidate_workspaces/<id>
          csv,       \* results.csv of each graph: who wrote the last row
          stage,     \* "todo", "running" or "ended" for each graph
          score,     \* of each graph, in colourings: 2 optimal, 1 with more
          orphans,   \* <<graph, attempt>>: runs that survived their harness
          results,   \* candidate_results/
          best       \* best_candidates.json

vars == <<pc, iter, attempt, base, tree, snaps, work, csv, stage, score, orphans, results, best>>

Absent == 0
Template == 1
Written(a) == a + 1   \* the slot as attempt a wrote it
Upstream == [evolved |-> Absent, runner |-> "upstream", makefile |-> "upstream"]
NoRow == [attempt |-> 0, row |-> "none"]
Worst == 0
WorstTime == 2

(* _ensure_evolved_files *)
Ensured(t) == IF t.evolved = Absent THEN [t EXCEPT !.evolved = Template] ELSE t

(* _patch_benchmark_runner: the marker alone says that it was patched. *)
PatchedRunner(t) == IF t.runner = "upstream" THEN [t EXCEPT !.runner = "patched"] ELSE t

(* _patch_makefile *)
PatchedMakefile(t) == [t EXCEPT !.makefile = "patched"]

(* The anchors are gone and so is the marker: ValueError. *)
OverlayFails(t) == t.runner = "foreign"

(* apply_overlay *)
Overlaid(t) == PatchedMakefile(PatchedRunner(Ensured(t)))

Init ==
  /\ pc = "build" /\ iter = 1 /\ attempt = 1 /\ base = 0
  /\ tree = Upstream /\ snaps = <<>> /\ work = Upstream
  /\ csv = [g \in Graphs |-> NoRow] /\ stage = [g \in Graphs |-> "todo"]
  /\ score = [g \in Graphs |-> Worst] /\ orphans = {} /\ results = {} /\ best = {}

(* _copy_upstream_source_context and _build_source_snapshot_workspace: the  *)
(* parent's tree replaces the overlaid one as it is.                        *)
BuildSnapshot ==
  /\ pc = "build"
  /\ \E b \in {0} \cup {r.iter : r \in results} :
       /\ base' = b
       /\ tree' = IF b = 0 THEN Overlaid(Upstream) ELSE snaps[b]
  /\ pc' = "propose"
  /\ UNCHANGED <<iter, attempt, snaps, work, csv, stage, score, orphans, results, best>>

(* External: the proposer edits the slot or the runner, or removes a file. *)
Edit ==
  /\ pc = "propose"
  /\ \E evolved \in {Written(attempt), Absent},
        runner \in {tree.runner, "upstream", "foreign"} :
       tree' = [tree EXCEPT !.evolved = evolved, !.runner = runner]
  /\ snaps' = [i \in DOMAIN snaps \cup {iter} |-> IF i = iter THEN tree' ELSE snaps[i]]
  /\ pc' = "prepare"
  /\ UNCHANGED <<iter, attempt, base, work, csv, stage, score, orphans, results, best>>

(* _prepare_workspace with a compiler that fails or hangs: every graph gets *)
(* the worst score (_build_failed_task, _worst_case_run).                   *)
FailToCompile ==
  /\ pc = "prepare"
  /\ work' = IF OverlayFails(tree) THEN Ensured(tree) ELSE Overlaid(tree)
  /\ score' = [g \in Graphs |-> Worst]
  /\ stage' = [g \in Graphs |-> "ended"]
  /\ pc' = "score"
  /\ UNCHANGED <<iter, attempt, base, tree, snaps, csv, orphans, results, best>>

(* _prepare_workspace *)
Compile ==
  /\ pc = "prepare" /\ ~OverlayFails(tree)
  /\ work' = Overlaid(tree)
  /\ stage' = [g \in Graphs |-> "todo"]
  /\ pc' = "run"
  /\ UNCHANGED <<iter, attempt, base, tree, snaps, csv, score, orphans, results, best>>

(* What an earlier attempt left in the directory of the graph stays. *)
FaultStartRun(g) ==
  /\ pc = "run" /\ stage[g] = "todo"
  /\ stage' = [stage EXCEPT ![g] = "running"]
  /\ UNCHANGED <<pc, iter, attempt, base, tree, snaps, work, csv, score, orphans, results, best>>

(* _run_instances, one thread of the pool *)
StartRun(g) ==
  /\ pc = "run" /\ stage[g] = "todo"
  /\ csv' = [csv EXCEPT ![g] = NoRow]
  /\ stage' = [stage EXCEPT ![g] = "running"]
  /\ UNCHANGED <<pc, iter, attempt, base, tree, snaps, work, score, orphans, results, best>>

(* External: benchmark_runner appends its row; so may one that survived. *)
AppendRow(g) ==
  /\ \E a \in 1..attempt, row \in {"optimal", "more", "other"} :
       /\ <<g, a>> \in orphans \/ (a = attempt /\ pc = "run" /\ stage[g] = "running")
       /\ csv' = [csv EXCEPT ![g] = [attempt |-> a, row |-> row]]
  /\ UNCHANGED <<pc, iter, attempt, base, tree, snaps, work, stage, score, orphans,
                 results, best>>

(* _run_one_instance and _parse_last_csv_row: a score counts colours. *)
Scored(exit, row) ==
  IF exit = "zero" /\ row = "optimal" THEN 2
  ELSE IF exit = "zero" /\ row = "more" THEN 1 ELSE Worst

EndRun(g) ==
  /\ pc = "run" /\ stage[g] = "running"
  /\ \E exit \in {"zero", "nonzero", "timeout"} :
       score' = [score EXCEPT ![g] = Scored(exit, csv[g].row)]
  /\ stage' = [stage EXCEPT ![g] = "ended"]
  /\ pc' = IF \A h \in Graphs : stage'[h] = "ended" THEN "score" ELSE "run"
  /\ UNCHANGED <<iter, attempt, base, tree, snaps, work, csv, orphans, results, best>>

(* evaluate_candidate: the mean score, and the mean running time, which any *)
(* program may have; a run that failed counts a fixed time (_worst_case_run)*)
StoreResult ==
  /\ pc = "score"
  /\ \E time \in IF \A g \in Graphs : score[g] = Worst THEN {WorstTime} ELSE {1, 2} :
       results' = results \cup
         {[iter |-> iter, rate |-> MapThenSumSet(LAMBDA g : score[g], Graphs),
           time |-> time, measured |-> work]}
  /\ pc' = "rank"
  /\ UNCHANGED <<iter, attempt, base, tree, snaps, work, csv, stage, score, orphans, best>>

(* pareto_frontier *)
RateFirst(q, r) ==
  \/ q.rate > r.rate
  \/ q.rate = r.rate /\ q.iter > r.iter

(* lex_pareto_frontier *)
LexFirst(q, r) ==
  \/ q.rate > r.rate
  \/ q.rate = r.rate /\ q.time < r.time
  \/ q.rate = r.rate /\ q.time = r.time /\ q.iter > r.iter

QualityFrontier == {r \in results : Cardinality({q \in results : RateFirst(q, r)}) < TopK}

(* _quality_frontier and _save_best_candidates.  The next id has a          *)
(* directory of its own, out of reach of what was left running.             *)
Rank ==
  /\ pc = "rank"
  /\ best' = QualityFrontier
  /\ IF iter < Iterations /\ attempt < Attempts
       THEN iter' = iter + 1 /\ attempt' = attempt + 1 /\ pc' = "build"
       ELSE pc' = "done" /\ UNCHANGED <<iter, attempt>>
  /\ csv' = [g \in Graphs |-> NoRow] /\ orphans' = {}
  /\ UNCHANGED <<base, tree, snaps, work, stage, score, results>>

(* External: the harness is killed before the result is stored, with or     *)
(* without the programs it runs; --resume does the iteration again.         *)
Crash ==
  /\ pc \in {"propose", "prepare", "run", "score"} /\ attempt < Attempts
  /\ \E left \in SUBSET {<<g, attempt>> : g \in {h \in Graphs : pc = "run" /\ stage[h] = "running"}} :
       orphans' = orphans \cup left
  /\ attempt' = attempt + 1 /\ pc' = "build"
  /\ snaps' = [i \in DOMAIN snaps \ {iter} |-> snaps[i]]
  /\ UNCHANGED <<iter, base, tree, work, csv, stage, score, results, best>>

Done == pc = "done" /\ UNCHANGED vars

Next == \/ BuildSnapshot \/ Edit \/ FailToCompile \/ Compile
        \/ \E g \in Graphs : StartRun(g) \/ AppendRow(g) \/ EndRun(g)
        \/ StoreResult \/ Rank \/ Crash \/ Done

Spec == Init /\ [][Next]_vars

-----------------------------------------------------------------------------
(* A graph is scored by a row that this attempt's program wrote, unless a   *)
(* program of a killed attempt was left running: rows that earlier attempts *)
(* and iterations left in the same directory are never read.                *)
RowsOwn ==
  pc \in {"run", "score"} =>
    \A g \in Graphs : stage[g] = "ended" /\ score[g] # Worst =>
      csv[g].attempt = attempt \/ \E o \in orphans : o[1] = g

(* What is compiled is the slot the proposer wrote, and an iteration starts *)
(* from the tree its base was scored with, however often it was overlaid.   *)
EditsKept ==
  /\ pc \in {"run", "score"} /\ tree.evolved # Absent => work.evolved = tree.evolved
  /\ pc = "propose" =>
       \A r \in results : r.iter = base => Ensured(tree).evolved = r.measured.evolved

(* The published frontier ranks equal colourings by running time.           *)
FrontierIsLex ==
  pc \in {"build", "done"} =>
    best = {r \in results : Cardinality({q \in results : LexFirst(q, r)}) < TopK}
=============================================================================
