---------------------------- MODULE OptimizerRun ----------------------------
(***************************************************************************)
(* LocomoOptimizer.run: the proposer/evaluate loop of one run directory,   *)
(* the files it leaves behind, a crash between any two of its steps and    *)
(* the relaunch that continues from those files.                           *)
(*                                                                         *)
(* Files are variables that survive Crash; everything the Python process   *)
(* holds in memory does not.  What one iteration does inside the proposer  *)
(* call is the business of ProposerIteration; here the call is one step     *)
(* with every outcome that module allows.                                  *)
(***************************************************************************)
EXTENDS Frontier, Lexicographic

CONSTANTS
  Policy,         \* config.selection_policy
  InitialLow,     \* config.progressive_initial_low_iterations
  BaseTopK,       \* the 3 of _curaii_select_for_budget
  SeedNames,      \* the scaffolds run_initial_frontier evaluates
  Baseline,       \* what --baseline-dir holds, {} if there is none to give
  RelaunchModes,  \* how an interrupted run is started again
  MaxCrashes,     \* bound: crashes of one behaviour
  NoSource, NoName

Policies == {"default", "progressive", "curaii", "pareto"}
Budgets  == {"low", "medium", "high"}

(* The policies that keep progressive_state.json. *)
StatefulPolicies == {"progressive", "curaii", "pareto"}

ASSUME PolicyAssumption   == Policy \in Policies
ASSUME BoundsAssumption   == /\ InitialLow \in Nat
                             /\ BaseTopK \in Nat \ {0}
                             /\ MaxCrashes \in Nat
ASSUME SeedAssumption     == /\ SeedNames \subseteq Names
                             /\ SeedNames # {}
                             /\ IsFiniteSet(SeedNames)
ASSUME BaselineAssumption == /\ Baseline \subseteq {c \in Candidate : IsSeed(c)}
                             /\ IsFiniteSet(Baseline)
ASSUME RelaunchAssumption == RelaunchModes \subseteq {"resume", "fresh"}
ASSUME NoneAssumption     == /\ NoSource \notin Sources \cup {CleanSource}
                             /\ NoName \notin Names

VARIABLES
  (* the run directory *)
  stored,     \* candidate_results/: the results that parse
  archive,    \* proposer_calls/iter_NNN/source_snapshot, NoSource if absent
  rows,       \* candidate rows of evolution_summary.jsonl, by iteration
  best,       \* best_candidates.json
  prog,       \* progressive_state.json
  rsStatus,   \* RunStore iterations.status
  rsCands,    \* RunStore candidates
  (* the process *)
  pc,
  iter,       \* the loop variable
  resuming,   \* config.resume of this launch
  todo,       \* seeds still to evaluate or to record
  cands,      \* candidates, the in-memory list
  prev,       \* candidates when the iteration began
  budget, base,
  pending,    \* name of the candidate in pending_eval.json
  evaluated,  \* what the iteration returned
  crashes

files   == <<stored, archive, rows, best, prog, rsStatus, rsCands>>
process == <<pc, iter, resuming, todo, cands, prev, budget, base, pending,
             evaluated>>
vars    == <<files, process, crashes>>

RunStates == {"down", "seed", "seedrow", "commit0", "resume", "save", "loop",
              "propose", "evaluate", "record", "row", "commit", "finish",
              "state", "done"}

Statuses == {"absent", "running", "recorded", "committed"}

ProgressiveState ==
  [stagnation : Nat, lastImproved : Nat, current : Budgets \cup {"unset"},
   next : Budgets \cup {"unset"}]

FilesTypeOK ==
  /\ stored \subseteq Candidate
  /\ archive \in [1 .. Iterations -> Sources \cup {NoSource}]
  /\ rows \in [0 .. Iterations -> Nat]
  /\ best \subseteq Candidate
  /\ prog \in ProgressiveState
  /\ rsStatus \in [0 .. Iterations -> Statuses]
  /\ rsCands \subseteq Candidate

ProcessTypeOK ==
  /\ pc \in RunStates
  /\ iter \in 0 .. Iterations + 1
  /\ resuming \in BOOLEAN
  /\ todo \subseteq Names
  /\ cands \subseteq Candidate
  /\ prev \subseteq Candidate
  /\ budget \in Budgets
  /\ base \in 0 .. Iterations
  /\ pending \in Names \cup {NoName}
  /\ evaluated \subseteq Candidate
  /\ crashes \in Nat

TypeOK == FilesTypeOK /\ ProcessTypeOK

-----------------------------------------------------------------------------
(* Seeded faults: slips of the code below that the properties must notice.  *)
(* No action uses them.                                                     *)

Or(b, default) == IF b = "unset" THEN default ELSE b

(* A cache that never hits. *)
FaultCachedResult(i, n) == {}

(* max(completed) for max(completed) + 1. *)
FaultIsResumeStart(S, s) ==
  /\ \A i \in Completed(S) : i <= s
  /\ (s = 1 /\ Completed(S) = {}) \/ s \in Completed(S)

(* A streak one short, without the max(0, ...). *)
FaultRederived(s, l) ==
  LET current == Or(prog.current, "high") IN
  [stagnation   |-> s - 2 - l,
   lastImproved |-> l,
   current      |-> current,
   next         |-> Or(prog.next, current)]

(* A cleanup that also takes the last completed iteration. *)
FaultCleanArchive(s) ==
  [i \in 1 .. Iterations |-> IF i >= s - 1 THEN NoSource ELSE archive[i]]

(* A base that only has to beat one of the seeds. *)
FaultEligible(S) ==
  {c \in S : /\ c.it \in 1 .. iter - 1
             /\ \E d \in Seeds(cands) : c.rate >= d.rate
             /\ archive[c.it] # NoSource}

(* A store that only notes the status. *)
FaultRecordCandidate ==
  /\ pc = "record"
  /\ rsStatus' = [rsStatus EXCEPT ![iter] = "recorded"]
  /\ pc' = "row"
  /\ UNCHANGED <<stored, archive, rows, best, prog, rsCands, iter, resuming,
                 todo, cands, prev, budget, base, pending, evaluated, crashes>>

(* The frontier saved before the list is extended. *)
FaultFinishIteration ==
  /\ pc = "finish"
  /\ cands' = cands \cup evaluated
  /\ best' = QualityFrontier(cands)
  /\ pc' = "state"
  /\ UNCHANGED <<stored, archive, rows, prog, rsStatus, rsCands, iter,
                 resuming, todo, prev, budget, base, pending, evaluated,
                 crashes>>

(* An advance that need not be strict. *)
FaultAdvanced ==
  evaluated # {} /\ \E c \in evaluated : \A d \in prev : c.rate >= d.rate

(* An iteration that left no candidate is tried again. *)
FaultUpdateState ==
  /\ pc = "state"
  /\ iter' = IF evaluated = {} THEN iter ELSE iter + 1
  /\ prev' = {}
  /\ budget' = "low"
  /\ base' = 0
  /\ pending' = NoName
  /\ evaluated' = {}
  /\ pc' = "loop"
  /\ UNCHANGED <<files, resuming, todo, cands, crashes>>

-----------------------------------------------------------------------------
(* Initial states and launches *)

(* _load_progressive_state when the file does not exist. *)
FirstProgressiveState ==
  [stagnation |-> 0, lastImproved |-> 0, current |-> "low", next |-> "low"]

(* ... and when it does not parse: every field falls to its caller's default. *)
TornProgressiveState ==
  [stagnation |-> 0, lastImproved |-> 0, current |-> "unset",
   next |-> "unset"]

Init ==
  /\ stored = {}
  /\ archive = [i \in 1 .. Iterations |-> NoSource]
  /\ rows = [i \in 0 .. Iterations |-> 0]
  /\ best = {}
  /\ prog = FirstProgressiveState
  /\ rsStatus = [i \in 0 .. Iterations |-> "absent"]
  /\ rsCands = {}
  /\ pc = "down"
  /\ iter = 0
  /\ resuming = FALSE
  /\ todo = {}
  /\ cands = {}
  /\ prev = {}
  /\ budget = "low"
  /\ base = 0
  /\ pending = NoName
  /\ evaluated = {}
  /\ crashes = 0

(* No flag: the seed frontier is evaluated (again). *)
LaunchFresh ==
  /\ pc = "down"
  /\ stored = {} \/ "fresh" \in RelaunchModes
  /\ pc' = "seed"
  /\ todo' = SeedNames
  /\ UNCHANGED <<files, iter, resuming, cands, prev, budget, base, pending,
                 evaluated, crashes>>

(* --baseline-dir, which may be given at any launch, wins over --resume:    *)
(* the stored results are not loaded.                                       *)
LaunchBaseline ==
  /\ pc = "down"
  /\ Baseline # {}
  /\ resuming' \in IF crashes = 0 THEN {FALSE}
                   ELSE {m = "resume" : m \in RelaunchModes}
  /\ cands' = Baseline
  /\ todo' = {c.name : c \in Baseline}
  /\ pc' = "seedrow"
  /\ UNCHANGED <<files, iter, prev, budget, base, pending, evaluated, crashes>>

(* --resume: refused when candidate_results/ holds nothing readable. *)
LaunchResume ==
  /\ pc = "down"
  /\ "resume" \in RelaunchModes
  /\ stored # {}
  /\ resuming' = TRUE
  /\ cands' = stored
  /\ pc' = "resume"
  /\ UNCHANGED <<files, iter, todo, prev, budget, base, pending, evaluated,
                 crashes>>

-----------------------------------------------------------------------------
(* Iteration 0 *)

(* The seeds are taken in the order of config.scaffolds, whatever that is. *)

(* EvaluationRunner._load_candidate_result: the stored result of the id.  It *)
(* counts only under an equal config, which a seed's always is.              *)
CachedResult(i, n) == {c \in stored : c.it = i /\ c.name = n}

StoreResult(c) == stored' = {d \in stored : ~SameId(c, d)} \cup {c}

EvaluateSeed ==
  /\ pc = "seed"
  /\ \E n \in todo :
       /\ \/ /\ CachedResult(0, n) # {}
             /\ cands' = cands \cup CachedResult(0, n)
             /\ UNCHANGED stored
          \/ /\ CachedResult(0, n) = {}
             /\ \E r \in Passrates :
                  LET c == [it |-> 0, name |-> n, src |-> CleanSource,
                            rate |-> r]
                  IN  StoreResult(c) /\ cands' = cands \cup {c}
       /\ todo' = IF todo = {n} THEN SeedNames ELSE todo \ {n}
       /\ pc' = IF todo = {n} THEN "seedrow" ELSE "seed"
  /\ UNCHANGED <<archive, rows, best, prog, rsStatus, rsCands, iter, resuming,
                 prev, budget, base, pending, evaluated, crashes>>

(* _append_summary of one seed. *)
RecordSeed ==
  /\ pc = "seedrow"
  /\ \E n \in todo :
       /\ rsCands' = rsCands \cup {c \in cands : IsSeed(c) /\ c.name = n}
       /\ rsStatus' = [rsStatus EXCEPT ![0] = "recorded"]
       /\ rows' = [rows EXCEPT ![0] = @ + 1]
       /\ todo' = todo \ {n}
       /\ pc' = IF todo # {n} THEN "seedrow"
                ELSE IF resuming THEN "resume" ELSE "commit0"
  /\ UNCHANGED <<stored, archive, best, prog, iter, resuming, cands, prev,
                 budget, base, pending, evaluated, crashes>>

(* Post-eval artifacts, traces, eval rows and the commit of iteration 0. *)
CommitSeeds ==
  /\ pc = "commit0"
  /\ rsStatus' = [rsStatus EXCEPT ![0] = "committed"]
  /\ iter' = 1
  /\ pc' = "save"
  /\ UNCHANGED <<stored, archive, rows, best, prog, rsCands, resuming,
                 todo, cands, prev, budget, base, pending, evaluated, crashes>>

-----------------------------------------------------------------------------
(* --resume *)

(* _resume_start_iteration: max(completed) + 1, or 1. *)
IsResumeStart(S, s) ==
  /\ \A i \in Completed(S) : i < s
  /\ s = 1 \/ s - 1 \in Completed(S)

(* The strict passrate rule _rederive_progressive_state replays. *)
ImprovedAt(S, i) ==
  \E c \in S : /\ c.it = i
               /\ Beats(c.rate, {d \in S : d.it < i})

IsLastImproved(S, l) ==
  /\ l = 0 \/ (l \in Completed(S) /\ ImprovedAt(S, l))
  /\ \A i \in Completed(S) : ImprovedAt(S, i) => i <= l

Rederived(s, l) ==
  LET current == Or(prog.current, "high") IN
  [stagnation   |-> s - 1 - l,
   lastImproved |-> l,
   current      |-> current,
   next         |-> Or(prog.next, current)]

(* _clean_stale_iteration_artifacts. *)
CleanArchive(s) ==
  [i \in 1 .. Iterations |-> IF i >= s THEN NoSource ELSE archive[i]]

CleanRows(s) == [i \in 0 .. Iterations |-> IF i >= s THEN 0 ELSE rows[i]]

(* Drop the artifacts of the iterations to be rerun, rebuild the state. *)
Resume ==
  /\ pc = "resume"
  /\ \E s \in 1 .. Iterations + 1 :
       /\ IsResumeStart(cands, s)
       /\ iter' = s
       /\ archive' = CleanArchive(s)
       /\ rows' = CleanRows(s)
       /\ IF Policy \in StatefulPolicies
            THEN \E l \in 0 .. s - 1 : /\ IsLastImproved(cands, l)
                                       /\ prog' = Rederived(s, l)
            ELSE UNCHANGED prog
  /\ pc' = "save"
  /\ UNCHANGED <<stored, best, rsStatus, rsCands, resuming, todo, cands,
                 prev, budget, base, pending, evaluated, crashes>>

(* _save_best_candidates and the run indexes, before the loop. *)
SaveBest ==
  /\ pc = "save"
  /\ best' = QualityFrontier(cands)
  /\ pc' = "loop"
  /\ UNCHANGED <<stored, archive, rows, prog, rsStatus, rsCands, iter,
                 resuming, todo, cands, prev, budget, base, pending, evaluated,
                 crashes>>

-----------------------------------------------------------------------------
(* One iteration *)

(* _progressive_budget_for_iteration and its siblings in run. *)
BudgetFor(i) ==
  IF Policy \in {"default", "pareto"} THEN "high"
  ELSE IF i <= InitialLow THEN "low"
  ELSE Or(prog.next, Or(prog.current, "low"))

(* The iterations whose source may replace the clean scaffold.             *)
Eligible(S) ==
  {c \in S : /\ c.it \in 1 .. iter - 1
             /\ Beats(c.rate, Seeds(cands))
             /\ archive[c.it] # NoSource}

(* _pareto_select_base draws from the frontier; _curaii_select_for_budget   *)
(* from the best of the pool.  Average score and tokens, which order equal  *)
(* passrates, are not modelled: any such order is allowed.                  *)
BaseCandidates(b) ==
  CASE Policy = "pareto" -> Eligible(QualityFrontier(cands))
    [] Policy = "curaii" ->
         LET pool == Eligible(cands)
             k    == IF b = "low" THEN 1 ELSE BaseTopK
         IN  {c \in pool : Cardinality({d \in pool : d.rate > c.rate}) < k}
    [] OTHER -> {}

BaseChoices(b) ==
  IF BaseCandidates(b) = {} THEN {0} ELSE {c.it : c \in BaseCandidates(b)}

StartIteration ==
  /\ pc = "loop"
  /\ iter <= Iterations
  /\ prev' = cands
  /\ budget' = BudgetFor(iter)
  /\ base' \in BaseChoices(BudgetFor(iter))
  /\ rsStatus' = [rsStatus EXCEPT ![iter] = "running"]
  /\ pc' = "propose"
  /\ UNCHANGED <<stored, archive, rows, best, prog, rsCands, iter,
                 resuming, todo, cands, pending, evaluated, crashes>>

(* The proposer call ended before its workspace was archived. *)
ProposerRejected ==
  /\ pc = "propose"
  /\ pc' = "finish"
  /\ UNCHANGED <<files, iter, resuming, todo, cands, prev, budget, base,
                 pending, evaluated, crashes>>

(* The workspace was archived, but no usable pending_eval.json came of it. *)
ProposerFailed ==
  /\ pc = "propose"
  /\ \E s \in Sources : archive' = [archive EXCEPT ![iter] = s]
  /\ pc' = "finish"
  /\ UNCHANGED <<stored, rows, best, prog, rsStatus, rsCands, iter,
                 resuming, todo, cands, prev, budget, base, pending, evaluated,
                 crashes>>

Propose ==
  /\ pc = "propose"
  /\ \E s \in Sources : archive' = [archive EXCEPT ![iter] = s]
  /\ pending' \in Names
  /\ pc' = "evaluate"
  /\ UNCHANGED <<stored, rows, best, prog, rsStatus, rsCands, iter,
                 resuming, todo, cands, prev, budget, base, evaluated, crashes>>

(* Code policy, import or evaluation rejects the candidate. *)
RejectCandidate ==
  /\ pc = "evaluate"
  /\ pc' = "finish"
  /\ UNCHANGED <<files, iter, resuming, todo, cands, prev, budget, base,
                 pending, evaluated, crashes>>

(* A result stored under the same id is returned as it is ...               *)
ReuseResult ==
  /\ pc = "evaluate"
  /\ CachedResult(iter, pending) # {}
  /\ evaluated' = CachedResult(iter, pending)
  /\ pc' = "record"
  /\ UNCHANGED <<files, iter, resuming, todo, cands, prev, budget, base,
                 pending, crashes>>

(* ... unless its config differs: then the candidate is scored again and    *)
(* the file is written over.                                                *)
EvaluateCandidate ==
  /\ pc = "evaluate"
  /\ \E r \in Passrates :
       LET c == [it |-> iter, name |-> pending, src |-> archive[iter],
                 rate |-> r]
       IN  StoreResult(c) /\ evaluated' = {c}
  /\ pc' = "record"
  /\ UNCHANGED <<archive, rows, best, prog, rsStatus, rsCands, iter, resuming,
                 todo, cands, prev, budget, base, pending, crashes>>

(* _append_summary: the RunStore first, the jsonl row after it. *)
RecordCandidate ==
  /\ pc = "record"
  /\ rsCands' = {c \in rsCands : \A d \in evaluated : ~SameId(c, d)}
                  \cup evaluated
  /\ rsStatus' = [rsStatus EXCEPT ![iter] = "recorded"]
  /\ pc' = "row"
  /\ UNCHANGED <<stored, archive, rows, best, prog, iter, resuming, todo,
                 cands, prev, budget, base, pending, evaluated, crashes>>

AppendRow ==
  /\ pc = "row"
  /\ rows' = [rows EXCEPT ![iter] = @ + 1]
  /\ pc' = "commit"
  /\ UNCHANGED <<stored, archive, best, prog, rsStatus, rsCands, iter,
                 resuming, todo, cands, prev, budget, base, pending, evaluated,
                 crashes>>

(* Traces, eval rows, commit_iteration. *)
CommitIteration ==
  /\ pc = "commit"
  /\ rsStatus' = [rsStatus EXCEPT ![iter] = "committed"]
  /\ pc' = "finish"
  /\ UNCHANGED <<stored, archive, rows, best, prog, rsCands, iter,
                 resuming, todo, cands, prev, budget, base, pending, evaluated,
                 crashes>>

(* Back in run: extend the list, rewrite best_candidates.json. *)
FinishIteration ==
  /\ pc = "finish"
  /\ cands' = cands \cup evaluated
  /\ best' = QualityFrontier(cands \cup evaluated)
  /\ pc' = "state"
  /\ UNCHANGED <<stored, archive, rows, prog, rsStatus, rsCands, iter,
                 resuming, todo, prev, budget, base, pending, evaluated,
                 crashes>>

(* The two advance signals of _update_progressive_state. *)
Advanced ==
  IF Policy = "pareto"
    THEN evaluated # {} /\ \E c \in cands : Beats(c.rate, prev)
    ELSE evaluated \cap (QualityFrontier(cands) \ QualityFrontier(prev)) # {}

(* A warm-up one iteration too long. *)
FaultNextBudget ==
  CASE iter <= InitialLow -> "low"
    [] iter > InitialLow /\ Advanced -> "low"
    [] iter > InitialLow /\ ~Advanced /\ budget = "low" -> "medium"
    [] OTHER -> "high"

NextBudget ==
  CASE iter < InitialLow -> "low"
    [] iter >= InitialLow /\ Advanced -> "low"
    [] iter >= InitialLow /\ ~Advanced /\ budget = "low" -> "medium"
    [] OTHER -> "high"

UpdatedProgressiveState ==
  [stagnation   |-> IF Advanced THEN 0 ELSE prog.stagnation + 1,
   lastImproved |-> IF Advanced THEN iter ELSE prog.lastImproved,
   current      |-> budget,
   next         |-> NextBudget]

UpdateState ==
  /\ pc = "state"
  /\ prog' = IF Policy \in StatefulPolicies THEN UpdatedProgressiveState
             ELSE prog
  /\ iter' = iter + 1
  /\ prev' = {}
  /\ budget' = "low"
  /\ base' = 0
  /\ pending' = NoName
  /\ evaluated' = {}
  /\ pc' = "loop"
  /\ UNCHANGED <<stored, archive, rows, best, rsStatus, rsCands, resuming, todo,
                 cands, crashes>>

(* Test frontier and optimizer_summary.json. *)
Complete ==
  /\ pc = "loop"
  /\ iter > Iterations
  /\ pc' = "done"
  /\ UNCHANGED <<files, iter, resuming, todo, cands, prev, budget, base,
                 pending, evaluated, crashes>>

-----------------------------------------------------------------------------
(* Crashes *)

ProcessLost ==
  /\ pc \notin {"down", "done"}
  /\ crashes < MaxCrashes
  /\ crashes' = crashes + 1
  /\ pc' = "down"
  /\ iter' = 0
  /\ resuming' = FALSE
  /\ todo' = {}
  /\ cands' = {}
  /\ prev' = {}
  /\ budget' = "low"
  /\ base' = 0
  /\ pending' = NoName
  /\ evaluated' = {}

Crash == ProcessLost /\ UNCHANGED files

(* No write is atomic: the crash may leave a file that does not parse.  A   *)
(* new result file cut short is as good as none; one that was being written *)
(* over is lost.  An archive cut short is one more source.                  *)
CrashInResultWrite ==
  /\ ProcessLost
  /\ pc = "evaluate"
  /\ stored' = stored \ CachedResult(iter, pending)
  /\ UNCHANGED <<archive, rows, best, prog, rsStatus, rsCands>>

CrashInBestWrite ==
  /\ ProcessLost
  /\ pc \in {"save", "finish"}
  /\ best' = {}
  /\ UNCHANGED <<stored, archive, rows, prog, rsStatus, rsCands>>

(* record_candidates is two transactions, the status and the candidate, and *)
(* the jsonl row is a third write.                                          *)
CrashInRecord ==
  /\ ProcessLost
  /\ \/ /\ pc = "record"
        /\ rsStatus' = [rsStatus EXCEPT ![iter] = "recorded"]
        /\ UNCHANGED rsCands
     \/ /\ pc = "seedrow"
        /\ rsStatus' = [rsStatus EXCEPT ![0] = "recorded"]
        /\ \/ UNCHANGED rsCands
           \/ \E n \in todo :
                rsCands' = rsCands \cup {c \in cands : /\ IsSeed(c)
                                                     /\ c.name = n}
  /\ UNCHANGED <<stored, archive, rows, best, prog>>

CrashInStateWrite ==
  /\ ProcessLost
  /\ pc = "state"
  /\ Policy \in StatefulPolicies
  /\ prog' = TornProgressiveState
  /\ UNCHANGED <<stored, archive, rows, best, rsStatus, rsCands>>

(* Some directories are gone; or all, and the jsonl file is cut; or both    *)
(* are clean and progressive_state.json is cut.                             *)
CrashInCleanup ==
  /\ ProcessLost
  /\ pc = "resume"
  /\ \E s \in 1 .. Iterations + 1 :
       /\ IsResumeStart(cands, s)
       /\ \/ /\ \E left \in SUBSET (s .. Iterations) :
                  archive' = [i \in 1 .. Iterations |->
                                IF i >= s /\ i \notin left THEN NoSource
                                ELSE archive[i]]
             /\ UNCHANGED <<rows, prog>>
          \/ /\ archive' = CleanArchive(s)
             /\ \E cut \in 0 .. s - 1 : \E n \in 0 .. rows[cut] :
                  rows' = [[i \in 0 .. Iterations |->
                              IF i < cut THEN rows[i] ELSE 0]
                           EXCEPT ![cut] = n]
             /\ UNCHANGED prog
          \/ /\ archive' = CleanArchive(s)
             /\ rows' = CleanRows(s)
             /\ Policy \in StatefulPolicies
             /\ prog' = TornProgressiveState
  /\ UNCHANGED <<stored, best, rsStatus, rsCands>>

Launch == LaunchFresh \/ LaunchBaseline \/ LaunchResume

Step ==
  \/ EvaluateSeed \/ RecordSeed \/ CommitSeeds
  \/ Resume \/ SaveBest
  \/ StartIteration
  \/ ProposerRejected \/ ProposerFailed \/ Propose
  \/ RejectCandidate \/ ReuseResult \/ EvaluateCandidate
  \/ RecordCandidate \/ AppendRow \/ CommitIteration
  \/ FinishIteration \/ UpdateState \/ Complete

Finished == pc = "done" /\ UNCHANGED vars

Next ==
  \/ Launch \/ Step
  \/ Crash \/ CrashInResultWrite \/ CrashInRecord \/ CrashInBestWrite
  \/ CrashInStateWrite \/ CrashInCleanup
  \/ Finished

(* The process runs on, and whoever started the run starts it again. *)
Fairness == WF_vars(Launch \/ Step)

Spec == Init /\ [][Next]_vars /\ Fairness

-----------------------------------------------------------------------------
(* Properties *)

(* A stored result was measured on the source archived for its iteration:   *)
(* proposer_calls/iter_NNN/source_snapshot and candidate_results/ never     *)
(* drift apart, whatever crashed, was cleaned or was rerun in between.      *)
SourceMatchesResult ==
  \A c \in stored : ~IsSeed(c) => archive[c.it] = c.src

(* No iteration leaves two results behind, whatever names the proposer      *)
(* gives its candidates before and after a crash.                           *)
OnePerIteration ==
  \A c, d \in stored : c.it = d.it /\ ~IsSeed(c) => c = d

(* What the loop ranks is what the disk holds: every stored result, with    *)
(* none of the running iteration and none of a crashed one.                 *)
MemoryIsDisk ==
  pc \in {"loop", "propose", "evaluate", "done"} =>
    /\ cands = stored
    /\ \A c \in stored : c.it < iter

(* The proposer never runs again at or below an iteration whose result is   *)
(* stored: --resume continues after the last completed iteration.           *)
NeverRerunCompleted == pc = "propose" => \A c \in stored : c.it < iter

(* The patch base is an earlier, completed iteration that strictly beats    *)
(* every seed on disk, and its archived source is the one that was scored.  *)
BaseSound ==
  base # 0 =>
    \E c \in stored : /\ c.it = base
                      /\ base < iter
                      /\ archive[base] = c.src
                      /\ \A d \in stored : IsSeed(d) => d.rate < c.rate

(* Under pareto, the stagnation count the loop reads is the distance to the *)
(* last iteration whose stored result raised the best passrate, whether the *)
(* count was stepped iteration by iteration or rebuilt after crashes.       *)
StagnationExact ==
  pc = "loop" /\ Policy = "pareto" =>
    /\ IsLastImproved(stored, prog.lastImproved)
    /\ prog.stagnation = iter - 1 - prog.lastImproved

(* While an iteration runs, best_candidates.json is the frontier of all     *)
(* that earlier iterations stored, with nothing lost in a restart.          *)
PublishedFrontier ==
  pc \in {"loop", "propose", "evaluate", "record", "row", "commit"} =>
    best = QualityFrontier({c \in stored : c.it < iter})

(* The indexes never run ahead of candidate_results/: a store row names a   *)
(* result on disk, an iteration the store calls recorded has a result, one  *)
(* it calls committed has its store row, and so has a summary row.          *)
IndexesFollowResults ==
  /\ rsCands \subseteq stored
  /\ \A i \in 1 .. Iterations :
       /\ rsStatus[i] \in {"recorded", "committed"} =>
            \E c \in stored : c.it = i
       /\ rsStatus[i] = "committed" \/ rows[i] = 1 =>
            \E c \in rsCands : c.it = i
       /\ rows[i] <= 1

(* Every result on disk has its RunStore row and its summary row once the   *)
(* loop goes on.                                                            *)
EveryResultRecorded ==
  pc = "loop" => \A c \in stored : c \in rsCands /\ rows[c.it] > 0

(* What the process ranks is on disk, or in the baseline directory, as it   *)
(* ranks it: no result it counts was lost or scored again since.            *)
RankedResultsOnDisk == cands \subseteq stored \cup Baseline

(* A seed is scored once for all launches: the floor that candidates have   *)
(* to beat does not move between them.                                      *)
SeedsKept == [][\A c \in stored : IsSeed(c) => c \in stored']_vars

(* What a launch from scratch in an old directory finds there stays valid.  *)
RelaunchSound == SeedsKept /\ []RankedResultsOnDisk

(* Of the policies that read the frontier, the iterations that advanced.    *)
LastJoined(S) ==
  LET joined == {c.it : c \in {d \in S : /\ ~IsSeed(d)
                                         /\ d \in QualityFrontier(
                                              {e \in S : e.it <= d.it})}}
  IN  IF joined = {} THEN 0
      ELSE CHOOSE i \in joined : \A j \in joined : j <= i

(* Under progressive and curaii the stagnation count of a run that was not  *)
(* interrupted is the distance to the last iteration whose stored candidate *)
(* joined the frontier.                                                     *)
StreakIsTrue ==
  pc = "loop" /\ Policy \in {"progressive", "curaii"} /\ crashes = 0 =>
    prog.stagnation = iter - 1 - LastJoined(stored)

(* The budget that streak earns: one rung up for every iteration after the  *)
(* warm-up that did not advance.                                            *)
Rung == [b \in Budgets |-> CASE b = "low"    -> 0
                             [] b = "medium" -> 1
                             [] b = "high"   -> 2]

EarnedRung ==
  LET idle == Cardinality({i \in 1 .. iter - 1 :
                             i >= InitialLow /\ i > LastJoined(stored)})
  IN  IF iter <= InitialLow THEN 0 ELSE IF idle < 2 THEN idle ELSE 2

(* Without crashes, an iteration gets exactly the budget its streak earns.  *)
BudgetFollowsStreak ==
  pc = "propose" /\ Policy \in {"progressive", "curaii"} /\ crashes = 0 =>
    Rung[budget] = EarnedRung

(* After a relaunch whose last completed iteration did not advance, it gets *)
(* no more context than its streak earns, even if iterations that left no   *)
(* row cycled the budget before the crash.                                  *)
NotPenalised ==
  /\ pc = "propose"
  /\ Policy \in {"progressive", "curaii"}
  /\ resuming
  /\ LastJoined(stored) < iter - 1
  /\ prog.current # prog.next
  => Rung[budget] <= EarnedRung

(* The stretches of a launch, and the steps of an iteration, in order. *)
Stretch ==
  CASE pc = "down"    -> 0 [] pc = "seed"    -> 1 [] pc = "seedrow" -> 2
    [] pc = "commit0" -> 3 [] pc = "resume"  -> 3 [] pc = "save"    -> 4
    [] pc = "done"    -> 6 [] OTHER          -> 5

Stride ==
  CASE pc = "propose" -> 1 [] pc = "evaluate" -> 2 [] pc = "record" -> 3
    [] pc = "row"     -> 4 [] pc = "commit"   -> 5 [] pc = "finish" -> 6
    [] pc = "state"   -> 7 [] OTHER           -> 0

Place == <<crashes, Stretch, iter, Stride, -Cardinality(todo)>>

SeedTasks == SeedNames \cup {c.name : c \in Baseline}

Places ==
  (0 .. MaxCrashes) \X (0 .. 6) \X (0 .. Iterations + 1) \X (0 .. 7)
    \X (-Cardinality(SeedTasks) .. 0)

(* No step, whatever the proposer returned, and no relaunch, whatever flags *)
(* it is given and whatever it finds in the run directory, sets the run     *)
(* back to where it was: between two crashes there is only so much to do.   *)
MovesOn == [][Precedes(Place, Place')]_vars /\ [](Place \in Places)

(* A run that is started again after every crash ends: it only moves on,    *)
(* and it does not stop before the end.                                     *)
Ends == MovesOn /\ <>(pc = "done")

(* candidate_results/ and best_candidates.json keep the promise of          *)
(* RunLedger over every crash and every relaunch with --resume.             *)
Ledger == INSTANCE RunLedger
            WITH Scored <- Candidate, FrontierOf <- QualityFrontier,
                 ledger <- stored, published <- best

KeepsLedger == Ledger!LedgerSpec

(* proposer_calls/iter_NNN and candidate_results/ keep the promise of       *)
(* SourceLedger: no crash and no resume touches the source of a result, or  *)
(* lets an iteration begin with the source of a lost attempt.               *)
Sourced == INSTANCE SourceLedger
             WITH Last <- Iterations, Snapshots <- Sources, Nothing <- NoSource,
                  source <- archive, scored <- Completed(stored),
                  phase <- IF pc \in {"propose", "evaluate"} THEN pc ELSE "idle",
                  at <- IF pc \in {"propose", "evaluate"} THEN iter ELSE 0

KeepsSources == Sourced!SourceSpec
=============================================================================
