---------------------------- MODULE ContextPolicy ----------------------------
(***************************************************************************)
(* What of the run's history the proposer of an iteration is shown: the    *)
(* context budget, the earlier iterations copied into its workspace as     *)
(* references, the base of state.md and, under the bandit policy, the      *)
(* files it is told to read, which are ranked by a ledger kept in          *)
(* bandit_state.json of what earlier proposers read. The process may crash *)
(* between any two steps, also while it writes that file, and is resumed.  *)
(*                                                                         *)
(* An iteration stores one candidate or none. Scores of files are left     *)
(* out: the ranking among the files that have one is arbitrary.            *)
(***************************************************************************)
EXTENDS Naturals, FiniteSetsExt, SequencesExt

CONSTANTS Policies,     \* the selection policies the run may have
          Forced,       \* values of --force-budget, "" for none
          Iterations,   \* iterations of the run
          MaxRate,      \* passrates are 0..MaxRate
          SeedRate,     \* that of the seed
          Threshold,    \* bandit_stagnation_threshold
          Window,       \* bandit_reward_window
          TopHot, TopWarm,   \* files of the ranking that are hot, and warm
          LowBest, MediumBest,    \* progressive_low_best_count, ..medium..
          LowCap, MediumCap, MaxRefs,  \* bounds on the references
          MaxCrashes    \* bound on the crashes

ASSUME RangesAssumption == Iterations \in Nat /\ MaxRate \in Nat
ASSUME ForcedAssumption == Forced \subseteq {"", "low", "medium", "high"}

VARIABLES policy, forced,   \* the configuration
          pc, iteration,    \* where the run is; "down" after a crash
          stored,           \* candidate_results: iteration -> passrate or None
          dirs,             \* iterations with a directory
          ledger,           \* bandit_state.json, as it can be read
          shown,            \* what the proposer is shown
          access,           \* what it has read and written
          \* history, for the properties:
          counted,          \* iterations that are in the ledger
          seen,             \* what the proposers have read
          lost,             \* was a torn ledger replaced by an empty one?
          crashes

config == <<policy, forced>>
vars == <<policy, forced, pc, iteration, stored, dirs, ledger, shown, access,
          counted, seen, lost, crashes>>

None == MaxRate + 1
Core == [kind |-> "core", of |-> 0]
Generated == [kind |-> "generated", of |-> 0]
Reference(n) == [kind |-> "reference", of |-> n]

EmptyLedger == [torn |-> FALSE, total |-> 0, history |-> <<>>, reads |-> <<>>, policy |-> {}]
Torn == [torn |-> TRUE, total |-> 0, history |-> <<>>, reads |-> <<>>, policy |-> {}]
Nothing == [budget |-> "low", refs |-> {}, hot |-> {}, warm |-> {}, base |-> 0]
NoAccess == [read |-> {}, written |-> {}]

(* _candidate_iterations *)
Completed == {n \in 1..Iterations : stored[n] # None}

FaultAvailable == {n \in 1..iteration - 1 : n \in dirs}

Available == {n \in 1..iteration - 1 : n \in Completed /\ n \in dirs}

(* Some k of S, or all there are. *)
Selections(k, S) == kSubset(Min({k, Cardinality(S)}), S)

(* _candidate_best_rank; the tie-breakers are left open. *)
BestOf(S, k) ==
  {B \in Selections(k, S) :
     \A b \in B, n \in S \ B : stored[b] >= stored[n]}

(* _best_iterations *)
BestIterations(k) == BestOf(Completed, k)

(* _random_reference_iterations *)
RandomReferences == Selections(MaxRefs, Available)

(* _recent_reference_iterations *)
RecentReferences ==
  {R \in RandomReferences : \A r \in R, n \in Available \ R : r > n}

(* _reference_iterations_for_budget *)
ReferencesForBudget(budget) ==
  CASE policy = "recent" -> RecentReferences
    [] policy = "random" -> RandomReferences
    [] policy = "best"   -> BestOf(Available, MaxRefs)
    [] OTHER ->
         CASE budget = "high"   -> {Available}
           [] budget = "medium" -> {B \cap Available : B \in BestIterations(MediumBest)}
           [] budget = "low"    -> {B \cap Available : B \in BestIterations(LowBest)}

(* _bandit_last_improvement_iteration: the seeds do not count. *)
LastImprovement ==
  Max({0} \cup {n \in Completed : /\ stored[n] > 0
                                  /\ \A m \in Completed : m < n => stored[m] < stored[n]})

Stagnated == iteration > LastImprovement + Threshold

(* _load_bandit_state *)
Loaded == IF ledger.torn THEN EmptyLedger ELSE ledger

FaultScored(files) == DOMAIN files \ {Core}

(* The files of the ledger that have a score. *)
Scored(files) == {f \in DOMAIN files \ {Core} : files[f] > 0}

(* The first of the ranked files are hot, the next warm. *)
Rankings(files) ==
  UNION {{[hot |-> h, warm |-> w] : w \in Selections(TopWarm, Scored(files) \ h)} :
           h \in Selections(TopHot, Scored(files))}

(* _iters_from_policy_paths *)
IterationsOf(paths) == {f.of : f \in {g \in paths : g.kind = "reference"}}

(* As many of the ranked as the cap admits, filled up from the best. *)
Filled(ranked, best, cap) ==
  UNION {{first \cup more : more \in Selections(cap - Cardinality(first), best \ first)} :
           first \in Selections(cap, ranked)}

(* _bandit_reference_iterations: what the previous policy ranked, then the  *)
(* best, up to a limit.                                                     *)
BanditReferences(budget) ==
  LET cap == IF budget = "low" THEN LowCap ELSE MediumCap
      ranked == IterationsOf(Loaded.policy) \cap Available
  IN  IF budget = "high" THEN {Available}
      ELSE UNION {Filled(ranked, best \cap Available, cap) :
                    best \in BestIterations(IF budget = "low" THEN 1 ELSE 3)}

BanditBudget ==
  IF forced # "" THEN forced
  ELSE IF iteration = 1 \/ Loaded.reads = <<>> THEN "low"
  ELSE IF Stagnated THEN "high" ELSE "medium"

(* The budget of the other policies; the ladder of the progressive ones is  *)
(* a module of its own.                                                     *)
Budgets ==
  IF forced # "" THEN {forced}
  ELSE CASE policy = "progressive" -> {"low", "medium", "high"}
         [] policy \in {"random", "recent", "best"} -> {"medium"}
         [] OTHER -> {"high"}

(* _state_snapshot_base_iteration: the best of the frontier, the seed when  *)
(* it is better or nothing else is there.                                   *)
StateBases ==
  {b \in {0} \cup (Completed \cap 0..iteration - 1) :
     \A n \in Completed \cap 1..iteration - 1 :
        (IF b = 0 THEN SeedRate ELSE stored[b]) >= stored[n]}

-----------------------------------------------------------------------------
Init ==
  /\ policy \in Policies /\ forced \in Forced
  /\ pc = "next" /\ iteration = 1
  /\ stored = [n \in 1..Iterations |-> None] /\ dirs = {}
  /\ ledger = EmptyLedger /\ shown = Nothing /\ access = NoAccess
  /\ counted = {} /\ seen = {} /\ lost = FALSE /\ crashes = 0

(* _bandit_policy_for_workspace, until bandit_state.json is opened. *)
ChoosePolicy ==
  /\ pc = "next" /\ policy = "bandit" /\ iteration <= Iterations
  /\ \E refs \in IF forced = "" /\ (iteration = 1 \/ Loaded.reads = <<>>) THEN {{}}
                 ELSE BanditReferences(BanditBudget),
        ranking \in Rankings(Loaded.reads), base \in StateBases :
       shown' = [budget |-> BanditBudget, refs |-> refs,
                 hot |-> ranking.hot \cup {Core}, warm |-> ranking.warm, base |-> base]
  /\ lost' = (lost \/ ledger.torn)
  /\ pc' = "policy"
  /\ UNCHANGED <<config, iteration, stored, dirs, ledger, access, counted, seen, crashes>>

(* The policy is kept in the file with the ledger; the directory is made.  *)
WritePolicy ==
  /\ pc = "policy"
  /\ ledger' = [Loaded EXCEPT !.policy = shown.hot \cup shown.warm]
  /\ dirs' = dirs \cup {iteration}
  /\ pc' = "proposing"
  /\ UNCHANGED <<config, iteration, stored, shown, access, counted, seen, lost, crashes>>

(* The other policies. *)
ChooseReferences ==
  /\ pc = "next" /\ policy # "bandit" /\ iteration <= Iterations
  /\ \E budget \in Budgets, base \in StateBases :
       \E refs \in ReferencesForBudget(budget) :
         shown' = [budget |-> budget, refs |-> refs, hot |-> {}, warm |-> {}, base |-> base]
  /\ dirs' = dirs \cup {iteration}
  /\ pc' = "proposing"
  /\ UNCHANGED <<config, iteration, stored, ledger, access, counted, seen, lost, crashes>>

(* The proposer reads some of what its workspace holds and writes a file;   *)
(* a candidate is stored, or none if it failed.                             *)
RunIteration ==
  /\ pc = "proposing"
  /\ \E read \in SUBSET ({Core} \cup {Reference(n) : n \in shown.refs}),
        written \in {{}, {Generated}}, rate \in 0..MaxRate + 1 :
       /\ access' = [read |-> read, written |-> written]
       /\ stored' = [stored EXCEPT ![iteration] = rate]
       /\ seen' = seen \cup read
  /\ pc' = IF policy = "bandit" THEN "update" ELSE "next"
  /\ iteration' = IF policy = "bandit" THEN iteration ELSE iteration + 1
  /\ UNCHANGED <<config, dirs, ledger, shown, counted, lost, crashes>>

-----------------------------------------------------------------------------
(* Is the reward positive? *)
Success ==
  LET rates == SelectSeq(Loaded.history, LAMBDA r : r # None)
      recent == SubSeq(rates, Max({1, Len(rates) - Window + 1}), Len(rates))
      best == Max({SeedRate} \cup {stored[n] : n \in Completed \ {iteration}})
  IN  /\ stored[iteration] # None
      /\ IF Len(recent) < 2 THEN stored[iteration] > best
         ELSE stored[iteration] * Len(recent) > FoldLeft(+, 0, recent)

(* An iteration without success is not counted. *)
FaultUpdated ==
  IF ~Success THEN Loaded
  ELSE [Loaded EXCEPT
          !.total = @ + 1, !.history = Append(@, stored[iteration]),
          !.reads = [f \in DOMAIN @ \cup access.read \cup access.written |->
                       (IF f \in DOMAIN @ THEN @[f] ELSE 0)
                         + (IF f \in access.read THEN 1 ELSE 0)]]

(* _update_bandit_state: a file that was only written is in the ledger,     *)
(* with no reads.                                                           *)
Updated ==
  [Loaded EXCEPT
     !.total = @ + 1, !.history = Append(@, stored[iteration]),
     !.reads = [f \in DOMAIN @ \cup access.read \cup access.written |->
                  (IF f \in DOMAIN @ THEN @[f] ELSE 0)
                    + (IF f \in access.read THEN 1 ELSE 0)]]

UpdateBandit ==
  /\ pc = "update"
  /\ ledger' = Updated
  /\ counted' = IF Updated.total > Loaded.total THEN counted \cup {iteration} ELSE counted
  /\ access' = NoAccess
  /\ pc' = "next" /\ iteration' = iteration + 1
  /\ UNCHANGED <<config, stored, dirs, shown, seen, lost, crashes>>

-----------------------------------------------------------------------------
(* The process dies, possibly with bandit_state.json opened for writing. *)
Crash ==
  /\ crashes < MaxCrashes /\ pc # "down"
  /\ \/ UNCHANGED <<ledger, counted>>
     \/ pc \in {"policy", "update"} /\ ledger' = Torn /\ counted' = {}
  /\ pc' = "down" /\ crashes' = crashes + 1
  /\ shown' = Nothing /\ access' = NoAccess
  /\ UNCHANGED <<config, iteration, stored, dirs, seen, lost>>

(* --resume: _resume_start_iteration and _clean_stale_iteration_artifacts.  *)
Resume ==
  /\ pc = "down"
  /\ iteration' = Max({0} \cup Completed) + 1
  /\ dirs' = {n \in dirs : n < iteration'}
  /\ pc' = "next"
  /\ UNCHANGED <<config, stored, ledger, shown, access, counted, seen, lost, crashes>>

Complete ==
  /\ pc = "next" /\ iteration = Iterations + 1
  /\ UNCHANGED vars

Next == \/ ChoosePolicy \/ WritePolicy \/ ChooseReferences \/ RunIteration
        \/ UpdateBandit \/ Crash \/ Resume \/ Complete

Spec == Init /\ [][Next]_vars

-----------------------------------------------------------------------------
(* What the proposer is shown, and what the ledger remembers that earlier   *)
(* proposers were shown, is the final state of an earlier iteration: one    *)
(* that stored a candidate, so that no resumed run does it again under the  *)
(* same path.                                                               *)
ReferencesFinal ==
  pc # "down" =>
    /\ shown.refs \cup IterationsOf(DOMAIN ledger.reads) \subseteq Completed
    /\ pc = "proposing" => \A n \in shown.refs : n < iteration /\ n \in dirs

(* A file is called hot because a proposer of this run read it, or because  *)
(* it is always shown: never because the proposer only wrote it.            *)
HotWasRead == shown.hot \subseteq seen \cup {Core}

(* A crash costs the bandit the count of at most one finished iteration,    *)
(* unless it tears the file, which costs the whole ledger.                  *)
LostToCrashes ==
  policy = "bandit" /\ ~lost /\ ~ledger.torn =>
    Cardinality({n \in Completed \ counted : n < iteration}) <= crashes
=============================================================================
