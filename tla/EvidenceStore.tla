---------------------------- MODULE EvidenceStore ----------------------------
(***************************************************************************)
(* What the next agent is told about earlier iterations: the trace index   *)
(* traces/index.db and the tables of runstore.db that are derived from it. *)
(* The run loop of OptimizerRun writes them step by step as it goes; every *)
(* action here is one of its actions together with what it does to them.   *)
(*                                                                         *)
(* RunStore.refresh is taken to succeed; the program goes on when it fails.*)
(***************************************************************************)
EXTENDS OptimizerRun

VARIABLES
  hasIndex,   \* does traces/index.db exist?
  index,      \* its iteration_meta
  traced,     \* its traces: the candidates that have them
  storeMeta,  \* RunStore iterations: the columns imported from iteration_meta
  storeBase,  \* RunStore iterations.base_iteration, 0 for NULL
  evals,      \* RunStore eval_results: the candidates that have rows
  linked,     \* ... whose rows name their traces
  outcomes,   \* RunStore proposal_outcomes
  madeFrom    \* history: the base an iteration's candidate was patched from

evidence == <<hasIndex, index, traced, storeMeta, storeBase, evals, linked,
              outcomes, madeFrom>>

tables == <<hasIndex, index, traced, storeBase, evals, madeFrom>>

evars == <<vars, evidence>>

Flags == {"null", "no", "yes"}

MetaRow ==
  [row : BOOLEAN, base : 0 .. Iterations, advanced : Flags, frontier : Flags]

NoRow == [row |-> FALSE, base |-> 0, advanced |-> "null", frontier |-> "null"]

(* An outcome without a row to compare with. *)
NoBase == -1

EvidenceTypeOK ==
  /\ hasIndex \in BOOLEAN
  /\ index \in [0 .. Iterations -> MetaRow]
  /\ traced \subseteq Candidate
  /\ storeMeta \in [0 .. Iterations -> MetaRow]
  /\ storeBase \in [0 .. Iterations -> 0 .. Iterations]
  /\ evals \subseteq Candidate
  /\ linked \subseteq evals
  /\ outcomes \subseteq [of : Candidate, base : 0 .. Iterations \cup {NoBase}]
  /\ madeFrom \in [0 .. Iterations -> 0 .. Iterations]

-----------------------------------------------------------------------------
(* Columns and rows *)

Flag(b) == IF b THEN "yes" ELSE "no"

Coalesce(new, old) == IF new # 0 THEN new ELSE old

(* INSERT OR REPLACE by candidate id. *)
Replaced(T, S) == {c \in T : \A d \in S : ~SameId(c, d)} \cup S

-----------------------------------------------------------------------------
(* Seeded faults, as in OptimizerRun *)

(* A comparison with the latest iteration, whatever the base. *)
FaultComparedWith(i) ==
  LET earlier == {c.it : c \in {d \in rsCands' : d.it < i}}
  IN  {j \in earlier : \A k \in earlier : k <= j}

(* A sync that only sets flags. *)
FaultSynced(S) ==
  IF ~hasIndex THEN index
  ELSE [i \in 0 .. Iterations |->
          IF i \in Completed(QualityFrontier(S))
            THEN [index[i] EXCEPT !.row = TRUE, !.frontier = "yes"]
            ELSE index[i]]

(* An import that keeps the rows it already has. *)
FaultImported ==
  [i \in 0 .. Iterations |->
     IF index'[i].row /\ ~storeMeta[i].row THEN index'[i] ELSE storeMeta[i]]

-----------------------------------------------------------------------------
(* The trace index *)

(* Indexer.materialize_iteration: the rows of the iteration are replaced. *)
Materialized(i, S) ==
  IF S = {} THEN traced ELSE {c \in traced : c.it # i} \cup S

(* Indexer.upsert_iteration_meta as TraceHarness.record_iteration calls it. *)
Recorded(x, i, S, b) ==
  IF S = {} THEN x
  ELSE [x EXCEPT ![i].row = TRUE, ![i].base = Coalesce(b, @)]

(* _sync_pareto_frontier_index and Indexer.refresh_pareto_frontier: a flag  *)
(* for every iteration with a candidate, 0 for every other row.             *)
Synced(S) ==
  IF ~hasIndex \/ Completed(S) = {} THEN index
  ELSE [i \in 0 .. Iterations |->
          IF i \in Completed(S)
            THEN [index[i] EXCEPT
                    !.row = TRUE,
                    !.frontier = Flag(i \in Completed(QualityFrontier(S)))]
            ELSE IF index[i].row THEN [index[i] EXCEPT !.frontier = "no"]
                 ELSE index[i]]

(* The mirror of the advance signal, the last write of an iteration. *)
Mirrored(i, b) ==
  IF ~hasIndex \/ Policy \notin StatefulPolicies THEN index
  ELSE [index EXCEPT ![i].row = TRUE, ![i].advanced = Flag(b)]

-----------------------------------------------------------------------------
(* RunStore.refresh, over the tables as the step leaves them *)

(* The iteration _base_candidate_for_iteration compares with. *)
ComparedWith(i) ==
  LET earlier == {c.it : c \in {d \in rsCands' : d.it < i}}
      b       == Coalesce(storeBase'[i], storeMeta'[i].base)
      chosen  == IF b # 0 THEN {b}
                 ELSE {j \in earlier : \A k \in earlier : k <= j}
  IN  {j \in chosen : \E c \in rsCands' : c.it = j}

(* _rebuild_proposal_outcomes; seeds have no proposal. *)
Outcomes ==
  {[of   |-> c,
    base |-> IF ComparedWith(c.it) = {} THEN NoBase
             ELSE CHOOSE j \in ComparedWith(c.it) : TRUE]
     : c \in {d \in rsCands' : ~IsSeed(d)}}

(* _import_trace_index links every eval row that has a trace. *)
Linked == {c \in evals' : c \in linked \/ \E t \in traced' : SameId(c, t)}

(* ... and takes over every row of iteration_meta. *)
Imported ==
  [i \in 0 .. Iterations |->
     IF index'[i].row THEN index'[i] ELSE storeMeta[i]]

Refresh ==
  /\ storeMeta' = Imported
  /\ linked' = Linked
  /\ outcomes' = Outcomes

-----------------------------------------------------------------------------
(* The run loop with its evidence *)

EInit ==
  /\ Init
  /\ hasIndex = FALSE
  /\ index = [i \in 0 .. Iterations |-> NoRow]
  /\ traced = {}
  /\ storeMeta = [i \in 0 .. Iterations |-> NoRow]
  /\ storeBase = [i \in 0 .. Iterations |-> 0]
  /\ evals = {}
  /\ linked = {}
  /\ outcomes = {}
  /\ madeFrom = [i \in 0 .. Iterations |-> 0]

(* Steps that write none of it. *)
EPlain ==
  /\ Launch \/ EvaluateSeed \/ Resume \/ AppendRow \/ Complete
  /\ UNCHANGED evidence

(* Steps that refresh the store after what they do elsewhere: a proposer    *)
(* call is recorded, a candidate gets its rows.                             *)
ERefreshing ==
  /\ RecordSeed \/ ProposerRejected \/ ProposerFailed \/ Propose
       \/ RecordCandidate
  /\ UNCHANGED tables
  /\ Refresh

(* RunStore.record_eval. *)
EvalRows(S) == Replaced(evals, S)

(* Post-eval of the seeds. *)
ECommitSeeds ==
  /\ CommitSeeds
  /\ hasIndex' = TRUE
  /\ traced' = Materialized(0, cands)
  /\ index' = Recorded(index, 0, cands, 0)
  /\ evals' = EvalRows(cands)
  /\ UNCHANGED <<storeBase, madeFrom>>
  /\ Refresh

ESaveBest ==
  /\ SaveBest
  /\ index' = Synced(cands)
  /\ UNCHANGED <<hasIndex, traced, storeMeta, storeBase, evals, linked,
                 outcomes, madeFrom>>

(* begin_iteration of a base: NULL keeps the value that is there. *)
BegunBase(b) == [storeBase EXCEPT ![iter] = Coalesce(b, @)]

(* begin_iteration, and the refresh that prepares the workspace. *)
EStartIteration ==
  /\ StartIteration
  /\ storeBase' = BegunBase(base')
  /\ UNCHANGED <<hasIndex, index, traced, evals, madeFrom>>
  /\ Refresh

(* The trace harness makes sure of its index even without a candidate. *)
ERejectCandidate ==
  /\ RejectCandidate
  /\ hasIndex' = TRUE
  /\ UNCHANGED <<index, traced, storeBase, evals, madeFrom>>
  /\ Refresh

EScore ==
  /\ ReuseResult \/ EvaluateCandidate
  /\ madeFrom' = [madeFrom EXCEPT ![iter] = base]
  /\ UNCHANGED <<hasIndex, index, traced, storeMeta, storeBase, evals, linked,
                 outcomes>>

(* Traces, iteration_meta, eval rows, commit, refresh. *)
ECommitIteration ==
  /\ CommitIteration
  /\ hasIndex' = TRUE
  /\ traced' = Materialized(iter, evaluated)
  /\ index' = Recorded(index, iter, evaluated, base)
  /\ evals' = EvalRows(evaluated)
  /\ UNCHANGED <<storeBase, madeFrom>>
  /\ Refresh

(* The frontier is saved and mirrored, then run records the iteration once  *)
(* more, without its policy.                                                *)
EFinishIteration ==
  /\ FinishIteration
  /\ hasIndex' = TRUE
  /\ traced' = Materialized(iter, evaluated)
  /\ index' = Recorded(Synced(cands \cup evaluated), iter, evaluated, 0)
  /\ evals' = EvalRows(evaluated)
  /\ UNCHANGED <<storeBase, madeFrom>>
  /\ Refresh

(* The advance signal reaches the index after the last refresh. *)
EUpdateState ==
  /\ UpdateState
  /\ index' = Mirrored(iter, Advanced)
  /\ UNCHANGED <<hasIndex, traced, storeMeta, storeBase, evals, linked,
                 outcomes, madeFrom>>

EStep ==
  \/ EPlain \/ ERefreshing
  \/ ECommitSeeds \/ ESaveBest \/ EStartIteration
  \/ ERejectCandidate \/ EScore
  \/ ECommitIteration \/ EFinishIteration \/ EUpdateState

ECrash ==
  /\ \/ Crash \/ CrashInResultWrite \/ CrashInRecord \/ CrashInBestWrite
     \/ CrashInStateWrite \/ CrashInCleanup
  /\ UNCHANGED evidence

(* A crash within the commit of iteration i: traces, their iteration_meta   *)
(* row and the eval rows are three writes, and the refresh comes after.     *)
CrashInCommit ==
  /\ Crash
  /\ \E w \in {[i |-> 0, S |-> cands, at |-> "commit0"],
               [i |-> iter, S |-> evaluated, at |-> "commit"]} :
       /\ pc = w.at
       /\ traced' = Materialized(w.i, w.S)
       /\ \/ UNCHANGED <<index, evals, linked>>
          \/ /\ index' = Recorded(index, w.i, w.S, base)
             /\ \/ UNCHANGED <<evals, linked>>
                \/ /\ evals' = EvalRows(w.S)
                   /\ linked' = {c \in linked : \A d \in w.S : ~SameId(c, d)}
  /\ hasIndex' = TRUE
  /\ UNCHANGED <<storeMeta, storeBase, outcomes, madeFrom>>

ENext == EStep \/ ECrash \/ CrashInCommit \/ (Finished /\ UNCHANGED evidence)

ESpec == EInit /\ [][ENext]_evars

-----------------------------------------------------------------------------
(* Properties *)

(* The store an agent queries holds every row of the trace index, with the  *)
(* flags that were written after the last refresh of an iteration or of a   *)
(* crashed launch.                                                          *)
AgentSeesIndex == pc = "propose" => storeMeta = index

(* The base the store names for an iteration with a result is the one that  *)
(* result was patched from, although a rerun may draw another base and a    *)
(* missing one does not clear the row.                                      *)
BaseIsRecorded ==
  \A c \in stored : ~IsSeed(c) => storeBase[c.it] = madeFrom[c.it]

(* A proposal is judged against the base it patched, never against another  *)
(* iteration: it has no base only when that base has no store row.          *)
OutcomesCompareBase ==
  \A o \in outcomes :
    madeFrom[o.of.it] # 0 => o.base \in {madeFrom[o.of.it], NoBase}

(* The store names the right base, and judges by it.                        *)
BasesTrue == BaseIsRecorded /\ OutcomesCompareBase

(* No eval row an agent can query is without its trace, wherever a crash    *)
(* cut the writes of an earlier iteration.                                  *)
EvalRowsReachTraces == pc = "propose" => evals \subseteq linked

(* An on_pareto_frontier flag that is set is right when an agent reads it.  *)
FrontierFlagsTrue ==
  pc = "propose" =>
    \A i \in 1 .. Iterations :
      storeMeta[i].frontier # "null" =>
        (storeMeta[i].frontier = "yes"
           <=> \E c \in QualityFrontier(stored) : c.it = i)

(* An iteration the store calls committed has its traces and eval rows.     *)
CommittedHasEvidence ==
  \A i \in 0 .. Iterations :
    rsStatus[i] = "committed" =>
      \E c \in stored : c.it = i /\ c \in traced /\ c \in evals

(* What is evaluated and committed can be looked up, and looks like the     *)
(* index.                                                                   *)
EvidenceReachable == AgentSeesIndex /\ EvalRowsReachTraces /\ CommittedHasEvidence

(* An iteration the index calls an advance did raise the best passrate.     *)
AdvancesTrue ==
  Policy = "pareto" =>
    \A i \in 1 .. Iterations :
      index[i].advanced = "yes" => ImprovedAt(stored, i)

(* ... and one it calls stalled did not: the index and the results agree on *)
(* which iterations advanced.                                               *)
StallsTrue ==
  pc = "propose" /\ Policy = "pareto" =>
    \A i \in 1 .. iter - 1 :
      storeMeta[i].advanced = "no" => ~ImprovedAt(stored, i)
=============================================================================
