-------------------------- MODULE EvidenceStoreProofs --------------------------
(***************************************************************************)
(* Proofs about EvidenceStore: what the trace index and the RunStore tell  *)
(* the next agent, for a run that is only ever started again with --resume.*)
(***************************************************************************)
EXTENDS EvidenceStore, OptimizerRunProofs, WellFoundedInduction

-----------------------------------------------------------------------------
(* A step with evidence is a step of the run *)

RunInv == TypeInv /\ ResultInv /\ Untouched

LEMMA StepOfRun == [ENext]_evars => [Next]_vars
BY DEF ENext, EStep, EPlain, ERefreshing, ECommitSeeds, ESaveBest,
       EStartIteration, ERejectCandidate, EScore, ECommitIteration,
       EFinishIteration, EUpdateState, ECrash, CrashInCommit, evars, Next,
       Step, Launch, Crash

LEMMA RunInvInit == EInit => RunInv
BY TypeInvInit, ResultInvInit DEF EInit, RunInv, Untouched, Init

LEMMA RunInvStep ==
  ASSUME ResumeOnly, RunInv, [ENext]_evars
  PROVE  RunInv' /\ stored \subseteq stored'
BY StepOfRun, TypeStep, ResultInvStep, UntouchedStep, StoredGrows DEF RunInv

LEMMA RunInvariant ==
  ASSUME ResumeOnly
  PROVE  ESpec => []RunInv
BY RunInvInit, RunInvStep, PTL DEF ESpec

(* With its evidence the run is the run of OptimizerRun: no write of traces *)
(* or of derived rows opens or closes a way through the loop, so the ledger *)
(* and the archive of a run keep what they promise.                         *)
THEOREM EvidenceRunKeeps ==
  ASSUME ResumeOnly
  PROVE  ESpec => KeepsLedger /\ KeepsSources
<1>1. EInit => /\ Ledger!LedgerInit /\ Sourced!SourceInit /\ AheadInv
  BY AheadInvInit
  DEF EInit, Init, Ledger!LedgerInit, Sourced!SourceInit, Completed
<1>2. RunInv /\ AheadInv /\ [ENext]_evars => AheadInv'
  BY StepOfRun, AheadInvStep DEF RunInv
<1>3. ESpec => []AheadInv
  BY <1>1, <1>2, RunInvariant, PTL DEF ESpec
<1>4. RunInv /\ [ENext]_evars => [Ledger!LedgerNext]_<<stored, best>>
  BY StepOfRun, LedgerStep DEF RunInv
<1>5. RunInv /\ AheadInv /\ [ENext]_evars =>
        [Sourced!SourceNext]_<<archive, Completed(stored), Phase, At>>
  BY StepOfRun, SourcedStep DEF RunInv
<1>6. ESpec => KeepsLedger
  BY <1>1, <1>4, RunInvariant, PTL DEF ESpec, KeepsLedger, Ledger!LedgerSpec
<1>7. ESpec => KeepsSources
  BY <1>1, <1>3, <1>5, RunInvariant, PTL
  DEF ESpec, KeepsSources, Sourced!SourceSpec, Phase, At
<1> QED
  BY <1>6, <1>7

-----------------------------------------------------------------------------
(* Rows and columns *)

(* A row is never taken away, and what has no row is blank.                 *)
Extends(x, y) ==
  /\ y \in [0 .. Iterations -> MetaRow]
  /\ \A i \in 0 .. Iterations : y[i].row \/ y[i] = x[i]

SameFlags(x, y) ==
  \A i \in 0 .. Iterations :
    y[i].frontier = x[i].frontier /\ y[i].advanced = x[i].advanced

LEMMA NoRowType == NoRow \in MetaRow
BY IterationsAssumption DEF NoRow, MetaRow, Flags

LEMMA FlagType == \A b : Flag(b) \in Flags
BY DEF Flag, Flags

LEMMA BasedRow ==
  ASSUME NEW r \in MetaRow, NEW b \in 0 .. Iterations
  PROVE  LET w == [r EXCEPT !.row = TRUE, !.base = b]
         IN  /\ w \in MetaRow /\ w.row
             /\ w.frontier = r.frontier /\ w.advanced = r.advanced
<1> DEFINE w == [r EXCEPT !.row = TRUE, !.base = b]
<1>1. w \in MetaRow
  BY DEF MetaRow
<1>2. w.row
  BY DEF MetaRow
<1>3. w.frontier = r.frontier
  BY DEF MetaRow
<1>4. w.advanced = r.advanced
  BY DEF MetaRow
<1> QED
  BY <1>1, <1>2, <1>3, <1>4

LEMMA FlaggedRow ==
  ASSUME NEW r \in MetaRow, NEW f \in Flags
  PROVE  LET w == [r EXCEPT !.row = TRUE, !.frontier = f]
         IN  /\ w \in MetaRow /\ w.row
             /\ w.frontier = f /\ w.advanced = r.advanced
<1> DEFINE w == [r EXCEPT !.row = TRUE, !.frontier = f]
<1>1. w \in MetaRow
  BY DEF MetaRow
<1>2. w.row
  BY DEF MetaRow
<1>3. w.frontier = f
  BY DEF MetaRow
<1>4. w.advanced = r.advanced
  BY DEF MetaRow
<1> QED
  BY <1>1, <1>2, <1>3, <1>4

LEMMA AdvancedRow ==
  ASSUME NEW r \in MetaRow, NEW f \in Flags
  PROVE  LET w == [r EXCEPT !.row = TRUE, !.advanced = f]
         IN  /\ w \in MetaRow /\ w.row
             /\ w.frontier = r.frontier /\ w.advanced = f
<1> DEFINE w == [r EXCEPT !.row = TRUE, !.advanced = f]
<1>1. w \in MetaRow
  BY DEF MetaRow
<1>2. w.row
  BY DEF MetaRow
<1>3. w.frontier = r.frontier
  BY DEF MetaRow
<1>4. w.advanced = f
  BY DEF MetaRow
<1> QED
  BY <1>1, <1>2, <1>3, <1>4

LEMMA RecordedExtends ==
  ASSUME NEW x \in [0 .. Iterations -> MetaRow], NEW i \in 0 .. Iterations,
         NEW S, NEW b \in 0 .. Iterations
  PROVE  /\ Extends(x, Recorded(x, i, S, b))
         /\ SameFlags(x, Recorded(x, i, S, b))
<1>1. CASE S = {}
  BY <1>1 DEF Recorded, Extends, SameFlags
<1>2. CASE S # {}
  <2> DEFINE w == [x[i] EXCEPT !.row = TRUE, !.base = Coalesce(b, x[i].base)]
  <2>1. Coalesce(b, x[i].base) \in 0 .. Iterations
    BY DEF Coalesce, MetaRow
  <2>2. Recorded(x, i, S, b) = [x EXCEPT ![i] = w]
    BY <1>2 DEF Recorded
  <2>3. /\ w \in MetaRow /\ w.row
        /\ w.frontier = x[i].frontier /\ w.advanced = x[i].advanced
    BY <2>1, BasedRow
  <2> HIDE DEF w
  <2> QED
    BY <2>2, <2>3 DEF Extends, SameFlags
<1> QED
  BY <1>1, <1>2

LEMMA SyncedExtends ==
  ASSUME index \in [0 .. Iterations -> MetaRow], NEW S
  PROVE  /\ Extends(index, Synced(S))
         /\ \A j \in 0 .. Iterations : Synced(S)[j].advanced = index[j].advanced
         /\ hasIndex /\ Completed(S) # {} =>
              \A j \in 0 .. Iterations :
                Synced(S)[j].frontier =
                  IF j \in Completed(S)
                    THEN Flag(j \in Completed(QualityFrontier(S)))
                    ELSE IF index[j].row THEN "no" ELSE index[j].frontier
<1>1. CASE ~hasIndex \/ Completed(S) = {}
  BY <1>1 DEF Synced, Extends
<1>2. CASE hasIndex /\ Completed(S) # {}
  <2>1. ASSUME NEW j \in 0 .. Iterations
        PROVE  /\ Synced(S)[j] \in MetaRow
               /\ Synced(S)[j].row \/ Synced(S)[j] = index[j]
               /\ Synced(S)[j].advanced = index[j].advanced
               /\ Synced(S)[j].frontier =
                    IF j \in Completed(S)
                      THEN Flag(j \in Completed(QualityFrontier(S)))
                      ELSE IF index[j].row THEN "no" ELSE index[j].frontier
    <3> DEFINE f == Flag(j \in Completed(QualityFrontier(S)))
               w == [index[j] EXCEPT !.row = TRUE, !.frontier = f]
               v == [index[j] EXCEPT !.frontier = "no"]
    <3>1. index[j] \in MetaRow /\ f \in Flags
      BY FlagType
    <3>2. CASE j \in Completed(S)
      <4>1. Synced(S)[j] = w
        BY <1>2, <3>2 DEF Synced
      <4> HIDE DEF f
      <4>2. /\ w \in MetaRow /\ w.row
            /\ w.frontier = f /\ w.advanced = index[j].advanced
        BY <3>1, FlaggedRow
      <4> HIDE DEF w
      <4> QED
        BY <3>2, <4>1, <4>2 DEF f
    <3>3. CASE j \notin Completed(S)
      <4>1. Synced(S)[j] = IF index[j].row THEN v ELSE index[j]
        BY <1>2, <3>3 DEF Synced
      <4>2. /\ v \in MetaRow /\ v.row = index[j].row
            /\ v.frontier = "no" /\ v.advanced = index[j].advanced
        BY <3>1 DEF MetaRow, Flags
      <4> HIDE DEF v
      <4> QED
        BY <3>1, <3>3, <4>1, <4>2
    <3> QED
      BY <3>2, <3>3
  <2>2. Synced(S) \in [0 .. Iterations -> MetaRow]
    <3>1. Synced(S) = [j \in 0 .. Iterations |-> Synced(S)[j]]
      BY <1>2 DEF Synced
    <3> QED
      BY <2>1, <3>1
  <2> QED
    BY <2>1, <2>2 DEF Extends
<1> QED
  BY <1>1, <1>2

LEMMA MirroredExtends ==
  ASSUME index \in [0 .. Iterations -> MetaRow], NEW i \in 0 .. Iterations,
         NEW b \in BOOLEAN
  PROVE  /\ Extends(index, Mirrored(i, b))
         /\ \A j \in 0 .. Iterations :
              /\ Mirrored(i, b)[j].frontier = index[j].frontier
              /\ Mirrored(i, b)[j].advanced = "yes" =>
                   \/ index[j].advanced = "yes"
                   \/ j = i /\ b
<1>1. CASE ~hasIndex \/ Policy \notin StatefulPolicies
  BY <1>1 DEF Mirrored, Extends
<1>2. CASE ~(~hasIndex \/ Policy \notin StatefulPolicies)
  <2> DEFINE w == [index[i] EXCEPT !.row = TRUE, !.advanced = Flag(b)]
  <2>1. Mirrored(i, b) = [index EXCEPT ![i] = w]
    BY <1>2 DEF Mirrored
  <2>2. /\ w \in MetaRow /\ w.row
        /\ w.frontier = index[i].frontier /\ w.advanced = Flag(b)
    <3>1. index[i] \in MetaRow /\ Flag(b) \in Flags
      BY FlagType
    <3> QED
      BY <3>1, AdvancedRow
  <2>3. Flag(b) = "yes" => b
    BY DEF Flag
  <2> HIDE DEF w
  <2> QED
    BY <2>1, <2>2, <2>3 DEF Extends
<1> QED
  BY <1>1, <1>2

(* Evidence of the results of one iteration is only ever added.             *)
LEMMA OwnRows ==
  ASSUME NEW i, NEW S \in SUBSET stored, traced \subseteq stored, evals \subseteq stored,
         S = {} \/ \A c \in stored : c.it = i => c \in S,
         \A c \in S : c.it = i
  PROVE  /\ Materialized(i, S) = traced \cup S
         /\ EvalRows(S) = evals \cup S
<1>1. Materialized(i, S) = traced \cup S
  BY DEF Materialized
<1>2. EvalRows(S) = evals \cup S
  BY DEF EvalRows, Replaced, SameId
<1> QED
  BY <1>1, <1>2

-----------------------------------------------------------------------------
(* What is indexed is shown                                                 *)

IndexShown ==
  /\ index \in [0 .. Iterations -> MetaRow]
  /\ storeMeta \in [0 .. Iterations -> MetaRow]
  /\ \A i \in 0 .. Iterations :
       index[i].row \/ (index[i] = NoRow /\ storeMeta[i] = NoRow)
  /\ AgentSeesIndex

LEMMA IndexGrows ==
  ASSUME TypeInv, index \in [0 .. Iterations -> MetaRow], [ENext]_evars
  PROVE  Extends(index, index')
<1>0. /\ ProcessTypeOK /\ Positions
      /\ Extends(index, index)
  BY DEF TypeInv, TypeOK, Extends
<1>1. CASE EPlain \/ ECrash \/ (Finished /\ UNCHANGED evidence) \/ UNCHANGED evars
  BY <1>0, <1>1 DEF EPlain, ECrash, evidence, evars
<1>2. CASE ERefreshing \/ EStartIteration \/ ERejectCandidate \/ EScore
  BY <1>0, <1>2
  DEF ERefreshing, EStartIteration, ERejectCandidate, EScore, tables
<1>3. CASE ECommitSeeds
  <2>1. index' = Recorded(index, 0, cands, 0) /\ 0 \in 0 .. Iterations
    BY <1>3, IterationsAssumption DEF ECommitSeeds
  <2> QED
    BY <2>1, RecordedExtends
<1>4. CASE ESaveBest
  BY <1>4, SyncedExtends DEF ESaveBest
<1>5. CASE ECommitIteration
  <2>1. /\ index' = Recorded(index, iter, evaluated, base)
        /\ iter \in 0 .. Iterations /\ base \in 0 .. Iterations
    BY <1>0, <1>5
    DEF ECommitIteration, CommitIteration, Positions, InIteration, ProcessTypeOK
  <2> QED
    BY <2>1, RecordedExtends
<1>6. CASE EFinishIteration
  <2> DEFINE x == Synced(cands \cup evaluated)
  <2>1. /\ index' = Recorded(x, iter, evaluated, 0)
        /\ iter \in 0 .. Iterations /\ 0 \in 0 .. Iterations
    BY <1>0, <1>6, IterationsAssumption
    DEF EFinishIteration, FinishIteration, Positions, InIteration
  <2>2. Extends(index, x)
    BY SyncedExtends
  <2> HIDE DEF x
  <2>3. x \in [0 .. Iterations -> MetaRow]
    BY <2>2 DEF Extends
  <2>4. Extends(x, index')
    BY <2>1, <2>3, RecordedExtends
  <2> QED
    BY <2>2, <2>4 DEF Extends
<1>7. CASE EUpdateState
  <2>1. index' = Mirrored(iter, Advanced) /\ iter \in 0 .. Iterations
    BY <1>0, <1>7 DEF EUpdateState, UpdateState, Positions, InIteration
  <2>2. Advanced \in BOOLEAN
    BY DEF Advanced
  <2> QED
    BY <2>1, <2>2, MirroredExtends
<1>8. CASE CrashInCommit
  <2>1. PICK w \in {[i |-> 0, S |-> cands, at |-> "commit0"],
                    [i |-> iter, S |-> evaluated, at |-> "commit"]} :
          /\ pc = w.at
          /\ index' = index \/ index' = Recorded(index, w.i, w.S, base)
    BY <1>8 DEF CrashInCommit
  <2>2. w.i \in 0 .. Iterations /\ base \in 0 .. Iterations
    BY <1>0, <2>1, IterationsAssumption
    DEF Positions, InIteration, ProcessTypeOK
  <2> QED
    BY <1>0, <2>1, <2>2, RecordedExtends
<1> QED
  BY <1>1, <1>2, <1>3, <1>4, <1>5, <1>6, <1>7, <1>8 DEF ENext, EStep

LEMMA StoreImports ==
  ASSUME [ENext]_evars
  PROVE  /\ storeMeta' = storeMeta \/ storeMeta' = Imported
         /\ pc' = "propose" =>
              \/ UNCHANGED <<pc, index, storeMeta>>
              \/ storeMeta' = Imported
<1>1. CASE EPlain
  BY <1>1
  DEF EPlain, evidence, Launch, LaunchFresh, LaunchBaseline, LaunchResume,
      EvaluateSeed, Resume, AppendRow, Complete
<1>2. CASE ECrash \/ CrashInCommit
  BY <1>2
  DEF ECrash, CrashInCommit, evidence, Crash, CrashInResultWrite,
      CrashInRecord, CrashInBestWrite, CrashInStateWrite, CrashInCleanup,
      ProcessLost
<1>3. CASE \/ ERefreshing \/ EStartIteration \/ ERejectCandidate
           \/ ECommitSeeds \/ ECommitIteration \/ EFinishIteration
  BY <1>3
  DEF ERefreshing, EStartIteration, ERejectCandidate, ECommitSeeds,
      ECommitIteration, EFinishIteration, Refresh
<1>4. CASE ESaveBest \/ EScore \/ EUpdateState
  BY <1>4
  DEF ESaveBest, EScore, EUpdateState, SaveBest, ReuseResult,
      EvaluateCandidate, UpdateState
<1>5. CASE (Finished /\ UNCHANGED evidence) \/ UNCHANGED evars
  BY <1>5 DEF Finished, evidence, evars, vars, process
<1> QED
  BY <1>1, <1>2, <1>3, <1>4, <1>5 DEF ENext, EStep

LEMMA ImportedType ==
  ASSUME EvidenceTypeOK, index' \in [0 .. Iterations -> MetaRow]
  PROVE  Imported \in [0 .. Iterations -> MetaRow]
BY DEF EvidenceTypeOK, Imported

LEMMA RowsType ==
  ASSUME EvidenceTypeOK, NEW i, NEW S \in SUBSET Candidate
  PROVE  /\ Materialized(i, S) \subseteq Candidate
         /\ EvalRows(S) \subseteq Candidate
         /\ {c \in linked : \A d \in S : ~SameId(c, d)} \subseteq EvalRows(S)
BY DEF EvidenceTypeOK, Materialized, EvalRows, Replaced

LEMMA OutcomesType ==
  ASSUME FilesTypeOK'
  PROVE  Outcomes \subseteq [of : Candidate, base : 0 .. Iterations \cup {NoBase}]
<1>1. rsCands' \subseteq Candidate
  BY DEF FilesTypeOK
<1>2. ASSUME NEW i, ComparedWith(i) # {}
      PROVE  (CHOOSE j \in ComparedWith(i) : TRUE) \in 0 .. Iterations
  <2>1. \A j \in ComparedWith(i) : \E c \in rsCands' : c.it = j
    BY DEF ComparedWith
  <2>2. \A j \in ComparedWith(i) : j \in 0 .. Iterations
    BY <1>1, <2>1 DEF Candidate
  <2> QED
    BY <1>2, <2>2
<1>3. ASSUME NEW c \in rsCands'
      PROVE  [of |-> c, base |-> IF ComparedWith(c.it) = {} THEN NoBase
                                 ELSE CHOOSE j \in ComparedWith(c.it) : TRUE]
               \in [of : Candidate, base : 0 .. Iterations \cup {NoBase}]
  BY <1>1, <1>2
<1> QED
  BY <1>3 DEF Outcomes

LEMMA RefreshType ==
  ASSUME EvidenceTypeOK, FilesTypeOK', index' \in [0 .. Iterations -> MetaRow],
         Refresh
  PROVE  /\ storeMeta' \in [0 .. Iterations -> MetaRow]
         /\ linked' \subseteq evals'
         /\ outcomes' \subseteq [of : Candidate, base : 0 .. Iterations \cup {NoBase}]
BY ImportedType, OutcomesType DEF Refresh, Linked

LEMMA EvidenceTypeStep ==
  ASSUME TypeInv, EvidenceTypeOK, [ENext]_evars
  PROVE  EvidenceTypeOK'
<1>0. /\ FilesTypeOK /\ ProcessTypeOK /\ Positions
      /\ index \in [0 .. Iterations -> MetaRow]
      /\ FilesTypeOK' /\ ProcessTypeOK'
      /\ \A S \in {cands, evaluated} : S \in SUBSET Candidate
  BY StepOfRun, TypeStep DEF TypeInv, TypeOK, EvidenceTypeOK, ProcessTypeOK
<1>1. index' \in [0 .. Iterations -> MetaRow]
  BY <1>0, IndexGrows DEF Extends
<1>2. CASE EPlain \/ ECrash \/ (Finished /\ UNCHANGED evidence) \/ UNCHANGED evars
  BY <1>2 DEF EPlain, ECrash, evidence, evars, EvidenceTypeOK
<1>3. CASE ERefreshing
  BY <1>0, <1>1, <1>3, RefreshType DEF ERefreshing, tables, EvidenceTypeOK
<1>4. CASE ECommitSeeds \/ ECommitIteration \/ EFinishIteration
  <2>1. PICK i \in {0, iter}, S \in {cands, evaluated} :
          traced' = Materialized(i, S) /\ evals' = EvalRows(S)
    BY <1>4 DEF ECommitSeeds, ECommitIteration, EFinishIteration
  <2>2. traced' \subseteq Candidate /\ evals' \subseteq Candidate
    BY <1>0, <2>1, RowsType
  <2>3. Refresh /\ hasIndex' = TRUE /\ storeBase' = storeBase /\ madeFrom' = madeFrom
    BY <1>4 DEF ECommitSeeds, ECommitIteration, EFinishIteration
  <2> QED
    BY <1>0, <1>1, <2>2, <2>3, RefreshType DEF EvidenceTypeOK
<1>5. CASE ESaveBest \/ EUpdateState
  BY <1>1, <1>5 DEF ESaveBest, EUpdateState, EvidenceTypeOK
<1>6. CASE EStartIteration
  <2>1. base' \in 0 .. Iterations
    BY <1>0 DEF ProcessTypeOK
  <2>2. storeBase' \in [0 .. Iterations -> 0 .. Iterations]
    BY <1>6, <2>1 DEF EStartIteration, BegunBase, Coalesce, EvidenceTypeOK
  <2> QED
    BY <1>0, <1>1, <1>6, <2>2, RefreshType DEF EStartIteration, EvidenceTypeOK
<1>7. CASE ERejectCandidate
  BY <1>0, <1>1, <1>7, RefreshType DEF ERejectCandidate, EvidenceTypeOK
<1>8. CASE EScore
  <2>1. madeFrom' \in [0 .. Iterations -> 0 .. Iterations]
    BY <1>0, <1>8 DEF EScore, EvidenceTypeOK, ProcessTypeOK
  <2> QED
    BY <1>8, <2>1 DEF EScore, EvidenceTypeOK
<1>9. CASE CrashInCommit
  <2>1. PICK i \in {0, iter}, S \in {cands, evaluated} :
          /\ traced' = Materialized(i, S)
          /\ \/ UNCHANGED <<evals, linked>>
             \/ /\ evals' = EvalRows(S)
                /\ linked' = {c \in linked : \A d \in S : ~SameId(c, d)}
    BY <1>9 DEF CrashInCommit
  <2>2. /\ traced' \subseteq Candidate /\ evals' \subseteq Candidate
        /\ linked' \subseteq evals'
    BY <1>0, <2>1, RowsType DEF EvidenceTypeOK
  <2>3. /\ hasIndex' = TRUE /\ storeMeta' = storeMeta /\ storeBase' = storeBase
        /\ outcomes' = outcomes /\ madeFrom' = madeFrom
    BY <1>9 DEF CrashInCommit
  <2> QED
    BY <1>1, <2>2, <2>3 DEF EvidenceTypeOK
<1> QED
  BY <1>2, <1>3, <1>4, <1>5, <1>6, <1>7, <1>8, <1>9 DEF ENext, EStep

(* The trace index and the derived tables keep their types, however a run   *)
(* is started again: no relaunch leaves a link to a row that is gone.       *)
THEOREM EvidenceTypeCorrect == ESpec => []EvidenceTypeOK
<1>1. EInit => TypeInv /\ EvidenceTypeOK
  <2>1. SUFFICES ASSUME EInit PROVE EvidenceTypeOK
    BY TypeInvInit DEF EInit
  <2>2. 0 \in 0 .. Iterations
    BY IterationsAssumption
  <2>3. /\ index \in [0 .. Iterations -> MetaRow]
        /\ storeMeta \in [0 .. Iterations -> MetaRow]
    BY <2>1, NoRowType DEF EInit
  <2>4. /\ storeBase \in [0 .. Iterations -> 0 .. Iterations]
        /\ madeFrom \in [0 .. Iterations -> 0 .. Iterations]
    BY <2>1, <2>2 DEF EInit
  <2> QED
    BY <2>1, <2>3, <2>4 DEF EInit, EvidenceTypeOK
<1>2. TypeInv /\ EvidenceTypeOK /\ [ENext]_evars => (TypeInv /\ EvidenceTypeOK)'
  BY StepOfRun, TypeStep, EvidenceTypeStep
<1> QED
  BY <1>1, <1>2, PTL DEF ESpec

LEMMA IndexShownStep ==
  ASSUME RunInv, IndexShown, [ENext]_evars
  PROVE  IndexShown'
<1> USE DEF IndexShown
<1>1. Extends(index, index')
  BY IndexGrows DEF RunInv
<1>2. /\ Imported \in [0 .. Iterations -> MetaRow]
      /\ \A i \in 0 .. Iterations :
           Imported[i] = IF index'[i].row THEN index'[i] ELSE storeMeta[i]
  BY <1>1 DEF Imported, Extends
<1>3. Imported = index'
  <2>1. \A i \in 0 .. Iterations : Imported[i] = index'[i]
    BY <1>1, <1>2 DEF Extends
  <2>2. index' = [i \in 0 .. Iterations |-> index'[i]]
    BY <1>1 DEF Extends
  <2>3. Imported = [i \in 0 .. Iterations |-> Imported[i]]
    BY <1>2
  <2> QED
    BY <2>1, <2>2, <2>3
<1>4. \A i \in 0 .. Iterations :
        index'[i].row \/ (index'[i] = NoRow /\ storeMeta'[i] = NoRow)
  BY <1>1, <1>2, <1>3, StoreImports DEF Extends
<1>5. AgentSeesIndex'
  BY <1>3, StoreImports DEF AgentSeesIndex
<1> QED
  BY <1>1, <1>2, <1>4, <1>5, StoreImports DEF Extends

-----------------------------------------------------------------------------
(* What is committed can be looked up                                       *)

EvidenceRows ==
  /\ traced \subseteq stored
  /\ evals \subseteq stored
  /\ evals \subseteq linked \cup traced
  /\ EvalRowsReachTraces
  /\ CommittedHasEvidence

(* The two commits and the last record hand over all results of an          *)
(* iteration.                                                               *)
LEMMA OwnResults ==
  ASSUME RunInv
  PROVE  /\ pc = "commit0" =>
              cands = stored /\ stored # {} /\ \A c \in stored : c.it = 0
         /\ pc \in {"commit", "finish"} =>
              /\ evaluated \subseteq stored
              /\ \A c \in evaluated : c.it = iter
              /\ \/ evaluated = {}
                 \/ \A c \in stored : c.it = iter => c \in evaluated
         /\ pc = "commit" => evaluated # {}
<1>0. /\ Phases /\ Untouched
      /\ iter \in Int
      /\ \A c \in cands : c.it \in Int
  BY IterationsAssumption
  DEF RunInv, ResultInv, TypeInv, TypeOK, ProcessTypeOK, Candidate
<1>1. pc = "commit0" => cands = stored /\ stored # {} /\ \A c \in stored : c.it = 0
  BY <1>0 DEF Phases, Untouched, IsSeed
<1>2. ASSUME NewResult
      PROVE  /\ evaluated \subseteq stored /\ evaluated # {}
             /\ \A c \in evaluated : c.it = iter
             /\ \A c \in stored : c.it = iter => c \in evaluated
  BY <1>0, <1>2 DEF NewResult
<1>3. NoResult => evaluated = {}
  BY DEF NoResult
<1> QED
  BY <1>0, <1>1, <1>2, <1>3 DEF Phases

RowsGrow ==
  /\ traced \subseteq traced' /\ traced' \subseteq stored'
  /\ evals \subseteq evals' /\ evals' \subseteq stored'
  /\ evals' \subseteq linked' \cup traced'

LEMMA RowsGrowStep ==
  ASSUME ResumeOnly, RunInv, EvidenceRows, [ENext]_evars
  PROVE  RowsGrow
<1> USE DEF EvidenceRows
<1>0. stored \subseteq stored'
  BY RunInvStep
<1>1. CASE UNCHANGED <<traced, evals, linked>>
  BY <1>0, <1>1 DEF RowsGrow
<1>2. CASE UNCHANGED <<traced, evals>> /\ linked' = Linked
  BY <1>0, <1>2 DEF RowsGrow, Linked, SameId
<1>3. ASSUME NEW i, NEW S \in SUBSET stored,
             S = {} \/ \A c \in stored : c.it = i => c \in S,
             \A c \in S : c.it = i,
             traced' = Materialized(i, S),
             \/ UNCHANGED <<evals, linked>>
             \/ /\ evals' = EvalRows(S)
                /\ linked' = {c \in linked : \A d \in S : ~SameId(c, d)}
             \/ evals' = EvalRows(S) /\ linked' = Linked
      PROVE  RowsGrow
  <2>1. traced' = traced \cup S /\ EvalRows(S) = evals \cup S
    BY <1>3, OwnRows
  <2> QED
    BY <1>0, <1>3, <2>1 DEF RowsGrow, Linked, SameId
<1>4. CASE EPlain \/ ECrash \/ (Finished /\ UNCHANGED evidence) \/ UNCHANGED evars
  BY <1>1, <1>4 DEF EPlain, ECrash, evidence, evars
<1>5. CASE ERefreshing \/ EStartIteration \/ ERejectCandidate
  BY <1>2, <1>5
  DEF ERefreshing, EStartIteration, ERejectCandidate, tables, Refresh
<1>6. CASE ESaveBest \/ EScore \/ EUpdateState
  BY <1>1, <1>6 DEF ESaveBest, EScore, EUpdateState
<1>7. CASE ECommitSeeds
  <2>1. /\ traced' = Materialized(0, cands)
        /\ evals' = EvalRows(cands) /\ linked' = Linked
        /\ pc = "commit0"
    BY <1>7 DEF ECommitSeeds, CommitSeeds, Refresh
  <2> QED
    BY <1>3, <2>1, OwnResults
<1>8. CASE ECommitIteration \/ EFinishIteration
  <2>1. /\ traced' = Materialized(iter, evaluated)
        /\ evals' = EvalRows(evaluated) /\ linked' = Linked
        /\ pc \in {"commit", "finish"}
    BY <1>8
    DEF ECommitIteration, EFinishIteration, CommitIteration, FinishIteration,
        Refresh
  <2> QED
    BY <1>3, <2>1, OwnResults
<1>9. CASE CrashInCommit
  <2>1. PICK w \in {[i |-> 0, S |-> cands, at |-> "commit0"],
                    [i |-> iter, S |-> evaluated, at |-> "commit"]} :
          /\ pc = w.at
          /\ traced' = Materialized(w.i, w.S)
          /\ \/ UNCHANGED <<evals, linked>>
             \/ /\ evals' = EvalRows(w.S)
                /\ linked' = {c \in linked : \A d \in w.S : ~SameId(c, d)}
    BY <1>9 DEF CrashInCommit
  <2>2. CASE w = [i |-> 0, S |-> cands, at |-> "commit0"]
    BY <1>3, <2>1, <2>2, OwnResults
  <2>3. CASE w = [i |-> iter, S |-> evaluated, at |-> "commit"]
    BY <1>3, <2>1, <2>3, OwnResults
  <2> QED
    BY <2>1, <2>2, <2>3
<1> QED
  BY <1>4, <1>5, <1>6, <1>7, <1>8, <1>9 DEF ENext, EStep

LEMMA LinkedBeforeAgent ==
  ASSUME [ENext]_evars, pc' = "propose"
  PROVE  \/ UNCHANGED <<pc, evals, linked>>
         \/ UNCHANGED <<evals, traced>> /\ linked' = Linked
<1>1. CASE EPlain
  BY <1>1
  DEF EPlain, evidence, Launch, LaunchFresh, LaunchBaseline, LaunchResume,
      EvaluateSeed, Resume, AppendRow, Complete
<1>2. CASE ECrash \/ CrashInCommit
  BY <1>2
  DEF ECrash, CrashInCommit, Crash, CrashInResultWrite, CrashInRecord,
      CrashInBestWrite, CrashInStateWrite, CrashInCleanup, ProcessLost
<1>3. CASE ERefreshing \/ EStartIteration \/ ERejectCandidate
  BY <1>3
  DEF ERefreshing, EStartIteration, ERejectCandidate, tables, Refresh
<1>4. CASE ESaveBest \/ EScore \/ EUpdateState \/ ECommitSeeds
  BY <1>4
  DEF ESaveBest, EScore, EUpdateState, ECommitSeeds, SaveBest, ReuseResult,
      EvaluateCandidate, UpdateState, CommitSeeds
<1>5. CASE ECommitIteration \/ EFinishIteration
  BY <1>5
  DEF ECommitIteration, EFinishIteration, CommitIteration, FinishIteration
<1>6. CASE (Finished /\ UNCHANGED evidence) \/ UNCHANGED evars
  BY <1>6 DEF Finished, evidence, evars, vars, process
<1> QED
  BY <1>1, <1>2, <1>3, <1>4, <1>5, <1>6 DEF ENext, EStep

(* Only the commits call an iteration committed.                            *)
LEMMA CommitsCommit ==
  ASSUME RunInv, [ENext]_evars,
         NEW i \in 0 .. Iterations, rsStatus'[i] = "committed",
         rsStatus[i] # "committed"
  PROVE  (ECommitSeeds /\ i = 0) \/ (ECommitIteration /\ i = iter)
<1>0. rsStatus \in [0 .. Iterations -> Statuses]
  BY DEF RunInv, TypeInv, TypeOK, FilesTypeOK
<1>1. CASE EPlain
  BY <1>1
  DEF EPlain, Launch, LaunchFresh, LaunchBaseline, LaunchResume, EvaluateSeed,
      Resume, AppendRow, Complete, files
<1>2. CASE ECrash \/ CrashInCommit
  BY <1>0, <1>2
  DEF ECrash, CrashInCommit, Crash, CrashInResultWrite, CrashInRecord,
      CrashInBestWrite, CrashInStateWrite, CrashInCleanup, files
<1>3. CASE ERefreshing
  BY <1>0, <1>3
  DEF ERefreshing, RecordSeed, ProposerRejected, ProposerFailed, Propose,
      RecordCandidate, files
<1>4. CASE EStartIteration \/ ERejectCandidate \/ ESaveBest \/ EScore
  BY <1>0, <1>4
  DEF EStartIteration, ERejectCandidate, ESaveBest, EScore, StartIteration,
      RejectCandidate, SaveBest, ReuseResult, EvaluateCandidate, files
<1>5. CASE EFinishIteration \/ EUpdateState
  BY <1>5 DEF EFinishIteration, EUpdateState, FinishIteration, UpdateState
<1>6. CASE ECommitSeeds \/ ECommitIteration
  BY <1>0, <1>6
  DEF ECommitSeeds, ECommitIteration, CommitSeeds, CommitIteration
<1>7. CASE (Finished /\ UNCHANGED evidence) \/ UNCHANGED evars
  BY <1>7 DEF Finished, evars, vars, files
<1> QED
  BY <1>1, <1>2, <1>3, <1>4, <1>5, <1>6, <1>7 DEF ENext, EStep

LEMMA EvidenceRowsStep ==
  ASSUME ResumeOnly, RunInv, EvidenceRows, [ENext]_evars
  PROVE  EvidenceRows'
<1>1. RowsGrow /\ stored \subseteq stored'
  BY RowsGrowStep, RunInvStep
<1>2. EvalRowsReachTraces'
  BY LinkedBeforeAgent
  DEF EvidenceRows, EvalRowsReachTraces, Linked, SameId
<1>3. CommittedHasEvidence'
  <2> SUFFICES ASSUME NEW i \in 0 .. Iterations, rsStatus'[i] = "committed"
               PROVE  \E c \in stored' : c.it = i /\ c \in traced' /\ c \in evals'
    BY DEF CommittedHasEvidence
  <2>1. CASE rsStatus[i] = "committed"
    BY <1>1, <2>1 DEF EvidenceRows, CommittedHasEvidence, RowsGrow
  <2>2. CASE ECommitSeeds /\ i = 0
    <3>1. /\ traced' = Materialized(0, cands)
          /\ evals' = EvalRows(cands)
          /\ pc = "commit0"
      BY <2>2 DEF ECommitSeeds, CommitSeeds
    <3>2. cands = stored /\ stored # {} /\ \A c \in stored : c.it = 0
      BY <3>1, OwnResults
    <3>3. cands \subseteq traced' /\ cands \subseteq evals'
      BY <3>1 DEF Materialized, EvalRows, Replaced
    <3> QED
      BY <1>1, <2>2, <3>2, <3>3
  <2>3. CASE ECommitIteration /\ i = iter
    <3>1. /\ traced' = Materialized(iter, evaluated)
          /\ evals' = EvalRows(evaluated)
          /\ pc = "commit"
      BY <2>3 DEF ECommitIteration, CommitIteration
    <3>2. /\ evaluated \subseteq stored /\ evaluated # {}
          /\ \A c \in evaluated : c.it = iter
      BY <3>1, OwnResults
    <3>3. evaluated \subseteq traced' /\ evaluated \subseteq evals'
      BY <3>1 DEF Materialized, EvalRows, Replaced
    <3> QED
      BY <1>1, <2>3, <3>2, <3>3
  <2> QED
    BY <2>1, <2>2, <2>3, CommitsCommit
<1> QED
  BY <1>1, <1>2, <1>3 DEF EvidenceRows, RowsGrow

(* After any crashes and resumes the store an agent queries shows every row *)
(* of the trace index, every eval row leads to its traces, and a committed  *)
(* iteration has both.                                                      *)
THEOREM EvidenceIsReachable ==
  ASSUME ResumeOnly
  PROVE  ESpec => []EvidenceReachable
<1> DEFINE Inv == RunInv /\ IndexShown /\ EvidenceRows
<1>1. EInit => Inv
  <2> SUFFICES ASSUME EInit PROVE IndexShown /\ EvidenceRows
    BY RunInvInit
  <2>1. IndexShown
    BY NoRowType DEF EInit, Init, IndexShown, AgentSeesIndex
  <2>2. EvidenceRows
    BY DEF EInit, Init, EvidenceRows, EvalRowsReachTraces,
           CommittedHasEvidence
  <2> QED
    BY <2>1, <2>2
<1>2. Inv /\ [ENext]_evars => Inv'
  BY RunInvStep, IndexShownStep, EvidenceRowsStep
<1>3. Inv => EvidenceReachable
  BY DEF IndexShown, EvidenceRows, EvidenceReachable
<1> QED
  BY <1>1, <1>2, <1>3, PTL DEF ESpec

-----------------------------------------------------------------------------
(* What is flagged as the frontier is the frontier                          *)

(* The flags of the frontier of S; an iteration without one is not judged.  *)
FlagsOf(x, S) ==
  \A i \in 1 .. Iterations :
    x[i].frontier # "null" =>
      (x[i].frontier = "yes" <=> i \in Completed(QualityFrontier(S)))

Unflagged(x) == \A i \in 1 .. Iterations : x[i].frontier = "null"

FlagInv ==
  /\ ~hasIndex => Unflagged(index)
  /\ Completed(stored) = {} => Unflagged(index)
  /\ pc \in InIteration \cup {"loop"} => FlagsOf(index, cands)

LEMMA SyncedFlags ==
  ASSUME IndexShown, NEW S, ~hasIndex => Unflagged(index),
         Completed(S) = {} => Unflagged(index)
  PROVE  /\ FlagsOf(Synced(S), S)
         /\ ~hasIndex => Unflagged(Synced(S))
         /\ Completed(S) = {} => Unflagged(Synced(S))
<1>1. CASE ~hasIndex \/ Completed(S) = {}
  BY <1>1 DEF Synced, FlagsOf, Unflagged
<1>2. CASE hasIndex /\ Completed(S) # {}
  <2>1. ASSUME NEW i \in 1 .. Iterations, Synced(S)[i].frontier # "null"
        PROVE  Synced(S)[i].frontier = "yes" <=> i \in Completed(QualityFrontier(S))
    <3>1. Synced(S)[i].frontier =
            IF i \in Completed(S) THEN Flag(i \in Completed(QualityFrontier(S)))
            ELSE IF index[i].row THEN "no" ELSE index[i].frontier
      BY <1>2, SyncedExtends DEF IndexShown
    <3>2. ~index[i].row => index[i].frontier = "null"
      BY IterationsAssumption DEF IndexShown, NoRow
    <3>3. i \notin Completed(S) => i \notin Completed(QualityFrontier(S))
      BY FrontierSubset DEF Completed
    <3> QED
      BY <2>1, <3>1, <3>2, <3>3 DEF Flag
  <2> QED
    BY <1>2, <2>1 DEF FlagsOf
<1> QED
  BY <1>1, <1>2

(* Every other step leaves the flags as they are. *)
LEMMA FlagsKept ==
  ASSUME RunInv, index \in [0 .. Iterations -> MetaRow], [ENext]_evars,
         ~ESaveBest, ~EFinishIteration, ~EUpdateState
  PROVE  SameFlags(index, index')
<1>0. ProcessTypeOK /\ Positions
  BY DEF RunInv, TypeInv, TypeOK
<1>1. CASE index' = index
  BY <1>1 DEF SameFlags
<1>2. CASE EPlain \/ ECrash \/ (Finished /\ UNCHANGED evidence) \/ UNCHANGED evars
  BY <1>1, <1>2 DEF EPlain, ECrash, evidence, evars
<1>3. CASE ERefreshing \/ EStartIteration \/ ERejectCandidate \/ EScore
  BY <1>1, <1>3
  DEF ERefreshing, EStartIteration, ERejectCandidate, EScore, tables
<1>4. CASE ECommitSeeds
  <2>1. index' = Recorded(index, 0, cands, 0) /\ 0 \in 0 .. Iterations
    BY <1>4, IterationsAssumption DEF ECommitSeeds
  <2> QED
    BY <2>1, RecordedExtends
<1>5. CASE ECommitIteration
  <2>1. /\ index' = Recorded(index, iter, evaluated, base)
        /\ iter \in 0 .. Iterations /\ base \in 0 .. Iterations
    BY <1>0, <1>5
    DEF ECommitIteration, CommitIteration, Positions, InIteration, ProcessTypeOK
  <2> QED
    BY <2>1, RecordedExtends
<1>6. CASE CrashInCommit
  <2>1. PICK w \in {[i |-> 0, S |-> cands, at |-> "commit0"],
                    [i |-> iter, S |-> evaluated, at |-> "commit"]} :
          /\ pc = w.at
          /\ index' = index \/ index' = Recorded(index, w.i, w.S, base)
    BY <1>6 DEF CrashInCommit
  <2>2. w.i \in 0 .. Iterations /\ base \in 0 .. Iterations
    BY <1>0, <2>1, IterationsAssumption
    DEF Positions, InIteration, ProcessTypeOK
  <2> QED
    BY <1>1, <2>1, <2>2, RecordedExtends
<1> QED
  BY <1>2, <1>3, <1>4, <1>5, <1>6 DEF ENext, EStep

(* The last write of an iteration marks it. *)
LEMMA UpdateMarks ==
  ASSUME RunInv, index \in [0 .. Iterations -> MetaRow], EUpdateState,
         NEW i \in 0 .. Iterations
  PROVE  /\ index'[i].frontier = index[i].frontier
         /\ index'[i].advanced = "yes" =>
              index[i].advanced = "yes" \/ (i = iter /\ Advanced)
<1>1. index' = Mirrored(iter, Advanced) /\ iter \in 0 .. Iterations
  BY DEF EUpdateState, UpdateState, RunInv, TypeInv, Positions, InIteration
<1>2. Advanced \in BOOLEAN
  BY DEF Advanced
<1> QED
  BY <1>1, <1>2, MirroredExtends

LEMMA IndexStays ==
  ASSUME [ENext]_evars, hasIndex
  PROVE  hasIndex'
BY DEF ENext, EStep, EPlain, ERefreshing, ECommitSeeds, ESaveBest,
       EStartIteration, ERejectCandidate, EScore, ECommitIteration,
       EFinishIteration, EUpdateState, ECrash, CrashInCommit, evidence,
       tables, evars

(* ... and ranks the same candidates.                                       *)
LEMMA RankedKept ==
  ASSUME [ENext]_evars, ~ESaveBest, ~EFinishIteration,
         pc' \in InIteration \cup {"loop"}
  PROVE  pc \in InIteration \cup {"loop"} /\ cands' = cands
<1> USE DEF InIteration
<1>1. CASE EPlain
  BY <1>1
  DEF EPlain, Launch, LaunchFresh, LaunchBaseline, LaunchResume, EvaluateSeed,
      Resume, AppendRow, Complete
<1>2. CASE ECrash \/ CrashInCommit
  BY <1>2
  DEF ECrash, CrashInCommit, Crash, CrashInResultWrite, CrashInRecord,
      CrashInBestWrite, CrashInStateWrite, CrashInCleanup, ProcessLost
<1>3. CASE ERefreshing
  BY <1>3
  DEF ERefreshing, RecordSeed, ProposerRejected, ProposerFailed, Propose,
      RecordCandidate
<1>4. CASE EStartIteration \/ ERejectCandidate \/ EScore
  BY <1>4
  DEF EStartIteration, ERejectCandidate, EScore, StartIteration,
      RejectCandidate, ReuseResult, EvaluateCandidate
<1>5. CASE EUpdateState \/ ECommitSeeds \/ ECommitIteration
  BY <1>5
  DEF EUpdateState, ECommitSeeds, ECommitIteration, UpdateState, CommitSeeds,
      CommitIteration
<1>6. CASE (Finished /\ UNCHANGED evidence) \/ UNCHANGED evars
  BY <1>6 DEF Finished, evars, vars, process
<1> QED
  BY <1>1, <1>2, <1>3, <1>4, <1>5, <1>6 DEF ENext, EStep

LEMMA FlagInvStep ==
  ASSUME ResumeOnly, RunInv, IndexShown, FlagInv, [ENext]_evars
  PROVE  FlagInv'
<1> USE DEF FlagInv
<1>0. /\ stored \subseteq stored' /\ Phases /\ ProcessTypeOK /\ Positions
  BY RunInvStep DEF RunInv, ResultInv, TypeInv, TypeOK
<1>1. Completed(stored') = {} => Completed(stored) = {}
  BY <1>0 DEF Completed
<1>2. CASE ESaveBest
  <2>1. /\ index' = Synced(cands) /\ cands = stored
        /\ UNCHANGED <<stored, cands, hasIndex>>
    BY <1>0, <1>2 DEF ESaveBest, SaveBest, Phases, NoResult
  <2>2. /\ FlagsOf(index', cands)
        /\ ~hasIndex => Unflagged(index')
        /\ Completed(cands) = {} => Unflagged(index')
    BY <2>1, SyncedFlags
  <2> QED
    BY <2>1, <2>2 DEF FlagsOf, Unflagged, Completed
<1>3. CASE EFinishIteration
  <2> DEFINE S == cands \cup evaluated
  <2>1. /\ index' = Recorded(Synced(S), iter, evaluated, 0)
        /\ S = stored /\ stored' = stored /\ cands' = S
        /\ hasIndex' /\ iter \in 0 .. Iterations /\ 0 \in 0 .. Iterations
    BY <1>0, <1>3, IterationsAssumption
    DEF EFinishIteration, FinishIteration, Phases, NewResult, NoResult,
        Positions, InIteration
  <2>2. Synced(S) \in [0 .. Iterations -> MetaRow]
    BY SyncedExtends DEF IndexShown, Extends
  <2>3. /\ FlagsOf(Synced(S), S)
        /\ Completed(S) = {} => Unflagged(Synced(S))
    BY <2>1, SyncedFlags
  <2> HIDE DEF S
  <2>4. SameFlags(Synced(S), index')
    BY <2>1, <2>2, RecordedExtends
  <2> QED
    BY <2>1, <2>3, <2>4 DEF FlagsOf, Unflagged, Completed, SameFlags
<1>4. CASE ~ESaveBest /\ ~EFinishIteration
  <2>1. \A i \in 1 .. Iterations : index'[i].frontier = index[i].frontier
    <3>1. \A i \in 1 .. Iterations : i \in 0 .. Iterations
      OBVIOUS
    <3>2. CASE EUpdateState
      BY <3>1, <3>2, UpdateMarks DEF IndexShown
    <3>3. CASE ~EUpdateState
      BY <1>4, <3>1, <3>3, FlagsKept DEF IndexShown, SameFlags
    <3> QED
      BY <3>2, <3>3
  <2>2. hasIndex => hasIndex'
    BY IndexStays
  <2>3. pc' \in InIteration \cup {"loop"} =>
          pc \in InIteration \cup {"loop"} /\ cands' = cands
    BY <1>4, RankedKept
  <2> QED
    BY <1>1, <2>1, <2>2, <2>3 DEF FlagsOf, Unflagged
<1> QED
  BY <1>2, <1>3, <1>4

(* The flag on_pareto_frontier, wherever an agent finds it set, is right    *)
(* for the results that are stored when it reads it.                        *)
THEOREM FlagsAreTrue ==
  ASSUME ResumeOnly
  PROVE  ESpec => []FrontierFlagsTrue
<1> DEFINE Inv == RunInv /\ IndexShown /\ FlagInv
<1>1. EInit => Inv
  <2> SUFFICES ASSUME EInit PROVE IndexShown /\ FlagInv
    BY RunInvInit
  <2>1. IndexShown
    BY NoRowType DEF EInit, Init, IndexShown, AgentSeesIndex
  <2>2. FlagInv
    BY DEF EInit, Init, FlagInv, Unflagged, NoRow, InIteration
  <2> QED
    BY <2>1, <2>2
<1>2. Inv /\ [ENext]_evars => Inv'
  BY RunInvStep, IndexShownStep, FlagInvStep
<1>3. Inv => FrontierFlagsTrue
  <2> SUFFICES ASSUME Inv, pc = "propose", NEW i \in 1 .. Iterations,
                      storeMeta[i].frontier # "null"
               PROVE  storeMeta[i].frontier = "yes"
                        <=> \E c \in QualityFrontier(stored) : c.it = i
    BY DEF FrontierFlagsTrue
  <2>1. storeMeta = index /\ cands = stored /\ FlagsOf(index, cands)
    BY DEF IndexShown, AgentSeesIndex, FlagInv, InIteration, RunInv, ResultInv,
           Phases, NoResult
  <2>2. index[i].frontier = "yes" <=> i \in Completed(QualityFrontier(stored))
    BY <2>1 DEF FlagsOf
  <2>3. i \in Completed(QualityFrontier(stored))
          <=> \E c \in QualityFrontier(stored) : c.it = i
    BY DEF Completed
  <2> QED
    BY <2>1, <2>2, <2>3
<1> QED
  BY <1>1, <1>2, <1>3, PTL DEF ESpec

-----------------------------------------------------------------------------
(* What is marked as an advance was one                                     *)

(* A result that is added later does not change what an iteration achieved. *)
LEMMA ImprovedStays ==
  ASSUME ResumeOnly, RunInv, [ENext]_evars,
         NEW i \in 1 .. Iterations, ImprovedAt(stored, i)
  PROVE  ImprovedAt(stored', i)
<1>1. [Ledger!LedgerNext]_<<stored, best>>
  BY StepOfRun, LedgerStep DEF RunInv
<1>2. CASE stored' = stored
  BY <1>2 DEF ImprovedAt
<1>3. ASSUME NEW c \in Candidate,
             \A d \in stored : d.it < c.it \/ (c.it = 0 /\ d.it = 0),
             stored' = stored \cup {c}
      PROVE  ImprovedAt(stored', i)
  <2>1. PICK d \in stored : d.it = i
    BY DEF ImprovedAt
  <2>2. i < c.it
    BY <1>3, <2>1
  <2>3. /\ {e \in stored' : e.it < i} = {e \in stored : e.it < i}
        /\ {e \in stored' : e.it = i} = {e \in stored : e.it = i}
    BY <1>3, <2>2, IterationsAssumption DEF Candidate
  <2> QED
    BY <2>3 DEF ImprovedAt
<1> QED
  BY <1>1, <1>2, <1>3
  DEF Ledger!LedgerNext, Ledger!Score, Ledger!Publish, Ledger!Lose

AdvanceInv == RunInv /\ Streaks /\ IndexShown /\ AdvancesTrue

LEMMA AdvancesStep ==
  ASSUME ResumeOnly, Policy = "pareto", AdvanceInv, [ENext]_evars
  PROVE  AdvancesTrue'
<1> SUFFICES ASSUME NEW i \in 1 .. Iterations, index'[i].advanced = "yes"
             PROVE  ImprovedAt(stored', i)
  BY DEF AdvancesTrue, ImprovedAt
<1>0. /\ RunInv /\ ProcessTypeOK /\ Positions
      /\ index \in [0 .. Iterations -> MetaRow]
      /\ i \in 0 .. Iterations
  BY DEF AdvanceInv, RunInv, TypeInv, TypeOK, IndexShown
<1>1. CASE index[i].advanced = "yes"
  BY <1>0, <1>1, ImprovedStays DEF AdvanceInv, AdvancesTrue
<1>2. CASE EUpdateState /\ index[i].advanced # "yes"
  <2>1. i = iter /\ Advanced
    BY <1>0, <1>2, UpdateMarks
  <2>2. stored' = stored /\ pc = "state"
    BY <1>2 DEF EUpdateState, UpdateState
  <2>3. Extended /\ cands = stored /\ prev \subseteq Candidate
    BY <1>0, <2>2
    DEF AdvanceInv, Streaks, RunInv, ResultInv, Phases, ProcessTypeOK
  <2>4. PICK c \in Candidate : /\ evaluated = {c}
                               /\ c.it = iter
                               /\ cands = prev \cup {c}
    BY <2>1, <2>3 DEF Extended, Advanced
  <2>5. \A d \in prev : d.it < iter
    BY <2>3 DEF Extended
  <2>6. ImprovedAt(cands, iter)
    BY <2>1, <2>3, <2>4, <2>5, ImprovedNow
  <2> QED
    BY <2>1, <2>2, <2>3, <2>6
<1>3. CASE ESaveBest
  <2>1. index' = Synced(cands)
    BY <1>3 DEF ESaveBest
  <2>2. index'[i].advanced = index[i].advanced
    BY <1>0, <2>1, SyncedExtends
  <2> QED
    BY <1>1, <2>2
<1>4. CASE EFinishIteration
  <2> DEFINE x == Synced(cands \cup evaluated)
  <2>1. /\ index' = Recorded(x, iter, evaluated, 0)
        /\ iter \in 0 .. Iterations /\ 0 \in 0 .. Iterations
    BY <1>0, <1>4, IterationsAssumption
    DEF EFinishIteration, FinishIteration, Positions, InIteration
  <2>2. /\ x \in [0 .. Iterations -> MetaRow]
        /\ x[i].advanced = index[i].advanced
    BY <1>0, SyncedExtends DEF Extends
  <2> HIDE DEF x
  <2>3. SameFlags(x, index')
    BY <2>1, <2>2, RecordedExtends
  <2> QED
    BY <1>0, <1>1, <2>2, <2>3 DEF SameFlags
<1>5. CASE ~EUpdateState /\ ~ESaveBest /\ ~EFinishIteration
  <2>1. SameFlags(index, index')
    BY <1>0, <1>5, FlagsKept
  <2> QED
    BY <1>0, <1>1, <2>1 DEF SameFlags
<1> QED
  BY <1>1, <1>2, <1>3, <1>4, <1>5

(* Under pareto an iteration that the trace index marks as an advance did   *)
(* raise the best stored passrate, over any number of crashes.              *)
THEOREM AdvancesAreTrue ==
  ASSUME ResumeOnly, Policy = "pareto"
  PROVE  ESpec => []AdvancesTrue
<1>1. EInit => AdvanceInv
  <2> SUFFICES ASSUME EInit PROVE AdvanceInv
    OBVIOUS
  <2>1. IndexShown
    BY NoRowType DEF EInit, Init, IndexShown, AgentSeesIndex
  <2>2. Streaks
    BY DEF EInit, Init, Streaks, InIteration
  <2>3. AdvancesTrue
    BY DEF EInit, AdvancesTrue, NoRow
  <2> QED
    BY <2>1, <2>2, <2>3, RunInvInit DEF AdvanceInv
<1>2. AdvanceInv /\ [ENext]_evars => AdvanceInv'
  <2> SUFFICES ASSUME AdvanceInv, [ENext]_evars PROVE AdvanceInv'
    OBVIOUS
  <2>1. Streaks'
    BY StepOfRun, StreaksStep DEF AdvanceInv, RunInv, StreakInv
  <2> QED
    BY <2>1, RunInvStep, IndexShownStep, AdvancesStep DEF AdvanceInv
<1>3. AdvanceInv => AdvancesTrue
  BY DEF AdvanceInv
<1> QED
  BY <1>1, <1>2, <1>3, PTL DEF ESpec

-----------------------------------------------------------------------------
(* The base the store names is the one that was patched                     *)

LEMMA GreatestElement ==
  ASSUME NEW n \in Nat, NEW T \in SUBSET (0 .. n), T # {}
  PROVE  \E x \in T : \A y \in T : y <= x
<1> DEFINE U == {n - t : t \in T}
<1>1. U \subseteq Nat /\ U # {}
  <2>1. \A t \in T : n - t \in Nat
    OBVIOUS
  <2>2. PICK t \in T : TRUE
    OBVIOUS
  <2>3. n - t \in U
    OBVIOUS
  <2> QED
    BY <2>1, <2>3
<1>2. PICK u \in U : \A v \in U : <<v, u>> \notin OpToRel(<, Nat)
  BY <1>1, NatLessThanWellFounded, WFMin, Zenon
<1>3. \A v \in U : ~ (v < u)
  BY <1>1, <1>2 DEF OpToRel
<1>4. PICK x \in T : u = n - x
  BY <1>2
<1>5. \A y \in T : ~ (n - y < n - x)
  BY <1>3, <1>4
<1> QED
  BY <1>4, <1>5

(* The results an iteration may be patched from: earlier ones that beat all *)
(* seeds.                                                                   *)
Worth(i) ==
  {c \in stored : c.it \in 1 .. i - 1 /\ Beats(c.rate, Seeds(stored))}

Selects == Policy \in {"pareto", "curaii"}

(* A base was chosen only where there was a choice, and there is one still. *)
BasesStay ==
  \A i \in 1 .. Iterations : storeBase[i] # 0 => Selects /\ Worth(i) # {}

BaseRows ==
  /\ storeBase \in [0 .. Iterations -> 0 .. Iterations]
  /\ madeFrom \in [0 .. Iterations -> 0 .. Iterations]
  /\ BasesStay
  /\ pc \in InIteration => storeBase[iter] = base
  /\ \A o \in outcomes : o.of \in rsCands
  /\ BasesTrue

(* A choice is left when one of the pool is worth it: the best of them all  *)
(* is in the frontier, and none of the pool is better.                      *)
LEMMA WorthIsChosen ==
  ASSUME TypeInv, ResultInv, pc = "loop", iter \in 1 .. Iterations,
         Selects, Worth(iter) # {}, NEW b
  PROVE  BaseCandidates(b) # {}
<1> DEFINE W == Worth(iter)
<1>0. /\ cands = stored /\ stored \subseteq Candidate
      /\ \A c \in stored : c.it < iter
      /\ \A c \in stored : ~IsSeed(c) => archive[c.it] = c.src
      /\ OnePerIteration
  BY DEF ResultInv, Phases, NoResult, TypeInv, TypeOK, FilesTypeOK, SourceMatchesResult
<1>1. W \subseteq stored /\ W # {} /\ \A c \in W : c.rate \in 0 .. MaxPassed /\ c.it \in 0 .. Iterations
  BY <1>0 DEF Worth, Candidate, Passrates
<1>2. PICK r \in {c.rate : c \in W} : \A y \in {c.rate : c \in W} : y <= r
  <2> DEFINE T == {c.rate : c \in W}
  <2>1. T \in SUBSET (0 .. MaxPassed) /\ T # {}
    BY <1>1
  <2> QED
    BY <2>1, GreatestElement, MaxPassedAssumption
<1> DEFINE B == {c \in W : c.rate = r}
<1>3. PICK m \in {c.it : c \in B} : \A y \in {c.it : c \in B} : y <= m
  <2> DEFINE T == {c.it : c \in B}
  <2>1. T \in SUBSET (0 .. Iterations) /\ T # {}
    BY <1>1, <1>2
  <2> QED
    BY <2>1, GreatestElement, IterationsAssumption
<1>4. PICK t \in W : t.rate = r /\ t.it = m
  BY <1>3
<1>5. ASSUME NEW d \in stored, ~IsSeed(d), d.rate >= t.rate
      PROVE  d \in W /\ d.rate = t.rate
  <2>1. d.it \in 1 .. iter - 1
    BY <1>0, <1>5 DEF IsSeed, Candidate
  <2>2. Beats(d.rate, Seeds(stored))
    <3>1. Beats(t.rate, Seeds(stored)) /\ d.rate \in Nat /\ t.rate \in Nat
      BY <1>0, <1>1, <1>4 DEF Worth, Candidate, Passrates
    <3>2. \A e \in Seeds(stored) : e.rate \in Nat
      BY <1>0 DEF Seeds, Candidate, Passrates
    <3> QED
      BY <1>5, <3>1, <3>2 DEF Beats
  <2>3. d \in W
    BY <2>1, <2>2 DEF Worth
  <2>4. d.rate <= r
    BY <1>2, <2>3
  <2> QED
    BY <1>1, <1>4, <1>5, <2>3, <2>4
<1>6. \A d \in stored : IsSeed(d) => d.rate < t.rate
  <2> SUFFICES ASSUME NEW d \in stored, IsSeed(d) PROVE d.rate < t.rate
    OBVIOUS
  <2>1. d \in Seeds(stored) /\ Beats(t.rate, Seeds(stored))
    BY <1>4 DEF Worth, Seeds
  <2>2. t.rate > d.rate
    BY <2>1 DEF Beats
  <2> QED
    BY <1>0, <1>1, <1>4, <2>2 DEF Candidate, Passrates
<1>7. \A d \in stored : ~RanksAbove(d, t)
  <2> SUFFICES ASSUME NEW d \in stored, RanksAbove(d, t) PROVE FALSE
    OBVIOUS
  <2>1. d.rate >= t.rate
    BY <1>0, <1>1, <1>4 DEF RanksAbove, Candidate, Passrates
  <2>2. ~IsSeed(d)
    BY <2>1, <1>0, <1>1, <1>4, <1>6 DEF Candidate, Passrates
  <2>3. d \in W /\ d.rate = r
    BY <2>1, <2>2, <1>4, <1>5
  <2>4. d.it <= t.it
    BY <2>3, <1>3, <1>4
  <2>5. IdAfter(d, t) /\ ~IsSeed(t)
    BY <2>1, <2>3, <1>4, <1>0 DEF RanksAbove, Worth, IsSeed, Candidate, Passrates
  <2>6. d.it = t.it
    BY <2>2, <2>4, <2>5, <1>0, <1>1 DEF IdAfter, Candidate
  <2>7. d = t
    BY <2>2, <2>6, <1>0, <1>1 DEF OnePerIteration
  <2> QED
    BY <2>5, <2>7, <1>0, <1>1, NamesAssumption DEF IdAfter, Candidate
<1>8. t \in Eligible(cands)
  <2>1. Beats(t.rate, Seeds(cands))
    BY <1>0, <1>4 DEF Worth
  <2>2. t.it \in 1 .. iter - 1 /\ archive[t.it] = t.src
    BY <1>0, <1>1, <1>4 DEF Worth, IsSeed
  <2>3. t.src # NoSource
    BY <1>0, <1>1, <1>4, NoneAssumption DEF Candidate
  <2> QED
    BY <1>0, <1>1, <2>1, <2>2, <2>3 DEF Eligible
<1>9. CASE Policy = "pareto"
  <2>1. {d \in cands : RanksAbove(d, t)} = {}
    BY <1>0, <1>7
  <2>2. Cardinality({d \in cands : RanksAbove(d, t)}) < TopK
    BY <2>1, FS_EmptySet, TopKAssumption
  <2>3. t \in QualityFrontier(cands)
    BY <2>2, <1>8 DEF Eligible, QualityFrontier
  <2> QED
    BY <1>8, <1>9, <2>3 DEF BaseCandidates, Eligible
<1>10. CASE Policy = "curaii"
  <2> DEFINE pool == Eligible(cands)
             k == IF b = "low" THEN 1 ELSE BaseTopK
  <2>1. \A d \in pool : ~(d.rate > t.rate)
    <3> SUFFICES ASSUME NEW d \in pool, d.rate > t.rate PROVE FALSE
      OBVIOUS
    <3>1. d \in stored /\ ~IsSeed(d)
      BY <1>0 DEF Eligible, IsSeed
    <3> QED
      BY <3>1, <1>0, <1>1, <1>4, <1>5 DEF Candidate, Passrates
  <2>2. {d \in pool : d.rate > t.rate} = {}
    BY <2>1
  <2>3. Cardinality({d \in pool : d.rate > t.rate}) < k
    BY <2>2, FS_EmptySet, BoundsAssumption
  <2>4. t \in {c \in pool : Cardinality({d \in pool : d.rate > c.rate}) < k}
    BY <1>8, <2>3
  <2> QED
    BY <1>10, <2>4 DEF BaseCandidates
<1> QED
  BY <1>9, <1>10 DEF Selects

(* Seeds come before everything else, so what beats them keeps doing so.    *)
LEMMA SeedsFirst ==
  ASSUME ResumeOnly, RunInv, [ENext]_evars
  PROVE  \/ Seeds(stored') = Seeds(stored)
         \/ \A c \in stored : IsSeed(c)
<1>1. CASE EvaluateSeed
  BY <1>1 DEF EvaluateSeed, RunInv, ResultInv, Phases
<1>2. CASE ~EvaluateSeed
  <2>1. \A c \in stored' : IsSeed(c) => c \in stored
    <3>1. CASE EvaluateCandidate
      <4>1. iter # 0 /\ \E c : c.it = iter /\ stored' \subseteq stored \cup {c}
        BY <3>1 DEF EvaluateCandidate, StoreResult, RunInv, TypeInv, Positions, InIteration
      <4> QED
        BY <4>1 DEF IsSeed
    <3>2. CASE ~EvaluateCandidate
      <4>1. stored' \subseteq stored
        BY <1>2, <3>2, StepOfRun
        DEF Next, Step, Launch, LaunchFresh, LaunchBaseline, LaunchResume, RecordSeed,
            CommitSeeds, Resume, SaveBest, StartIteration, ProposerRejected,
            ProposerFailed, Propose, RejectCandidate, ReuseResult, RecordCandidate,
            AppendRow, CommitIteration, FinishIteration, UpdateState, Complete, Crash,
            CrashInResultWrite, CrashInRecord, CrashInBestWrite, CrashInStateWrite,
            CrashInCleanup, Finished, files, vars
      <4> QED
        BY <4>1
    <3> QED
      BY <3>1, <3>2
  <2>2. stored \subseteq stored'
    BY RunInvStep
  <2> QED
    BY <2>1, <2>2 DEF Seeds
<1> QED
  BY <1>1, <1>2

LEMMA WorthStays ==
  ASSUME ResumeOnly, RunInv, [ENext]_evars, NEW i, Worth(i) # {}
  PROVE  Worth(i)' # {}
<1>1. PICK c \in stored : c.it \in 1 .. i - 1 /\ Beats(c.rate, Seeds(stored))
  BY DEF Worth
<1>2. ~IsSeed(c)
  BY <1>1 DEF IsSeed
<1>3. c \in stored' /\ Seeds(stored') = Seeds(stored)
  BY <1>2, SeedsFirst, RunInvStep
<1> QED
  BY <1>1, <1>3 DEF Worth

(* Only the start of an iteration names a base, and only a score makes a    *)
(* result from one.                                                         *)
LEMMA BasesWritten ==
  ASSUME [ENext]_evars
  PROVE  /\ storeBase' = storeBase \/ EStartIteration
         /\ madeFrom' = madeFrom \/ EScore
         /\ \/ outcomes' = Outcomes
            \/ outcomes' = outcomes /\ rsCands \subseteq rsCands'
<1>1. CASE EPlain
  BY <1>1
  DEF EPlain, evidence, Launch, LaunchFresh, LaunchBaseline, LaunchResume,
      EvaluateSeed, Resume, AppendRow, Complete, files
<1>2. CASE ECrash \/ CrashInCommit
  BY <1>2
  DEF ECrash, CrashInCommit, evidence, Crash, CrashInResultWrite, CrashInRecord,
      CrashInBestWrite, CrashInStateWrite, CrashInCleanup, files
<1>3. CASE ERefreshing \/ EStartIteration \/ ERejectCandidate \/ ECommitSeeds
           \/ ECommitIteration \/ EFinishIteration
  BY <1>3
  DEF ERefreshing, EStartIteration, ERejectCandidate, ECommitSeeds,
      ECommitIteration, EFinishIteration, tables, Refresh
<1>4. CASE ESaveBest \/ EScore \/ EUpdateState
  BY <1>4
  DEF ESaveBest, EScore, EUpdateState, SaveBest, ReuseResult, EvaluateCandidate,
      UpdateState, files
<1>5. CASE (Finished /\ UNCHANGED evidence) \/ UNCHANGED evars
  BY <1>5 DEF Finished, evidence, evars, vars, files
<1> QED
  BY <1>1, <1>2, <1>3, <1>4, <1>5 DEF ENext, EStep

(* The base of the running iteration is the one it began with.              *)
LEMMA BaseKept ==
  ASSUME [ENext]_evars, ~EStartIteration, pc' \in InIteration
  PROVE  pc \in InIteration /\ iter' = iter /\ base' = base
<1> USE DEF InIteration
<1>1. CASE EPlain
  BY <1>1
  DEF EPlain, Launch, LaunchFresh, LaunchBaseline, LaunchResume, EvaluateSeed,
      Resume, AppendRow, Complete
<1>2. CASE ECrash \/ CrashInCommit
  BY <1>2
  DEF ECrash, CrashInCommit, Crash, CrashInResultWrite, CrashInRecord,
      CrashInBestWrite, CrashInStateWrite, CrashInCleanup, ProcessLost
<1>3. CASE ERefreshing \/ ERejectCandidate
  BY <1>3
  DEF ERefreshing, ERejectCandidate, RecordSeed, ProposerRejected, ProposerFailed,
      Propose, RecordCandidate, RejectCandidate
<1>4. CASE ECommitSeeds \/ ECommitIteration \/ EFinishIteration
  BY <1>4
  DEF ECommitSeeds, ECommitIteration, EFinishIteration, CommitSeeds,
      CommitIteration, FinishIteration
<1>5. CASE ESaveBest \/ EScore \/ EUpdateState
  BY <1>5
  DEF ESaveBest, EScore, EUpdateState, SaveBest, ReuseResult, EvaluateCandidate,
      UpdateState
<1>6. CASE (Finished /\ UNCHANGED evidence) \/ UNCHANGED evars
  BY <1>6 DEF Finished, evars, vars, process
<1> QED
  BY <1>1, <1>2, <1>3, <1>4, <1>5, <1>6 DEF ENext, EStep

(* A score adds one result, made from the base of its iteration.            *)
LEMMA ResultsAdded ==
  ASSUME RunInv, [ENext]_evars, NEW c \in stored', c \notin stored, ~IsSeed(c)
  PROVE  EScore /\ c.it = iter /\ madeFrom' = [madeFrom EXCEPT ![iter] = base]
<1>1. CASE EScore
  <2>1. CASE ReuseResult
    BY <2>1 DEF ReuseResult, files
  <2>2. CASE EvaluateCandidate
    <3>1. PICK r \in Passrates :
            StoreResult([it |-> iter, name |-> pending, src |-> archive[iter], rate |-> r])
      BY <2>2 DEF EvaluateCandidate
    <3>2. c = [it |-> iter, name |-> pending, src |-> archive[iter], rate |-> r]
      BY <3>1 DEF StoreResult
    <3> QED
      BY <1>1, <3>2 DEF EScore
  <2> QED
    BY <1>1, <2>1, <2>2 DEF EScore
<1>2. CASE EPlain
  <2>1. CASE EvaluateSeed
    <3>1. PICK n \in todo :
            \/ stored' = stored
            \/ \E r \in Passrates :
                 StoreResult([it |-> 0, name |-> n, src |-> CleanSource, rate |-> r])
      BY <2>1 DEF EvaluateSeed
    <3>2. PICK r \in Passrates :
            StoreResult([it |-> 0, name |-> n, src |-> CleanSource, rate |-> r])
      BY <3>1
    <3>3. c = [it |-> 0, name |-> n, src |-> CleanSource, rate |-> r]
      BY <3>2 DEF StoreResult
    <3> QED
      BY <3>3 DEF IsSeed
  <2>2. CASE ~EvaluateSeed
    BY <1>2, <2>2
    DEF EPlain, Launch, LaunchFresh, LaunchBaseline, LaunchResume, Resume,
        AppendRow, Complete, files
  <2> QED
    BY <2>1, <2>2
<1>3. CASE ECrash \/ CrashInCommit
  BY <1>3
  DEF ECrash, CrashInCommit, Crash, CrashInResultWrite, CrashInRecord,
      CrashInBestWrite, CrashInStateWrite, CrashInCleanup, files
<1>4. CASE ERefreshing \/ ERejectCandidate
  BY <1>4
  DEF ERefreshing, ERejectCandidate, RecordSeed, ProposerRejected, ProposerFailed,
      Propose, RecordCandidate, RejectCandidate, files
<1>5. CASE ECommitSeeds \/ ECommitIteration \/ EFinishIteration
  BY <1>5
  DEF ECommitSeeds, ECommitIteration, EFinishIteration, CommitSeeds,
      CommitIteration, FinishIteration
<1>6. CASE ESaveBest \/ EStartIteration \/ EUpdateState
  BY <1>6
  DEF ESaveBest, EStartIteration, EUpdateState, SaveBest, StartIteration, UpdateState
<1>7. CASE (Finished /\ UNCHANGED evidence) \/ UNCHANGED evars
  BY <1>7 DEF Finished, evars, vars, files
<1> QED
  BY <1>1, <1>2, <1>3, <1>4, <1>5, <1>6, <1>7 DEF ENext, EStep

(* An iteration that starts without a base never had one.                   *)
LEMMA StartNamesBase ==
  ASSUME RunInv, BaseRows, EStartIteration
  PROVE  /\ iter \in 1 .. Iterations /\ base' \in 0 .. Iterations
         /\ storeBase' = [storeBase EXCEPT ![iter] = base']
         /\ base' # 0 => Selects /\ Worth(iter) # {}
<1>1. /\ StartIteration /\ pc = "loop" /\ iter <= Iterations
      /\ base' \in BaseChoices(BudgetFor(iter))
  BY DEF EStartIteration, StartIteration
<1>2. iter \in 1 .. Iterations
  BY <1>1 DEF RunInv, TypeInv, Positions, TypeOK, ProcessTypeOK
<1>3. base' \in 0 .. Iterations
  BY <1>1, BaseChoicesType DEF RunInv, TypeInv
<1>4. storeBase[iter] # 0 => base' # 0
  <2> SUFFICES ASSUME storeBase[iter] # 0 PROVE base' # 0
    OBVIOUS
  <2>1. BaseCandidates(BudgetFor(iter)) # {}
    BY <1>1, <1>2, WorthIsChosen DEF RunInv, BaseRows, BasesStay
  <2>2. PICK c \in BaseCandidates(BudgetFor(iter)) : base' = c.it
    BY <1>1, <2>1 DEF BaseChoices
  <2>3. c.it \in 1 .. iter - 1
    BY <2>2, FrontierSubset DEF BaseCandidates, Eligible
  <2> QED
    BY <2>2, <2>3
<1>5. storeBase' = [storeBase EXCEPT ![iter] = base']
  BY <1>2, <1>4 DEF EStartIteration, BegunBase, Coalesce, BaseRows
<1>6. base' # 0 => Selects /\ Worth(iter) # {}
  <2> SUFFICES ASSUME base' # 0 PROVE Selects /\ Worth(iter) # {}
    OBVIOUS
  <2>1. PICK c \in BaseCandidates(BudgetFor(iter)) : base' = c.it
    BY <1>1 DEF BaseChoices
  <2>2. Selects
    BY <2>1 DEF BaseCandidates, Selects
  <2>3. c \in Eligible(cands)
    BY <2>1, FrontierSubset DEF BaseCandidates, Eligible
  <2>4. cands = stored
    BY <1>1 DEF RunInv, ResultInv, Phases, NoResult
  <2> QED
    BY <2>2, <2>3, <2>4 DEF Eligible, Worth
<1> QED
  BY <1>2, <1>3, <1>5, <1>6

LEMMA BaseRowsStep ==
  ASSUME ResumeOnly, RunInv, IndexInv, BaseRows, [ENext]_evars
  PROVE  BaseRows'
<1>0. /\ RunInv' /\ IndexInv' /\ stored \subseteq stored'
      /\ stored \subseteq Candidate /\ rsCands \subseteq stored
      /\ stored' \subseteq Candidate /\ rsCands' \subseteq stored'
      /\ iter \in 0 .. Iterations + 1 /\ base \in 0 .. Iterations
  BY RunInvStep, StepOfRun, IndexInvStep
  DEF RunInv, TypeInv, TypeOK, FilesTypeOK, ProcessTypeOK, IndexInv, IndexesFollowResults
<1>1. storeBase' \in [0 .. Iterations -> 0 .. Iterations]
  BY BasesWritten, StartNamesBase DEF BaseRows
<1>2. EScore => /\ iter \in 1 .. Iterations /\ pc \in InIteration
                /\ \A c \in stored : c.it < iter
                /\ madeFrom' = [madeFrom EXCEPT ![iter] = base]
                /\ UNCHANGED storeBase
  BY DEF EScore, ReuseResult, EvaluateCandidate, RunInv, ResultInv, Phases, NoResult,
         TypeInv, Positions, InIteration
<1>3. madeFrom' \in [0 .. Iterations -> 0 .. Iterations]
  BY <1>0, <1>2, BasesWritten DEF BaseRows
<1>4. BasesStay'
  <2> SUFFICES ASSUME NEW i \in 1 .. Iterations, storeBase'[i] # 0
               PROVE  Selects /\ Worth(i)' # {}
    BY DEF BasesStay
  <2>1. Selects /\ Worth(i) # {}
    <3>1. CASE storeBase[i] # 0
      BY <3>1 DEF BaseRows, BasesStay
    <3>2. CASE storeBase[i] = 0
      <4>1. EStartIteration
        BY <3>2, BasesWritten
      <4>2. /\ storeBase' = [storeBase EXCEPT ![iter] = base']
            /\ base' # 0 => Selects /\ Worth(iter) # {}
        BY <4>1, StartNamesBase
      <4>3. i = iter /\ base' # 0
        BY <3>2, <4>2 DEF BaseRows
      <4> QED
        BY <4>2, <4>3
    <3> QED
      BY <3>1, <3>2
  <2> QED
    BY <2>1, WorthStays
<1>5. pc' \in InIteration => storeBase'[iter'] = base'
  <2>1. CASE EStartIteration
    <3>1. iter' = iter
      BY <2>1 DEF EStartIteration, StartIteration
    <3>2. /\ storeBase' = [storeBase EXCEPT ![iter] = base']
          /\ iter \in 1 .. Iterations
      BY <2>1, StartNamesBase
    <3>3. iter \in DOMAIN storeBase
      BY <3>2, IterationsAssumption DEF BaseRows
    <3> QED
      BY <3>1, <3>2, <3>3
  <2>2. CASE ~EStartIteration
    BY <2>2, BaseKept, BasesWritten DEF BaseRows
  <2> QED
    BY <2>1, <2>2
<1>6. BaseIsRecorded'
  <2> SUFFICES ASSUME NEW c \in stored', ~IsSeed(c)
               PROVE  storeBase'[c.it] = madeFrom'[c.it]
    BY DEF BaseIsRecorded
  <2>1. CASE c \notin stored
    <3>1. EScore /\ c.it = iter /\ madeFrom' = [madeFrom EXCEPT ![iter] = base]
      BY <2>1, ResultsAdded
    <3> QED
      BY <1>2, <3>1 DEF BaseRows
  <2>2. CASE c \in stored
    <3>1. storeBase[c.it] = madeFrom[c.it] /\ c.it \in 0 .. Iterations
      BY <1>0, <2>2 DEF BaseRows, BasesTrue, BaseIsRecorded, Candidate
    <3>2. madeFrom'[c.it] = madeFrom[c.it]
      BY <1>0, <1>2, <2>2, <3>1, BasesWritten DEF BaseRows
    <3>3. storeBase'[c.it] = storeBase[c.it]
      <4>1. CASE EStartIteration
        <5>1. c.it < iter
          BY <2>2, <4>1
          DEF EStartIteration, StartIteration, RunInv, ResultInv, Phases, NoResult
        <5>2. /\ storeBase' = [storeBase EXCEPT ![iter] = base']
              /\ c.it # iter
          BY <1>0, <3>1, <4>1, <5>1, StartNamesBase
        <5> QED
          BY <3>1, <5>2 DEF BaseRows
      <4> QED
        BY <4>1, BasesWritten
    <3> QED
      BY <3>1, <3>2, <3>3
  <2> QED
    BY <2>1, <2>2
<1>7. CASE outcomes' = Outcomes
  <2>1. ASSUME NEW o \in outcomes'
        PROVE  /\ o.of \in rsCands'
               /\ madeFrom'[o.of.it] # 0 => o.base \in {madeFrom'[o.of.it], NoBase}
    <3>1. PICK c \in rsCands' :
            /\ ~IsSeed(c)
            /\ o = [of |-> c, base |-> IF ComparedWith(c.it) = {} THEN NoBase
                                       ELSE CHOOSE j \in ComparedWith(c.it) : TRUE]
      BY <1>7, <2>1 DEF Outcomes
    <3>2. storeBase'[c.it] = madeFrom'[c.it]
      BY <1>0, <1>6, <3>1 DEF BaseIsRecorded
    <3>3. ASSUME madeFrom'[c.it] # 0, ComparedWith(c.it) # {}
          PROVE  o.base = madeFrom'[c.it]
      <4>1. ComparedWith(c.it) \subseteq {storeBase'[c.it]}
        BY <3>2, <3>3 DEF ComparedWith, Coalesce
      <4> DEFINE S == ComparedWith(c.it)
      <4>2. S # {} /\ S \subseteq {madeFrom'[c.it]}
        BY <3>2, <3>3, <4>1
      <4>3. o.base = CHOOSE j \in S : TRUE
        BY <3>1, <3>3
      <4> HIDE DEF S
      <4> QED
        BY <4>2, <4>3
    <3> QED
      BY <3>1, <3>3
  <2> QED
    BY <1>1, <1>3, <1>4, <1>5, <1>6, <2>1 DEF BaseRows, BasesTrue, OutcomesCompareBase
<1>8. CASE outcomes' = outcomes /\ rsCands \subseteq rsCands'
  <2>1. ASSUME NEW o \in outcomes
        PROVE  o.of \in rsCands' /\ madeFrom'[o.of.it] = madeFrom[o.of.it]
    <3>1. o.of \in rsCands /\ o.of \in stored /\ o.of.it \in 0 .. Iterations
      BY <1>0 DEF BaseRows, Candidate
    <3>2. CASE EScore
      <4>1. o.of.it # iter
        BY <1>0, <1>2, <3>1, <3>2
      <4> QED
        BY <1>2, <1>8, <3>1, <3>2, <4>1 DEF BaseRows
    <3> QED
      BY <1>8, <3>1, <3>2, BasesWritten
  <2> QED
    BY <1>1, <1>3, <1>4, <1>5, <1>6, <1>8, <2>1
    DEF BaseRows, BasesTrue, OutcomesCompareBase
<1> QED
  BY <1>7, <1>8, BasesWritten

(* The base the store names for a stored result is the one that result was  *)
(* patched from, and its outcome compares the two, although an interrupted  *)
(* iteration runs again with another choice and no row is ever cleared: a   *)
(* choice of bases, once there, does not go away.                           *)
THEOREM BasesAreTrue ==
  ASSUME ResumeOnly
  PROVE  ESpec => []BasesTrue
<1> DEFINE Inv == RunInv /\ IndexInv /\ BaseRows
<1>1. EInit => Inv
  <2> SUFFICES ASSUME EInit PROVE IndexInv /\ BaseRows
    BY RunInvInit
  <2>1. IndexInv
    BY DEF EInit, Init, IndexInv, IndexesFollowResults
  <2>2. BaseRows
    BY IterationsAssumption
    DEF EInit, Init, BaseRows, BasesStay, BasesTrue, BaseIsRecorded,
        OutcomesCompareBase, InIteration
  <2> QED
    BY <2>1, <2>2
<1>2. Inv /\ [ENext]_evars => Inv'
  <2> SUFFICES ASSUME Inv, [ENext]_evars PROVE Inv'
    OBVIOUS
  <2>1. IndexInv'
    BY StepOfRun, IndexInvStep DEF RunInv
  <2> QED
    BY <2>1, RunInvStep, BaseRowsStep
<1>3. Inv => BasesTrue
  BY DEF BaseRows
<1> QED
  BY <1>1, <1>2, <1>3, PTL DEF ESpec
=============================================================================
