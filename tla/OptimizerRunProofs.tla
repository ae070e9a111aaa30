------------------------- MODULE OptimizerRunProofs -------------------------
(***************************************************************************)
(* Proofs about OptimizerRun, for every number of iterations, seeds,       *)
(* names, sources and crashes: first what holds whatever flags an          *)
(* interrupted run is started with again, then what the files of a run     *)
(* directory say about each other when it is only ever started again with  *)
(* --resume (the ledger it keeps, the base it patches, the frontier it     *)
(* shows, the indexes it writes, the streak and the budget in its state).  *)
(***************************************************************************)
EXTENDS OptimizerRun, FiniteSetTheorems, TLAPS

USE DEF Policies, Budgets, StatefulPolicies

-----------------------------------------------------------------------------
(* Type correctness, whatever flags an interrupted run is started with *)

LEMMA FrontierSubset ==
  ASSUME NEW S
  PROVE  QualityFrontier(S) \subseteq S
BY DEF QualityFrontier

LEMMA ResultType ==
  ASSUME NEW i \in 0 .. Iterations, NEW n \in Names, NEW r \in Passrates,
         NEW s \in Sources \cup {CleanSource}
  PROVE  [it |-> i, name |-> n, src |-> s, rate |-> r] \in Candidate
BY DEF Candidate

LEMMA BaseChoicesType ==
  ASSUME TypeOK, NEW b, NEW x \in BaseChoices(b)
  PROVE  x \in 0 .. Iterations
<1>1. CASE BaseCandidates(b) = {}
  BY <1>1, IterationsAssumption DEF BaseChoices
<1>2. CASE BaseCandidates(b) # {}
  <2>1. PICK c \in BaseCandidates(b) : x = c.it
    BY <1>2 DEF BaseChoices
  <2>2. c \in cands
    BY <2>1, FrontierSubset DEF BaseCandidates, Eligible
  <2> QED
    BY <2>1, <2>2 DEF TypeOK, ProcessTypeOK, Candidate
<1> QED
  BY <1>1, <1>2

LEMMA NextBudgetType == NextBudget \in Budgets
BY DEF NextBudget

LEMMA BudgetForType ==
  ASSUME TypeOK, NEW i
  PROVE  BudgetFor(i) \in Budgets
BY DEF BudgetFor, Or, TypeOK, FilesTypeOK, ProgressiveState

LEMMA TornStateType == TornProgressiveState \in ProgressiveState
BY DEF TornProgressiveState, ProgressiveState

LEMMA LostProcessType ==
  ASSUME TypeOK, ProcessLost
  PROVE  ProcessTypeOK'
<1>1. resuming' \in BOOLEAN
  BY DEF ProcessLost
<1>2. pc' \in RunStates
  BY DEF ProcessLost, RunStates
<1>3. base' \in 0 .. Iterations /\ iter' \in 0 .. Iterations + 1
  BY IterationsAssumption DEF ProcessLost
<1> QED
  BY <1>1, <1>2, <1>3 DEF ProcessLost, TypeOK, ProcessTypeOK

(* TypeOK is not inductive: the loop variable must be an iteration while an *)
(* iteration runs, and the candidate being scored must have been archived.  *)
InIteration == {"propose", "evaluate", "record", "row", "commit", "finish",
                "state"}

Positions ==
  /\ pc \in InIteration => iter \in 1 .. Iterations
  /\ pc \in {"save", "loop"} => iter >= 1
  /\ pc = "evaluate" => archive[iter] \in Sources /\ pending \in Names

TypeInv == TypeOK /\ Positions

LEMMA TypeInvInit == Init => TypeInv
<1> SUFFICES ASSUME Init PROVE TypeInv
  OBVIOUS
<1>1. prog \in ProgressiveState
  BY DEF Init, FirstProgressiveState, ProgressiveState
<1>2. FilesTypeOK
  BY <1>1, IterationsAssumption DEF Init, FilesTypeOK, Statuses
<1>3. ProcessTypeOK
  <2>1. resuming \in BOOLEAN /\ pc \in RunStates
    BY DEF Init, RunStates
  <2>2. iter \in 0 .. Iterations + 1 /\ base \in 0 .. Iterations
    BY IterationsAssumption DEF Init
  <2> QED
    BY <2>1, <2>2 DEF Init, ProcessTypeOK
<1> QED
  BY <1>2, <1>3 DEF Init, TypeInv, TypeOK, Positions, InIteration

LEMMA TypeStep ==
  ASSUME TypeInv, [Next]_vars
  PROVE  TypeInv'
<1>0. TypeOK /\ FilesTypeOK /\ ProcessTypeOK /\ Positions
  BY DEF TypeInv, TypeOK
<1> USE IterationsAssumption, <1>0 DEF TypeInv, TypeOK
<1>1. CASE LaunchFresh
  <2>1. FilesTypeOK'
    BY <1>1
    DEF LaunchFresh, FilesTypeOK, files
  <2>2. ProcessTypeOK'
    BY <1>1, SeedAssumption
    DEF LaunchFresh, ProcessTypeOK, RunStates
  <2>3. Positions'
    BY <1>1
    DEF LaunchFresh, Positions, InIteration, files
  <2> QED
    BY <2>1, <2>2, <2>3
<1>2. CASE LaunchBaseline
  <2>1. FilesTypeOK'
    BY <1>2
    DEF LaunchBaseline, FilesTypeOK, files
  <2>2. ProcessTypeOK'
    BY <1>2, BaselineAssumption
    DEF LaunchBaseline, ProcessTypeOK, RunStates, Candidate
  <2>3. Positions'
    BY <1>2
    DEF LaunchBaseline, Positions, InIteration, files
  <2> QED
    BY <2>1, <2>2, <2>3
<1>3. CASE LaunchResume
  <2>1. FilesTypeOK'
    BY <1>3
    DEF LaunchResume, FilesTypeOK, files
  <2>2. ProcessTypeOK'
    BY <1>3
    DEF LaunchResume, ProcessTypeOK, RunStates, FilesTypeOK
  <2>3. Positions'
    BY <1>3
    DEF LaunchResume, Positions, InIteration, files
  <2> QED
    BY <2>1, <2>2, <2>3
<1>4. CASE EvaluateSeed
  <2>1. PICK n \in todo :
          \/ stored' = stored /\ cands' = cands \cup CachedResult(0, n)
          \/ \E r \in Passrates :
               LET c == [it |-> 0, name |-> n, src |-> CleanSource,
                         rate |-> r]
               IN  StoreResult(c) /\ cands' = cands \cup {c}
    BY <1>4 DEF EvaluateSeed
  <2>2. \A r \in Passrates :
          [it |-> 0, name |-> n, src |-> CleanSource, rate |-> r]
            \in Candidate
    <3>1. n \in Names /\ 0 \in 0 .. Iterations
      BY DEF ProcessTypeOK
    <3> QED
      BY <3>1, ResultType
  <2>3. stored' \subseteq Candidate
    BY <2>1, <2>2 DEF StoreResult, FilesTypeOK
  <2>4. cands' \subseteq Candidate
    BY <2>1, <2>2
    DEF StoreResult, CachedResult, FilesTypeOK, ProcessTypeOK
  <2>5. FilesTypeOK'
    BY <1>4, <2>3 DEF EvaluateSeed, FilesTypeOK
  <2>6. ProcessTypeOK'
    <3>1. todo' \subseteq Names /\ pc' \in RunStates
      BY <1>4, SeedAssumption DEF EvaluateSeed, RunStates, ProcessTypeOK
    <3> QED
      BY <1>4, <2>4, <3>1 DEF EvaluateSeed, ProcessTypeOK
  <2>7. Positions'
    BY <1>4 DEF EvaluateSeed, Positions, InIteration
  <2> QED
    BY <2>5, <2>6, <2>7
<1>5. CASE RecordSeed
  <2>1. FilesTypeOK'
    BY <1>5
    DEF RecordSeed, FilesTypeOK, Statuses, ProcessTypeOK
  <2>2. ProcessTypeOK'
    BY <1>5
    DEF RecordSeed, ProcessTypeOK, RunStates
  <2>3. Positions'
    BY <1>5
    DEF RecordSeed, Positions, InIteration
  <2> QED
    BY <2>1, <2>2, <2>3
<1>6. CASE CommitSeeds
  <2>1. FilesTypeOK'
    BY <1>6
    DEF CommitSeeds, FilesTypeOK, Statuses
  <2>2. ProcessTypeOK'
    BY <1>6
    DEF CommitSeeds, ProcessTypeOK, RunStates
  <2>3. Positions'
    BY <1>6
    DEF CommitSeeds, Positions, InIteration
  <2> QED
    BY <2>1, <2>2, <2>3
<1>7. CASE Resume
  <2>1. FilesTypeOK'
    <3>1. prog' \in ProgressiveState
      BY <1>7 DEF Resume, Rederived, ProgressiveState, Or, FilesTypeOK
    <3>2. archive' \in [1 .. Iterations -> Sources \cup {NoSource}]
      BY <1>7 DEF Resume, CleanArchive, FilesTypeOK
    <3>3. rows' \in [0 .. Iterations -> Nat]
      BY <1>7 DEF Resume, CleanRows, FilesTypeOK
    <3> QED
      BY <1>7, <3>1, <3>2, <3>3 DEF Resume, FilesTypeOK
  <2>2. ProcessTypeOK'
    BY <1>7
    DEF Resume, ProcessTypeOK, RunStates
  <2>3. Positions'
    BY <1>7
    DEF Resume, Positions, InIteration
  <2> QED
    BY <2>1, <2>2, <2>3
<1>8. CASE SaveBest
  <2>1. FilesTypeOK'
    BY <1>8, FrontierSubset
    DEF SaveBest, FilesTypeOK, ProcessTypeOK
  <2>2. ProcessTypeOK'
    BY <1>8
    DEF SaveBest, ProcessTypeOK, RunStates
  <2>3. Positions'
    BY <1>8
    DEF SaveBest, Positions, InIteration
  <2> QED
    BY <2>1, <2>2, <2>3
<1>9. CASE StartIteration
  <2>1. FilesTypeOK'
    BY <1>9
    DEF StartIteration, FilesTypeOK, Statuses, Positions, InIteration
  <2>2. ProcessTypeOK'
    <3>1. base' \in 0 .. Iterations
      BY <1>9, BaseChoicesType DEF StartIteration
    <3>2. budget' \in Budgets
      BY <1>9, BudgetForType DEF StartIteration
    <3> QED
      BY <1>9, <3>1, <3>2 DEF StartIteration, ProcessTypeOK, RunStates
  <2>3. Positions'
    BY <1>9
    DEF StartIteration, Positions, InIteration, FilesTypeOK, ProcessTypeOK
  <2> QED
    BY <2>1, <2>2, <2>3
<1>10. CASE ProposerRejected
  <2>1. FilesTypeOK'
    BY <1>10
    DEF ProposerRejected, FilesTypeOK, files
  <2>2. ProcessTypeOK'
    BY <1>10
    DEF ProposerRejected, ProcessTypeOK, RunStates
  <2>3. Positions'
    BY <1>10
    DEF ProposerRejected, Positions, InIteration, files
  <2> QED
    BY <2>1, <2>2, <2>3
<1>11. CASE ProposerFailed
  <2>1. FilesTypeOK'
    BY <1>11
    DEF ProposerFailed, FilesTypeOK
  <2>2. ProcessTypeOK'
    BY <1>11
    DEF ProposerFailed, ProcessTypeOK, RunStates
  <2>3. Positions'
    BY <1>11
    DEF ProposerFailed, Positions, InIteration, FilesTypeOK, ProcessTypeOK
  <2> QED
    BY <2>1, <2>2, <2>3
<1>12. CASE Propose
  <2>1. FilesTypeOK'
    BY <1>12
    DEF Propose, FilesTypeOK
  <2>2. ProcessTypeOK'
    BY <1>12
    DEF Propose, ProcessTypeOK, RunStates
  <2>3. Positions'
    BY <1>12
    DEF Propose, Positions, InIteration, FilesTypeOK, ProcessTypeOK
  <2> QED
    BY <2>1, <2>2, <2>3
<1>13. CASE RejectCandidate
  <2>1. FilesTypeOK'
    BY <1>13
    DEF RejectCandidate, FilesTypeOK, files
  <2>2. ProcessTypeOK'
    BY <1>13
    DEF RejectCandidate, ProcessTypeOK, RunStates
  <2>3. Positions'
    BY <1>13
    DEF RejectCandidate, Positions, InIteration, files
  <2> QED
    BY <2>1, <2>2, <2>3
<1>14. CASE ReuseResult
  <2>1. FilesTypeOK'
    BY <1>14
    DEF ReuseResult, FilesTypeOK, files
  <2>2. ProcessTypeOK'
    BY <1>14
    DEF ReuseResult, ProcessTypeOK, RunStates, CachedResult, FilesTypeOK
  <2>3. Positions'
    BY <1>14
    DEF ReuseResult, Positions, InIteration, files
  <2> QED
    BY <2>1, <2>2, <2>3
<1>15. CASE EvaluateCandidate
  <2>1. FilesTypeOK'
    <3>1. iter \in 0 .. Iterations
      BY <1>15 DEF EvaluateCandidate, Positions, InIteration
    <3>2. stored' \subseteq Candidate
      BY <1>15, <3>1, ResultType
      DEF EvaluateCandidate, StoreResult, Positions, FilesTypeOK
    <3> QED
      BY <1>15, <3>2 DEF EvaluateCandidate, FilesTypeOK
  <2>2. ProcessTypeOK'
    BY <1>15
    DEF EvaluateCandidate, ProcessTypeOK, RunStates, Candidate, Positions, InIteration
  <2>3. Positions'
    BY <1>15
    DEF EvaluateCandidate, Positions, InIteration
  <2> QED
    BY <2>1, <2>2, <2>3
<1>16. CASE RecordCandidate
  <2>1. FilesTypeOK'
    BY <1>16
    DEF RecordCandidate, FilesTypeOK, Statuses, ProcessTypeOK
  <2>2. ProcessTypeOK'
    BY <1>16
    DEF RecordCandidate, ProcessTypeOK, RunStates
  <2>3. Positions'
    BY <1>16
    DEF RecordCandidate, Positions, InIteration
  <2> QED
    BY <2>1, <2>2, <2>3
<1>17. CASE AppendRow
  <2>1. FilesTypeOK'
    <3>1. rows' \in [0 .. Iterations -> Nat]
      <4>1. iter \in 0 .. Iterations
        BY <1>17 DEF AppendRow, Positions, InIteration
      <4>2. rows[iter] + 1 \in Nat
        BY <4>1 DEF FilesTypeOK
      <4>3. rows' = [rows EXCEPT ![iter] = rows[iter] + 1]
        BY <1>17 DEF AppendRow
      <4> QED
        BY <4>2, <4>3 DEF FilesTypeOK
    <3> QED
      BY <1>17, <3>1 DEF AppendRow, FilesTypeOK
  <2>2. ProcessTypeOK'
    BY <1>17
    DEF AppendRow, ProcessTypeOK, RunStates
  <2>3. Positions'
    BY <1>17
    DEF AppendRow, Positions, InIteration
  <2> QED
    BY <2>1, <2>2, <2>3
<1>18. CASE CommitIteration
  <2>1. FilesTypeOK'
    BY <1>18
    DEF CommitIteration, FilesTypeOK, Statuses
  <2>2. ProcessTypeOK'
    BY <1>18
    DEF CommitIteration, ProcessTypeOK, RunStates
  <2>3. Positions'
    BY <1>18
    DEF CommitIteration, Positions, InIteration
  <2> QED
    BY <2>1, <2>2, <2>3
<1>19. CASE FinishIteration
  <2>1. FilesTypeOK'
    BY <1>19, FrontierSubset
    DEF FinishIteration, FilesTypeOK, ProcessTypeOK
  <2>2. ProcessTypeOK'
    BY <1>19
    DEF FinishIteration, ProcessTypeOK, RunStates
  <2>3. Positions'
    BY <1>19
    DEF FinishIteration, Positions, InIteration
  <2> QED
    BY <2>1, <2>2, <2>3
<1>20. CASE UpdateState
  <2>1. FilesTypeOK'
    <3>1. prog' \in ProgressiveState
      BY <1>20, NextBudgetType
      DEF UpdateState, UpdatedProgressiveState, ProgressiveState,
          FilesTypeOK, ProcessTypeOK
    <3> QED
      BY <1>20, <3>1 DEF UpdateState, FilesTypeOK
  <2>2. ProcessTypeOK'
    BY <1>20
    DEF UpdateState, ProcessTypeOK, RunStates, Positions, InIteration
  <2>3. Positions'
    BY <1>20
    DEF UpdateState, Positions, InIteration, ProcessTypeOK
  <2> QED
    BY <2>1, <2>2, <2>3
<1>21. CASE Complete
  <2>1. FilesTypeOK'
    BY <1>21
    DEF Complete, FilesTypeOK, files
  <2>2. ProcessTypeOK'
    BY <1>21
    DEF Complete, ProcessTypeOK, RunStates
  <2>3. Positions'
    BY <1>21
    DEF Complete, Positions, InIteration, files
  <2> QED
    BY <2>1, <2>2, <2>3
<1>22. CASE Crash
  <2>1. FilesTypeOK'
    BY <1>22
    DEF Crash, FilesTypeOK, files
  <2>2. ProcessTypeOK'
    BY <1>22, LostProcessType DEF Crash
  <2>3. Positions'
    BY <1>22
    DEF Crash, Positions, InIteration, ProcessLost, files
  <2> QED
    BY <2>1, <2>2, <2>3
<1>23. CASE CrashInResultWrite
  <2>1. FilesTypeOK'
    BY <1>23
    DEF CrashInResultWrite, FilesTypeOK
  <2>2. ProcessTypeOK'
    BY <1>23, LostProcessType DEF CrashInResultWrite
  <2>3. Positions'
    BY <1>23
    DEF CrashInResultWrite, Positions, InIteration, ProcessLost
  <2> QED
    BY <2>1, <2>2, <2>3
<1>24. CASE CrashInBestWrite
  <2>1. FilesTypeOK'
    BY <1>24
    DEF CrashInBestWrite, FilesTypeOK
  <2>2. ProcessTypeOK'
    BY <1>24, LostProcessType DEF CrashInBestWrite
  <2>3. Positions'
    BY <1>24
    DEF CrashInBestWrite, Positions, InIteration, ProcessLost
  <2> QED
    BY <2>1, <2>2, <2>3
<1>25. CASE CrashInStateWrite
  <2>1. FilesTypeOK'
    BY <1>25, TornStateType
    DEF CrashInStateWrite, FilesTypeOK
  <2>2. ProcessTypeOK'
    BY <1>25, LostProcessType DEF CrashInStateWrite
  <2>3. Positions'
    BY <1>25
    DEF CrashInStateWrite, Positions, InIteration, ProcessLost
  <2> QED
    BY <2>1, <2>2, <2>3
<1>26. CASE CrashInCleanup
  <2>1. FilesTypeOK'
    <3>1. archive' \in [1 .. Iterations -> Sources \cup {NoSource}]
      BY <1>26 DEF CrashInCleanup, CleanArchive, FilesTypeOK
    <3>2. rows' \in [0 .. Iterations -> Nat]
      <4>1. CASE rows' = rows
        BY <4>1 DEF FilesTypeOK
      <4>2. ASSUME NEW s \in 1 .. Iterations + 1, rows' = CleanRows(s)
            PROVE  rows' \in [0 .. Iterations -> Nat]
        BY <4>2 DEF FilesTypeOK, CleanRows
      <4>3. ASSUME NEW s \in 1 .. Iterations + 1,
                   NEW cut \in 0 .. s - 1, NEW n \in 0 .. rows[cut],
                   rows' = [[i \in 0 .. Iterations |->
                               IF i < cut THEN rows[i] ELSE 0]
                            EXCEPT ![cut] = n]
            PROVE  rows' \in [0 .. Iterations -> Nat]
        BY <4>3 DEF FilesTypeOK
      <4> QED
        BY <1>26, <4>1, <4>2, <4>3 DEF CrashInCleanup
    <3>3. prog' \in ProgressiveState
      BY <1>26, TornStateType DEF CrashInCleanup, FilesTypeOK
    <3> QED
      BY <1>26, <3>1, <3>2, <3>3 DEF CrashInCleanup, FilesTypeOK
  <2>2. ProcessTypeOK'
    BY <1>26, LostProcessType DEF CrashInCleanup
  <2>3. Positions'
    BY <1>26
    DEF CrashInCleanup, Positions, InIteration, ProcessLost
  <2> QED
    BY <2>1, <2>2, <2>3
<1>27. CASE CrashInRecord
  <2>1. FilesTypeOK'
    BY <1>27
    DEF CrashInRecord, FilesTypeOK, ProcessTypeOK, Statuses
  <2>2. ProcessTypeOK'
    BY <1>27, LostProcessType DEF CrashInRecord
  <2>3. Positions'
    BY <1>27
    DEF CrashInRecord, Positions, InIteration, ProcessLost
  <2> QED
    BY <2>1, <2>2, <2>3
<1>28. CASE UNCHANGED vars
  BY <1>28
  DEF vars, files, process, FilesTypeOK, ProcessTypeOK, Positions, InIteration
<1> QED
  BY <1>1, <1>2, <1>3, <1>4, <1>5, <1>6, <1>7, <1>8, <1>9, <1>10, <1>11,
     <1>12, <1>13, <1>14, <1>15, <1>16, <1>17, <1>18, <1>19, <1>20, <1>21,
     <1>22, <1>23, <1>24, <1>25, <1>26, <1>27, <1>28
  DEF Next, Launch, Step, Finished

LEMMA TypeInvariant == Spec => []TypeInv
BY TypeInvInit, TypeStep, PTL DEF Spec

(* Every variable keeps its type: no step of the loop, crash or relaunch    *)
(* leaves the run directory or the process in a shape the code cannot read. *)
THEOREM TypeCorrect == Spec => []TypeOK
<1>1. TypeInv => TypeOK
  BY DEF TypeInv
<1> QED
  BY <1>1, TypeInvariant, PTL

-----------------------------------------------------------------------------
(* The results of a run without --baseline-dir that is only ever started    *)
(* again with --resume                                                      *)

ResumeOnly == Baseline = {} /\ RelaunchModes \subseteq {"resume"}

(* The running iteration has left a result, and the process has not counted *)
(* it yet ...                                                               *)
NewResult ==
  \E c \in Candidate : /\ evaluated = {c}
                       /\ c.it = iter
                       /\ c.src = archive[iter]
                       /\ stored = cands \cup {c}
                       /\ \A d \in cands : d.it < iter

(* ... or every result on disk is in memory and of an earlier iteration.    *)
NoResult ==
  /\ evaluated = {}
  /\ cands = stored
  /\ \A c \in stored : c.it < iter

Phases ==
  /\ pc = "down" => cands = {} /\ evaluated = {}
  /\ pc \in {"seed", "seedrow", "commit0"} =>
       /\ evaluated = {}
       /\ cands = stored
       /\ \A c \in stored : IsSeed(c)
  /\ pc = "resume" => cands = stored /\ evaluated = {}
  /\ pc \in {"save", "loop", "propose", "evaluate", "done"} => NoResult
  /\ pc \in {"record", "row", "commit"} => NewResult
  /\ pc = "finish" => NewResult \/ NoResult
  /\ pc = "state" => cands = stored /\ \A c \in stored : c.it <= iter

(* The control state says which results exist, so a relaunch can tell where *)
(* to go on; with that, no iteration is scored twice and no archive under a *)
(* stored result is touched.                                                *)
ResultInv == Phases /\ SourceMatchesResult /\ OnePerIteration

LEMMA NothingCached ==
  ASSUME TypeInv, Phases, pc = "evaluate"
  PROVE  CachedResult(iter, pending) = {}
BY DEF Phases, NoResult, CachedResult, TypeInv, TypeOK, FilesTypeOK,
       ProcessTypeOK, Candidate

LEMMA ResultInvInit == Init => ResultInv
BY DEF Init, ResultInv, Phases, SourceMatchesResult, OnePerIteration

LEMMA ResultInvStep ==
  ASSUME ResumeOnly, TypeInv, ResultInv, [Next]_vars
  PROVE  ResultInv'
<1> USE DEF InIteration
<1>0. FilesTypeOK /\ ProcessTypeOK /\ Positions
  BY DEF TypeInv, TypeOK
<1> USE IterationsAssumption, <1>0
<1>1. CASE LaunchFresh
  BY <1>1
  DEF LaunchFresh, ResultInv, Phases, SourceMatchesResult,
      OnePerIteration, files, ResumeOnly
<1>2. CASE LaunchBaseline
  BY <1>2 DEF LaunchBaseline, ResumeOnly
<1>3. CASE LaunchResume
  BY <1>3
  DEF LaunchResume, ResultInv, Phases, SourceMatchesResult,
      OnePerIteration, files
<1>4. CASE EvaluateSeed
  <2>1. PICK n \in todo :
          \/ /\ CachedResult(0, n) # {}
             /\ stored' = stored /\ cands' = cands \cup CachedResult(0, n)
          \/ /\ CachedResult(0, n) = {}
             /\ \E r \in Passrates :
                  LET c == [it |-> 0, name |-> n, src |-> CleanSource,
                            rate |-> r]
                  IN  StoreResult(c) /\ cands' = cands \cup {c}
    BY <1>4 DEF EvaluateSeed
  <2>2. /\ archive' = archive /\ evaluated' = evaluated
        /\ pc' \in {"seed", "seedrow"}
        /\ cands = stored /\ \A c \in stored : IsSeed(c)
    BY <1>4 DEF EvaluateSeed, ResultInv, Phases
  <2>3. cands' = stored' /\ \A c \in stored' : IsSeed(c)
    <3>1. CASE stored' = stored /\ cands' = cands \cup CachedResult(0, n)
      BY <2>2, <3>1 DEF CachedResult
    <3>2. CASE CachedResult(0, n) = {} /\ \E r \in Passrates :
                  LET c == [it |-> 0, name |-> n, src |-> CleanSource,
                            rate |-> r]
                  IN  StoreResult(c) /\ cands' = cands \cup {c}
      <4>1. PICK r \in Passrates :
              /\ StoreResult([it |-> 0, name |-> n, src |-> CleanSource,
                              rate |-> r])
              /\ cands' = cands \cup
                   {[it |-> 0, name |-> n, src |-> CleanSource, rate |-> r]}
        BY <3>2
      <4>2. \A d \in stored : ~(d.it = 0 /\ d.name = n)
        BY <3>2 DEF CachedResult
      <4> QED
        BY <2>2, <4>1, <4>2 DEF StoreResult, SameId, IsSeed
    <3> QED
      BY <2>1, <3>1, <3>2
  <2>4. Phases'
    BY <1>4, <2>2, <2>3 DEF EvaluateSeed, ResultInv, Phases
  <2> QED
    BY <2>3, <2>4
    DEF ResultInv, SourceMatchesResult, OnePerIteration, IsSeed
<1>5. CASE RecordSeed
  BY <1>5
  DEF RecordSeed, ResultInv, Phases, SourceMatchesResult, OnePerIteration
<1>6. CASE CommitSeeds
  BY <1>6
  DEF CommitSeeds, ResultInv, Phases, SourceMatchesResult,
      OnePerIteration, NoResult, NewResult, FilesTypeOK, ProcessTypeOK,
      Positions, Candidate, IsSeed
<1>7. CASE Resume
  <2>1. PICK s \in 1 .. Iterations + 1 :
          /\ IsResumeStart(cands, s)
          /\ iter' = s
          /\ archive' = CleanArchive(s)
    BY <1>7 DEF Resume
  <2>2. \A c \in stored : c.it < s
    <3>1. \A c \in stored : c.it # 0 => c.it \in Completed(cands)
      BY <1>7 DEF Resume, ResultInv, Phases, Completed
    <3> QED
      BY <2>1, <3>1 DEF IsResumeStart, FilesTypeOK, Candidate
  <2>3. Phases'
    BY <1>7, <2>1, <2>2 DEF Resume, ResultInv, Phases, NoResult
  <2>4. SourceMatchesResult'
    BY <1>7, <2>1, <2>2
    DEF Resume, ResultInv, SourceMatchesResult, CleanArchive, FilesTypeOK,
        Candidate, IsSeed
  <2> QED
    BY <1>7, <2>3, <2>4 DEF Resume, ResultInv, OnePerIteration
<1>8. CASE SaveBest
  BY <1>8
  DEF SaveBest, ResultInv, Phases, SourceMatchesResult, OnePerIteration,
      NoResult, NewResult
<1>9. CASE StartIteration
  BY <1>9
  DEF StartIteration, ResultInv, Phases, SourceMatchesResult,
      OnePerIteration, NoResult, NewResult
<1>10. CASE ProposerRejected
  BY <1>10
  DEF ProposerRejected, ResultInv, Phases, SourceMatchesResult,
      OnePerIteration, files, NoResult, NewResult
<1>11. CASE ProposerFailed
  <2>1. \A c \in stored : c.it < iter /\ c.it \in 0 .. Iterations
    BY <1>11 DEF ProposerFailed, ResultInv, Phases, NoResult, FilesTypeOK, Candidate
  <2>2. \A i \in 1 .. Iterations : i # iter => archive'[i] = archive[i]
    BY <1>11 DEF ProposerFailed, FilesTypeOK
  <2>3. Phases'
    BY <1>11 DEF ProposerFailed, ResultInv, Phases, NoResult
  <2>4. SourceMatchesResult'
    BY <1>11, <2>1, <2>2
    DEF ProposerFailed, ResultInv, SourceMatchesResult, ProcessTypeOK, IsSeed
  <2> QED
    BY <1>11, <2>3, <2>4 DEF ProposerFailed, ResultInv, OnePerIteration
<1>12. CASE Propose
  <2>1. \A c \in stored : c.it < iter /\ c.it \in 0 .. Iterations
    BY <1>12 DEF Propose, ResultInv, Phases, NoResult, FilesTypeOK, Candidate
  <2>2. \A i \in 1 .. Iterations : i # iter => archive'[i] = archive[i]
    BY <1>12 DEF Propose, FilesTypeOK
  <2>3. Phases'
    BY <1>12 DEF Propose, ResultInv, Phases, NoResult
  <2>4. SourceMatchesResult'
    BY <1>12, <2>1, <2>2
    DEF Propose, ResultInv, SourceMatchesResult, ProcessTypeOK, IsSeed
  <2> QED
    BY <1>12, <2>3, <2>4 DEF Propose, ResultInv, OnePerIteration
<1>13. CASE RejectCandidate
  BY <1>13
  DEF RejectCandidate, ResultInv, Phases, SourceMatchesResult,
      OnePerIteration, files, NoResult, NewResult
<1>14. CASE ReuseResult
  BY <1>14, NothingCached DEF ReuseResult, ResultInv
<1>15. CASE EvaluateCandidate
  <2>1. PICK r \in Passrates :
          /\ StoreResult([it |-> iter, name |-> pending,
                          src |-> archive[iter], rate |-> r])
          /\ evaluated' = {[it |-> iter, name |-> pending,
                            src |-> archive[iter], rate |-> r]}
    BY <1>15 DEF EvaluateCandidate
  <2> DEFINE c == [it |-> iter, name |-> pending, src |-> archive[iter],
                   rate |-> r]
  <2>2. c \in Candidate /\ c.it = iter /\ c.src = archive[iter]
    BY <1>15, ResultType
    DEF EvaluateCandidate, Positions, InIteration
  <2>3. cands = stored /\ \A d \in stored : d.it < iter
    BY <1>15 DEF EvaluateCandidate, ResultInv, Phases, NoResult
  <2> HIDE DEF c
  <2>4. \A d \in stored : ~SameId(c, d)
    BY <2>2, <2>3 DEF SameId, FilesTypeOK, ProcessTypeOK, Candidate
  <2>5. stored' = stored \cup {c} /\ evaluated' = {c}
    BY <2>1, <2>4 DEF StoreResult, c
  <2>6. NewResult'
    BY <1>15, <2>2, <2>3, <2>5 DEF EvaluateCandidate, NewResult
  <2>7. Phases'
    BY <1>15, <2>6 DEF EvaluateCandidate, Phases
  <2>8. SourceMatchesResult'
    BY <1>15, <2>2, <2>5
    DEF EvaluateCandidate, ResultInv, SourceMatchesResult
  <2>9. OnePerIteration'
    BY <2>2, <2>3, <2>5
    DEF ResultInv, OnePerIteration, FilesTypeOK, ProcessTypeOK, Candidate
  <2> QED
    BY <2>7, <2>8, <2>9 DEF ResultInv
<1>16. CASE RecordCandidate
  BY <1>16
  DEF RecordCandidate, ResultInv, Phases, SourceMatchesResult,
      OnePerIteration, NoResult, NewResult
<1>17. CASE AppendRow
  BY <1>17
  DEF AppendRow, ResultInv, Phases, SourceMatchesResult, OnePerIteration,
      NoResult, NewResult
<1>18. CASE CommitIteration
  BY <1>18
  DEF CommitIteration, ResultInv, Phases, SourceMatchesResult,
      OnePerIteration, NoResult, NewResult
<1>19. CASE FinishIteration
  <2>1. /\ cands' = cands \cup evaluated
        /\ pc' = "state"
        /\ UNCHANGED <<stored, archive, iter>>
    BY <1>19 DEF FinishIteration
  <2>2. NewResult \/ NoResult
    BY <1>19 DEF FinishIteration, ResultInv, Phases
  <2>3. cands' = stored
    BY <2>1, <2>2 DEF NewResult, NoResult
  <2>4. \A c \in stored : c.it <= iter
    BY <2>2 DEF NewResult, NoResult, FilesTypeOK, ProcessTypeOK, Candidate
  <2>5. Phases'
    BY <2>1, <2>3, <2>4 DEF Phases
  <2> QED
    BY <2>1, <2>5 DEF ResultInv, SourceMatchesResult, OnePerIteration
<1>20. CASE UpdateState
  BY <1>20
  DEF UpdateState, ResultInv, Phases, SourceMatchesResult,
      OnePerIteration, NoResult, NewResult, FilesTypeOK, ProcessTypeOK,
      Positions, Candidate, IsSeed
<1>21. CASE Complete
  BY <1>21
  DEF Complete, ResultInv, Phases, SourceMatchesResult, OnePerIteration,
      files, NoResult, NewResult
<1>22. CASE Crash
  BY <1>22
  DEF Crash, ResultInv, Phases, SourceMatchesResult, OnePerIteration,
      files, ProcessLost
<1>23. CASE CrashInResultWrite
  BY <1>23, NothingCached
  DEF CrashInResultWrite, ResultInv, Phases, SourceMatchesResult,
      OnePerIteration, ProcessLost
<1>24. CASE CrashInBestWrite
  BY <1>24
  DEF CrashInBestWrite, ResultInv, Phases, SourceMatchesResult,
      OnePerIteration, ProcessLost
<1>25. CASE CrashInStateWrite
  BY <1>25
  DEF CrashInStateWrite, ResultInv, Phases, SourceMatchesResult,
      OnePerIteration, ProcessLost
<1>26. CASE CrashInCleanup
  <2>1. PICK s \in 1 .. Iterations + 1 :
          /\ IsResumeStart(cands, s)
          /\ \A i \in 1 .. Iterations : i < s => archive'[i] = archive[i]
    BY <1>26 DEF CrashInCleanup, CleanArchive
  <2>2. \A c \in stored : c.it < s
    <3>1. \A c \in stored : c.it # 0 => c.it \in Completed(cands)
      BY <1>26 DEF CrashInCleanup, ResultInv, Phases, Completed
    <3> QED
      BY <2>1, <3>1 DEF IsResumeStart, FilesTypeOK, Candidate
  <2>3. Phases'
    BY <1>26 DEF CrashInCleanup, ProcessLost, Phases
  <2>4. SourceMatchesResult'
    BY <1>26, <2>1, <2>2
    DEF CrashInCleanup, ResultInv, SourceMatchesResult, FilesTypeOK,
        Candidate, IsSeed
  <2> QED
    BY <1>26, <2>3, <2>4 DEF CrashInCleanup, ResultInv, OnePerIteration
<1>27. CASE CrashInRecord
  BY <1>27
  DEF CrashInRecord, ResultInv, Phases, SourceMatchesResult,
      OnePerIteration, ProcessLost
<1>28. CASE UNCHANGED vars
  BY <1>28
  DEF vars, files, process, ResultInv, Phases, SourceMatchesResult,
      OnePerIteration, NoResult, NewResult
<1> QED
  BY <1>1, <1>2, <1>3, <1>4, <1>5, <1>6, <1>7, <1>8, <1>9, <1>10, <1>11,
     <1>12, <1>13, <1>14, <1>15, <1>16, <1>17, <1>18, <1>19, <1>20, <1>21,
     <1>22, <1>23, <1>24, <1>25, <1>26, <1>27, <1>28
  DEF Next, Launch, Step, Finished

LEMMA ResultInvariant ==
  ASSUME ResumeOnly
  PROVE  Spec => []ResultInv
BY ResultInvInit, ResultInvStep, TypeInvariant, PTL DEF Spec

(* However often a run crashes and is resumed, each stored result was       *)
(* measured on the source archived beside it.                               *)
THEOREM ResultsMatchSources ==
  ASSUME ResumeOnly
  PROVE  Spec => []SourceMatchesResult
<1>1. ResultInv => SourceMatchesResult
  BY DEF ResultInv
<1> QED
  BY <1>1, ResultInvariant, PTL

(* However often a run crashes and is resumed, no iteration leaves two      *)
(* results.                                                                 *)
THEOREM OneResultPerIteration ==
  ASSUME ResumeOnly
  PROVE  Spec => []OnePerIteration
<1>1. ResultInv => OnePerIteration
  BY DEF ResultInv
<1> QED
  BY <1>1, ResultInvariant, PTL

(* The loop of a resumed run never falls back to a completed iteration.     *)
THEOREM ResumeContinues ==
  ASSUME ResumeOnly
  PROVE  Spec => [](NeverRerunCompleted /\ MemoryIsDisk)
<1>1. ResultInv => NeverRerunCompleted /\ MemoryIsDisk
  BY DEF ResultInv, Phases, NoResult, NeverRerunCompleted, MemoryIsDisk
<1> QED
  BY <1>1, ResultInvariant, PTL

-----------------------------------------------------------------------------
(* Relaunches of every kind, with other flags than before                   *)

(* Where the process ranks something and where an iteration has returned    *)
(* something, however the run was started: results of an earlier launch may *)
(* lie beside these, of the running iteration and of later ones too.        *)
Ranking ==
  /\ pc = "down" => cands = {}
  /\ pc \in {"down", "seed", "seedrow", "commit0"} => \A c \in cands : IsSeed(c)
  /\ pc \in (InIteration \ {"state"}) \cup {"save", "loop"} =>
       \A c \in cands : c.it < iter
  /\ evaluated # {} => pc \in {"record", "row", "commit", "finish", "state"}
  /\ pc # "state" => evaluated \subseteq stored /\ \A c \in evaluated : c.it = iter
  /\ pc = "state" => \A c \in cands : c.it <= iter

RankInv == Ranking /\ RankedResultsOnDisk

SeedsStay == \A c \in stored : IsSeed(c) => c \in stored'

(* Only the two evaluations and a crash in the write of a result touch the  *)
(* results, and none of them touches a seed that is there already or an     *)
(* earlier iteration.                                                       *)
LEMMA WritesAreOwn ==
  ASSUME TypeInv, [Next]_vars,
         NEW c \in stored, c \notin stored'
  PROVE  pc = "evaluate" /\ c.it = iter
<1>1. CASE EvaluateSeed
  BY <1>1 DEF EvaluateSeed, StoreResult, CachedResult, SameId
<1>2. CASE EvaluateCandidate
  BY <1>2 DEF EvaluateCandidate, StoreResult, SameId
<1>3. CASE CrashInResultWrite
  BY <1>3 DEF CrashInResultWrite, CachedResult
<1>4. CASE Launch
  BY <1>4 DEF Launch, LaunchFresh, LaunchBaseline, LaunchResume, files
<1>5. CASE \/ RecordSeed \/ CommitSeeds \/ Resume \/ SaveBest \/ StartIteration
           \/ ProposerRejected \/ ProposerFailed \/ Propose
           \/ RejectCandidate \/ ReuseResult
  BY <1>5
  DEF RecordSeed, CommitSeeds, Resume, SaveBest, StartIteration,
      ProposerRejected, ProposerFailed, Propose, RejectCandidate, ReuseResult,
      files
<1>6. CASE \/ RecordCandidate \/ AppendRow \/ CommitIteration \/ FinishIteration
           \/ UpdateState \/ Complete
  BY <1>6
  DEF RecordCandidate, AppendRow, CommitIteration, FinishIteration,
      UpdateState, Complete, files
<1>7. CASE \/ Crash \/ CrashInRecord \/ CrashInBestWrite \/ CrashInStateWrite
           \/ CrashInCleanup
  BY <1>7
  DEF Crash, CrashInRecord, CrashInBestWrite, CrashInStateWrite,
      CrashInCleanup, files
<1>8. CASE UNCHANGED vars
  BY <1>8 DEF vars, files
<1> QED
  BY <1>1, <1>2, <1>3, <1>4, <1>5, <1>6, <1>7, <1>8 DEF Next, Step, Finished

LEMMA RankInvStep ==
  ASSUME TypeInv, RankInv, [Next]_vars
  PROVE  RankInv'
<1> USE DEF InIteration, RankInv, Ranking, RankedResultsOnDisk
<1>0. FilesTypeOK /\ ProcessTypeOK /\ Positions
  BY DEF TypeInv, TypeOK
<1> USE <1>0, IterationsAssumption
<1>1. CASE LaunchFresh \/ LaunchResume
  BY <1>1 DEF LaunchFresh, LaunchResume, files
<1>2. CASE LaunchBaseline
  BY <1>2, BaselineAssumption DEF LaunchBaseline, files
<1>3. CASE EvaluateSeed
  <2>1. stored \subseteq stored'
    BY <1>3, WritesAreOwn DEF EvaluateSeed
  <2>2. PICK new \in SUBSET stored' :
          /\ cands' = cands \cup new
          /\ \A c \in new : IsSeed(c)
    <3>1. CASE \E n \in todo : /\ cands' = cands \cup CachedResult(0, n)
                             /\ UNCHANGED stored
      BY <3>1 DEF CachedResult, IsSeed
    <3>2. CASE \E n \in todo, r \in Passrates :
                 LET c == [it |-> 0, name |-> n, src |-> CleanSource,
                           rate |-> r]
                 IN  StoreResult(c) /\ cands' = cands \cup {c}
      <4>1. PICK c : c.it = 0 /\ StoreResult(c) /\ cands' = cands \cup {c}
        BY <3>2
      <4> QED
        BY <4>1 DEF StoreResult, IsSeed
    <3> QED
      BY <1>3, <3>1, <3>2 DEF EvaluateSeed
  <2>3. pc = "seed" /\ pc' \in {"seed", "seedrow"} /\ evaluated' = evaluated
    BY <1>3 DEF EvaluateSeed
  <2> QED
    BY <2>1, <2>2, <2>3
<1>4. CASE RecordSeed \/ CommitSeeds
  BY <1>4 DEF RecordSeed, CommitSeeds, IsSeed
<1>5. CASE Resume
  <2>1. \A c \in cands : c.it < iter'
    BY <1>5 DEF Resume, IsResumeStart, Completed, ProcessTypeOK, Candidate
  <2> QED
    BY <1>5, <2>1 DEF Resume
<1>6. CASE SaveBest \/ StartIteration \/ Complete
  <2>1. /\ pc \in {"save", "loop"} /\ pc' \in {"loop", "propose", "done"}
        /\ UNCHANGED <<stored, iter, cands, evaluated>>
    BY <1>6 DEF SaveBest, StartIteration, Complete, files
  <2> QED
    BY <2>1
<1>7. CASE ProposerRejected \/ ProposerFailed \/ Propose \/ RejectCandidate
  BY <1>7
  DEF ProposerRejected, ProposerFailed, Propose, RejectCandidate, files
<1>8. CASE ReuseResult
  BY <1>8 DEF ReuseResult, CachedResult, files
<1>9. CASE EvaluateCandidate
  <2>1. \A c \in cands : c \in stored => c \in stored'
    BY <1>9, WritesAreOwn DEF EvaluateCandidate, ProcessTypeOK, Candidate
  <2>2. evaluated' \subseteq stored' /\ \A c \in evaluated' : c.it = iter
    BY <1>9 DEF EvaluateCandidate, StoreResult
  <2>3. cands' = cands /\ iter' = iter /\ pc = "evaluate" /\ pc' = "record"
    BY <1>9 DEF EvaluateCandidate
  <2> QED
    BY <2>1, <2>2, <2>3
<1>10. CASE RecordCandidate \/ AppendRow \/ CommitIteration
  BY <1>10 DEF RecordCandidate, AppendRow, CommitIteration
<1>11. CASE FinishIteration
  BY <1>11 DEF FinishIteration, ProcessTypeOK, Candidate
<1>12. CASE UpdateState
  BY <1>12 DEF UpdateState, ProcessTypeOK, Candidate
<1>13. CASE \/ Crash \/ CrashInResultWrite \/ CrashInRecord
            \/ CrashInBestWrite \/ CrashInStateWrite \/ CrashInCleanup
  BY <1>13
  DEF Crash, CrashInResultWrite, CrashInRecord, CrashInBestWrite,
      CrashInStateWrite, CrashInCleanup, ProcessLost
<1>14. CASE UNCHANGED vars
  BY <1>14 DEF vars, files, process
<1> QED
  BY <1>1, <1>2, <1>3, <1>4, <1>5, <1>6, <1>7, <1>8, <1>9, <1>10, <1>11,
     <1>12, <1>13, <1>14
  DEF Next, Launch, Step, Finished

(* In a directory that is started again in any way, without --resume and    *)
(* with --baseline-dir too, no scored seed is lost or scored again, and     *)
(* what the process ranks is on disk or in the baseline.                    *)
THEOREM RelaunchIsSound == Spec => RelaunchSound
<1>1. Init => RankInv
  BY DEF Init, RankInv, Ranking, RankedResultsOnDisk, InIteration
<1>2. ASSUME TypeInv, [Next]_vars PROVE SeedsStay
  <2>1. SUFFICES ASSUME NEW c \in stored, IsSeed(c), c \notin stored'
                 PROVE  FALSE
    BY DEF SeedsStay
  <2>2. pc = "evaluate" /\ c.it = iter
    BY <1>2, <2>1, WritesAreOwn
  <2> QED
    BY <1>2, <2>1, <2>2, IterationsAssumption
    DEF IsSeed, TypeInv, Positions, InIteration
<1>3. TypeInv /\ [Next]_vars => [SeedsStay]_vars
  BY <1>2
<1>4. RankInv => RankedResultsOnDisk
  BY DEF RankInv
<1>5. Spec => []RankedResultsOnDisk
  BY <1>1, <1>4, RankInvStep, TypeInvariant, PTL DEF Spec
<1>6. Spec => [][SeedsStay]_vars
  BY <1>3, TypeInvariant, PTL DEF Spec
<1> QED
  BY <1>5, <1>6, PTL DEF RelaunchSound, SeedsKept, SeedsStay

-----------------------------------------------------------------------------
(* The run moves on, whatever flags an interrupted run is started with      *)

(* The first place that differs decides. *)
LEMMA Forward ==
  ASSUME \/ crashes < crashes'
         \/ /\ crashes' = crashes
            /\ \/ Stretch < Stretch'
               \/ /\ Stretch' = Stretch
                  /\ \/ iter < iter'
                     \/ /\ iter' = iter
                        /\ \/ Stride < Stride'
                           \/ /\ Stride' = Stride
                              /\ -Cardinality(todo) < -Cardinality(todo')
  PROVE  Precedes(Place, Place')
<1>1. DOMAIN Place = 1 .. 5
  BY DEF Place
<1>2. /\ Place[1] = crashes /\ Place[2] = Stretch /\ Place[3] = iter
      /\ Place[4] = Stride /\ Place[5] = -Cardinality(todo)
  BY DEF Place
<1>3. /\ Place'[1] = crashes' /\ Place'[2] = Stretch' /\ Place'[3] = iter'
      /\ Place'[4] = Stride' /\ Place'[5] = -Cardinality(todo')
  BY DEF Place
<1>4. PICK k \in 1 .. 5 : /\ Place[k] < Place'[k]
                          /\ k > 1 => Place[1] = Place'[1]
                          /\ k > 2 => Place[2] = Place'[2]
                          /\ k > 3 => Place[3] = Place'[3]
                          /\ k > 4 => Place[4] = Place'[4]
  BY <1>2, <1>3
<1>5. \A j \in 1 .. k - 1 : j = 1 \/ j = 2 \/ j = 3 \/ j = 4
  BY <1>4
<1>6. \A j \in 1 .. k - 1 : Place[j] = Place'[j]
  BY <1>4, <1>5
<1> QED
  BY <1>1, <1>4, <1>6 DEF Precedes

SeedInv == todo \subseteq SeedTasks /\ crashes \in 0 .. MaxCrashes

LEMMA TasksFinite ==
  ASSUME NEW S \in SUBSET SeedTasks
  PROVE  /\ IsFiniteSet(S)
         /\ Cardinality(S) \in 0 .. Cardinality(SeedTasks)
<1> DEFINE named  == {c.name : c \in Baseline}
           nameOf == [c \in Baseline |-> c.name]
<1>1. IsFiniteSet(named)
  <2>1. nameOf \in Surjection(Baseline, named)
    BY DEF Surjection
  <2> HIDE DEF nameOf, named
  <2> QED
    BY <2>1, BaselineAssumption, FS_Surjection
<1>2. IsFiniteSet(SeedTasks)
  BY <1>1, SeedAssumption, FS_Union DEF SeedTasks
<1>3. IsFiniteSet(S) /\ Cardinality(S) <= Cardinality(SeedTasks)
  BY <1>2, FS_Subset
<1>4. Cardinality(S) \in Nat /\ Cardinality(SeedTasks) \in Nat
  BY <1>2, <1>3, FS_CardinalityType
<1> QED
  BY <1>3, <1>4

(* One seed less to do. *)
LEMMA TaskDone ==
  ASSUME SeedInv, NEW n \in todo
  PROVE  -Cardinality(todo) < -Cardinality(todo \ {n})
<1>1. IsFiniteSet(todo) /\ Cardinality(todo) \in Nat
  BY TasksFinite, FS_CardinalityType DEF SeedInv
<1>2. Cardinality(todo \ {n}) = Cardinality(todo) - 1
  BY <1>1, FS_RemoveElement
<1> QED
  BY <1>1, <1>2

LEMMA SeedInvariant == Spec => []SeedInv
<1>1. Init => SeedInv
  BY BoundsAssumption DEF Init, SeedInv
<1>2. TypeInv /\ SeedInv /\ [Next]_vars => SeedInv'
  <2> SUFFICES ASSUME TypeInv, SeedInv, [Next]_vars
               PROVE  SeedInv'
    OBVIOUS
  <2> USE DEF SeedInv
  <2>1. CASE LaunchFresh \/ LaunchBaseline
    BY <2>1 DEF LaunchFresh, LaunchBaseline, SeedTasks
  <2>2. CASE EvaluateSeed
    <3>1. PICK n \in todo : todo' = IF todo = {n} THEN SeedNames ELSE todo \ {n}
      BY <2>2 DEF EvaluateSeed
    <3> QED
      BY <2>2, <3>1 DEF EvaluateSeed, SeedTasks
  <2>3. CASE RecordSeed
    BY <2>3 DEF RecordSeed
  <2>4. ASSUME todo' = todo, crashes' = crashes
        PROVE  SeedInv'
    BY <2>4
  <2>5. CASE LaunchResume \/ CommitSeeds \/ Resume \/ SaveBest \/ StartIteration
    BY <2>4, <2>5
    DEF LaunchResume, CommitSeeds, Resume, SaveBest, StartIteration
  <2>6. CASE \/ ProposerRejected \/ ProposerFailed \/ Propose
             \/ RejectCandidate \/ ReuseResult \/ EvaluateCandidate
    BY <2>4, <2>6
    DEF ProposerRejected, ProposerFailed, Propose, RejectCandidate, ReuseResult,
        EvaluateCandidate
  <2>7. CASE \/ RecordCandidate \/ AppendRow \/ CommitIteration
             \/ FinishIteration \/ UpdateState \/ Complete
    BY <2>4, <2>7
    DEF RecordCandidate, AppendRow, CommitIteration, FinishIteration,
        UpdateState, Complete
  <2>8. CASE ProcessLost
    BY <2>8, BoundsAssumption DEF ProcessLost, SeedTasks
  <2>9. CASE UNCHANGED vars
    BY <2>4, <2>9 DEF vars, process
  <2> QED
    BY <2>1, <2>2, <2>3, <2>5, <2>6, <2>7, <2>8, <2>9
    DEF Next, Launch, Step, Finished, Crash, CrashInResultWrite, CrashInRecord,
        CrashInBestWrite, CrashInStateWrite, CrashInCleanup
<1> QED
  BY <1>1, <1>2, TypeInvariant, PTL DEF Spec

LEMMA SeedingForward ==
  ASSUME TypeInv, SeedInv,
         Launch \/ EvaluateSeed \/ RecordSeed \/ CommitSeeds \/ Resume \/ SaveBest
  PROVE  Precedes(Place, Place')
<1>1. CASE Launch \/ CommitSeeds \/ Resume \/ SaveBest
  <2>1. \/ pc = "down" /\ pc' \in {"seed", "seedrow", "resume"}
        \/ pc \in {"commit0", "resume"} /\ pc' = "save"
        \/ pc = "save" /\ pc' = "loop"
    BY <1>1
    DEF Launch, LaunchFresh, LaunchBaseline, LaunchResume, CommitSeeds, Resume,
        SaveBest
  <2>2. crashes' = crashes
    BY <1>1
    DEF Launch, LaunchFresh, LaunchBaseline, LaunchResume, CommitSeeds, Resume,
        SaveBest
  <2>3. Stretch < Stretch'
    BY <2>1 DEF Stretch
  <2> QED
    BY <2>2, <2>3, Forward
<1>2. CASE EvaluateSeed
  <2>1. PICK n \in todo :
          /\ todo' = IF todo = {n} THEN SeedNames ELSE todo \ {n}
          /\ pc' = IF todo = {n} THEN "seedrow" ELSE "seed"
    BY <1>2 DEF EvaluateSeed
  <2>2. crashes' = crashes /\ iter' = iter /\ pc = "seed"
    BY <1>2 DEF EvaluateSeed
  <2>3. CASE todo = {n}
    BY <2>1, <2>2, <2>3, Forward DEF Stretch
  <2>4. CASE todo # {n}
    <3>1. Stretch' = Stretch /\ Stride' = Stride
      BY <2>1, <2>2, <2>4 DEF Stretch, Stride
    <3> QED
      BY <2>1, <2>2, <2>4, <3>1, TaskDone, Forward
  <2> QED
    BY <2>3, <2>4
<1>3. CASE RecordSeed
  <2>1. PICK n \in todo :
          /\ todo' = todo \ {n}
          /\ pc' = IF todo # {n} THEN "seedrow"
                   ELSE IF resuming THEN "resume" ELSE "commit0"
    BY <1>3 DEF RecordSeed
  <2>2. crashes' = crashes /\ iter' = iter /\ pc = "seedrow"
    BY <1>3 DEF RecordSeed
  <2>3. CASE todo = {n}
    <3>1. Stretch < Stretch'
      BY <2>1, <2>2, <2>3 DEF Stretch
    <3> QED
      BY <2>2, <3>1, Forward
  <2>4. CASE todo # {n}
    <3>1. Stretch' = Stretch /\ Stride' = Stride
      BY <2>1, <2>2, <2>4 DEF Stretch, Stride
    <3> QED
      BY <2>1, <2>2, <3>1, TaskDone, Forward
  <2> QED
    BY <2>3, <2>4
<1> QED
  BY <1>1, <1>2, <1>3

LEMMA IterationForward ==
  ASSUME TypeInv,
         \/ StartIteration
         \/ ProposerRejected \/ ProposerFailed \/ Propose
         \/ RejectCandidate \/ ReuseResult \/ EvaluateCandidate
         \/ RecordCandidate \/ AppendRow \/ CommitIteration
         \/ FinishIteration \/ UpdateState \/ Complete
  PROVE  Precedes(Place, Place')
<1>1. CASE StartIteration \/ ProposerRejected \/ ProposerFailed \/ Propose
  <2>1. crashes' = crashes /\ iter' = iter
    BY <1>1 DEF StartIteration, ProposerRejected, ProposerFailed, Propose
  <2>2. \/ pc = "loop" /\ pc' = "propose"
        \/ pc = "propose" /\ pc' \in {"evaluate", "finish"}
    BY <1>1 DEF StartIteration, ProposerRejected, ProposerFailed, Propose
  <2>3. Stretch' = Stretch /\ Stride < Stride'
    BY <2>2 DEF Stretch, Stride
  <2> QED
    BY <2>1, <2>3, Forward
<1>2. CASE RejectCandidate \/ ReuseResult \/ EvaluateCandidate
  <2>1. crashes' = crashes /\ iter' = iter
    BY <1>2 DEF RejectCandidate, ReuseResult, EvaluateCandidate
  <2>2. pc = "evaluate" /\ pc' \in {"record", "finish"}
    BY <1>2 DEF RejectCandidate, ReuseResult, EvaluateCandidate
  <2>3. Stretch' = Stretch /\ Stride < Stride'
    BY <2>2 DEF Stretch, Stride
  <2> QED
    BY <2>1, <2>3, Forward
<1>3. CASE RecordCandidate \/ AppendRow \/ CommitIteration \/ FinishIteration
  <2>1. crashes' = crashes /\ iter' = iter
    BY <1>3 DEF RecordCandidate, AppendRow, CommitIteration, FinishIteration
  <2>2. \/ pc = "record" /\ pc' = "row"
        \/ pc = "row" /\ pc' = "commit"
        \/ pc = "commit" /\ pc' = "finish"
        \/ pc = "finish" /\ pc' = "state"
    BY <1>3 DEF RecordCandidate, AppendRow, CommitIteration, FinishIteration
  <2>3. Stretch' = Stretch /\ Stride < Stride'
    BY <2>2 DEF Stretch, Stride
  <2> QED
    BY <2>1, <2>3, Forward
<1>4. CASE UpdateState
  <2>1. crashes' = crashes /\ iter < iter'
    BY <1>4 DEF UpdateState, TypeInv, TypeOK, ProcessTypeOK
  <2>2. Stretch' = Stretch
    BY <1>4 DEF UpdateState, Stretch
  <2> QED
    BY <2>1, <2>2, Forward
<1>5. CASE Complete
  <2>1. crashes' = crashes /\ Stretch < Stretch'
    BY <1>5 DEF Complete, Stretch
  <2> QED
    BY <2>1, Forward
<1> QED
  BY <1>1, <1>2, <1>3, <1>4, <1>5

(* Whatever is proposed, wherever the process dies and with whatever flags  *)
(* it is started again, every step takes the run past all it did before, to *)
(* the last of finitely many places.                                        *)
THEOREM RunMovesOn == Spec => MovesOn
<1>1. TypeInv /\ SeedInv => Place \in Places
  <2> SUFFICES ASSUME TypeInv, SeedInv PROVE Place \in Places
    OBVIOUS
  <2>1. Cardinality(todo) \in 0 .. Cardinality(SeedTasks)
    BY TasksFinite DEF SeedInv
  <2>2. Cardinality(SeedTasks) \in Nat
    BY TasksFinite, FS_CardinalityType
  <2>3. -Cardinality(todo) \in -Cardinality(SeedTasks) .. 0
    BY <2>1, <2>2
  <2>4. Stretch \in 0 .. 6 /\ Stride \in 0 .. 7
    BY DEF Stretch, Stride
  <2> QED
    BY <2>3, <2>4
    DEF Place, Places, SeedInv, TypeInv, TypeOK, ProcessTypeOK
<1>2. TypeInv /\ SeedInv /\ [Next]_vars => [Precedes(Place, Place')]_vars
  <2> SUFFICES ASSUME TypeInv, SeedInv, Next
               PROVE  [Precedes(Place, Place')]_vars
    OBVIOUS
  <2>1. CASE Launch \/ Step
    BY <2>1, SeedingForward, IterationForward DEF Step
  <2>2. CASE ProcessLost
    <3>1. crashes < crashes'
      BY <2>2 DEF ProcessLost, SeedInv
    <3> QED
      BY <3>1, Forward
  <2>3. CASE Finished
    BY <2>3 DEF Finished
  <2> QED
    BY <2>1, <2>2, <2>3
    DEF Next, Crash, CrashInResultWrite, CrashInRecord, CrashInBestWrite,
        CrashInStateWrite, CrashInCleanup
<1> QED
  BY <1>1, <1>2, TypeInvariant, SeedInvariant, PTL DEF Spec, MovesOn

-----------------------------------------------------------------------------
(* The ledger *)

LEMMA SeedStepScores ==
  ASSUME TypeInv, ResultInv, EvaluateSeed
  PROVE  [Ledger!LedgerNext]_<<stored, best>>
<1>1. PICK n \in todo :
        \/ stored' = stored
        \/ /\ CachedResult(0, n) = {}
           /\ \E r \in Passrates :
                StoreResult([it |-> 0, name |-> n, src |-> CleanSource,
                             rate |-> r])
  BY DEF EvaluateSeed
<1>2. best' = best /\ \A d \in stored : IsSeed(d)
  BY DEF EvaluateSeed, ResultInv, Phases
<1>3. ASSUME NEW r \in Passrates, CachedResult(0, n) = {},
             StoreResult([it |-> 0, name |-> n, src |-> CleanSource,
                          rate |-> r])
      PROVE  Ledger!LedgerNext
  <2> DEFINE c == [it |-> 0, name |-> n, src |-> CleanSource, rate |-> r]
  <2>1. c \in Candidate
    BY ResultType, IterationsAssumption DEF TypeInv, TypeOK, ProcessTypeOK
  <2>2. \A d \in stored : d.name # n
    BY <1>2, <1>3 DEF CachedResult, IsSeed
  <2>3. stored' = stored \cup {c}
    BY <1>3, <2>2 DEF StoreResult, SameId
  <2>4. c.it = 0 /\ c.name = n
    OBVIOUS
  <2> HIDE DEF c
  <2>5. Ledger!Score(c)
    BY <1>2, <2>2, <2>3, <2>4 DEF Ledger!Score, IsSeed
  <2> QED
    BY <2>1, <2>5 DEF Ledger!LedgerNext
<1> QED
  BY <1>1, <1>2, <1>3

LEMMA EvaluateStepScores ==
  ASSUME TypeInv, ResultInv, EvaluateCandidate
  PROVE  [Ledger!LedgerNext]_<<stored, best>>
<1>1. PICK r \in Passrates :
        StoreResult([it |-> iter, name |-> pending, src |-> archive[iter],
                     rate |-> r])
  BY DEF EvaluateCandidate
<1> DEFINE c == [it |-> iter, name |-> pending, src |-> archive[iter],
                 rate |-> r]
<1>2. c \in Candidate
  BY ResultType, IterationsAssumption
  DEF EvaluateCandidate, TypeInv, Positions, InIteration
<1>3. c.it = iter /\ best' = best /\ \A d \in stored : d.it < iter
  BY DEF EvaluateCandidate, ResultInv, Phases, NoResult
<1> HIDE DEF c
<1>4. \A d \in stored : ~SameId(c, d)
  BY <1>3
  DEF SameId, TypeInv, TypeOK, FilesTypeOK, ProcessTypeOK, Candidate
<1>5. stored' = stored \cup {c}
  BY <1>1, <1>4 DEF StoreResult, c
<1>6. Ledger!Score(c)
  BY <1>3, <1>5 DEF Ledger!Score
<1> QED
  BY <1>2, <1>6 DEF Ledger!LedgerNext

LEMMA PublishSteps ==
  ASSUME TypeInv, ResultInv, SaveBest \/ FinishIteration
  PROVE  Ledger!LedgerNext
<1>1. CASE SaveBest
  BY <1>1
  DEF SaveBest, ResultInv, Phases, NoResult, Ledger!LedgerNext,
      Ledger!Publish
<1>2. CASE FinishIteration
  <2>1. cands \cup evaluated = stored
    BY <1>2
    DEF FinishIteration, ResultInv, Phases, NewResult, NoResult
  <2> QED
    BY <1>2, <2>1
    DEF FinishIteration, Ledger!LedgerNext, Ledger!Publish
<1> QED
  BY <1>1, <1>2

LEMMA LedgerStep ==
  ASSUME ResumeOnly, TypeInv, ResultInv, [Next]_vars
  PROVE  [Ledger!LedgerNext]_<<stored, best>>
<1>1. CASE EvaluateSeed \/ EvaluateCandidate
  BY <1>1, SeedStepScores, EvaluateStepScores
<1>2. CASE SaveBest \/ FinishIteration
  BY <1>2, PublishSteps
<1>3. CASE CrashInResultWrite
  BY <1>3, NothingCached DEF CrashInResultWrite, ResultInv
<1>4. CASE CrashInBestWrite
  BY <1>4 DEF CrashInBestWrite, Ledger!LedgerNext, Ledger!Lose
<1>5. CASE Launch
  BY <1>5
  DEF Launch, LaunchFresh, LaunchBaseline, LaunchResume, files
<1>6. CASE \/ RecordSeed \/ CommitSeeds \/ Resume \/ StartIteration
           \/ ProposerRejected \/ ProposerFailed \/ Propose
           \/ RejectCandidate \/ ReuseResult
  BY <1>6
  DEF RecordSeed, CommitSeeds, Resume, StartIteration, ProposerRejected,
      ProposerFailed, Propose, RejectCandidate, ReuseResult, files
<1>7. CASE \/ RecordCandidate \/ AppendRow \/ CommitIteration \/ UpdateState
           \/ Complete
  BY <1>7
  DEF RecordCandidate, AppendRow, CommitIteration, UpdateState, Complete,
      files
<1>8. CASE Crash \/ CrashInRecord \/ CrashInStateWrite \/ CrashInCleanup
  BY <1>8 DEF Crash, CrashInRecord, CrashInStateWrite, CrashInCleanup, files
<1>9. CASE UNCHANGED vars
  BY <1>9 DEF vars, files
<1> QED
  BY <1>1, <1>2, <1>3, <1>4, <1>5, <1>6, <1>7, <1>8, <1>9
  DEF Next, Step, Finished

(* candidate_results/ and best_candidates.json implement RunLedger: scored  *)
(* candidates are only ever added, in the order of their iterations, and a  *)
(* readable frontier is that of a whole prefix of them, over any number of  *)
(* crashes and resumes.                                                     *)
THEOREM RunKeepsLedger ==
  ASSUME ResumeOnly
  PROVE  Spec => KeepsLedger
<1>1. Init => Ledger!LedgerInit
  BY DEF Init, Ledger!LedgerInit
<1> QED
  BY <1>1, LedgerStep, TypeInvariant, ResultInvariant, PTL
  DEF Spec, KeepsLedger, Ledger!LedgerSpec

-----------------------------------------------------------------------------
(* The archived sources *)

(* Ahead of the running iteration the archive is empty, and so is all of it *)
(* until the seeds are through: a relaunch that finds no result, and so     *)
(* cleans nothing, finds no source either.                                  *)
AheadInv ==
  /\ pc \notin {"down", "seed"} => stored # {}
  /\ stored = {} \/ pc \in {"seed", "seedrow", "commit0"} =>
       \A i \in 1 .. Iterations : archive[i] = NoSource
  /\ pc \in {"save", "loop", "propose"} =>
       \A i \in 1 .. Iterations : i >= iter => archive[i] = NoSource
  /\ pc \in InIteration =>
       \A i \in 1 .. Iterations : i > iter => archive[i] = NoSource

LEMMA AheadInvInit == Init => AheadInv
BY DEF Init, AheadInv, InIteration

LEMMA AheadInvStep ==
  ASSUME ResumeOnly, TypeInv, ResultInv, AheadInv, [Next]_vars
  PROVE  AheadInv'
<1> USE IterationsAssumption DEF InIteration, AheadInv
<1>0. iter \in 0 .. Iterations + 1 /\ pc \in RunStates
  BY DEF TypeInv, TypeOK, ProcessTypeOK
<1>1. CASE LaunchFresh
  BY <1>1 DEF LaunchFresh, ResumeOnly, files
<1>2. CASE LaunchBaseline
  BY <1>2 DEF LaunchBaseline, ResumeOnly
<1>3. CASE LaunchResume
  BY <1>3 DEF LaunchResume, files
<1>4. CASE EvaluateSeed
  <2>1. /\ pc = "seed" /\ pc' \in {"seed", "seedrow"}
        /\ archive' = archive
    BY <1>4 DEF EvaluateSeed
  <2>2. stored' # {}
    BY <1>4 DEF EvaluateSeed, CachedResult, StoreResult
  <2> QED
    BY <2>1, <2>2
<1>5. CASE RecordSeed \/ CommitSeeds
  BY <1>5 DEF RecordSeed, CommitSeeds
<1>6. CASE Resume
  <2>1. PICK s \in 1 .. Iterations + 1 : iter' = s /\ archive' = CleanArchive(s)
    BY <1>6 DEF Resume
  <2>2. pc = "resume" /\ pc' = "save" /\ stored' = stored
    BY <1>6 DEF Resume
  <2> QED
    BY <2>1, <2>2 DEF CleanArchive
<1>7. CASE SaveBest \/ StartIteration \/ Complete
  BY <1>0, <1>7 DEF SaveBest, StartIteration, Complete, files
<1>8. CASE ProposerRejected \/ RejectCandidate \/ ReuseResult
  BY <1>8 DEF ProposerRejected, RejectCandidate, ReuseResult, files
<1>9. CASE ProposerFailed \/ Propose
  <2>1. /\ pc = "propose" /\ pc' \in {"finish", "evaluate"}
        /\ stored' = stored /\ iter' = iter
        /\ \A i \in 1 .. Iterations : i # iter => archive'[i] = archive[i]
    BY <1>9 DEF ProposerFailed, Propose, TypeInv, TypeOK, FilesTypeOK
  <2> QED
    BY <1>0, <2>1
<1>10. CASE EvaluateCandidate
  <2>1. stored' # {}
    BY <1>10 DEF EvaluateCandidate, StoreResult
  <2> QED
    BY <1>10, <2>1 DEF EvaluateCandidate
<1>11. CASE RecordCandidate \/ AppendRow \/ CommitIteration \/ FinishIteration
  BY <1>11 DEF RecordCandidate, AppendRow, CommitIteration, FinishIteration
<1>12. CASE UpdateState
  BY <1>0, <1>12 DEF UpdateState
<1>13. CASE CrashInResultWrite
  BY <1>13, NothingCached DEF CrashInResultWrite, ProcessLost, ResultInv
<1>14. CASE CrashInCleanup
  <2>1. stored # {} /\ stored' = stored /\ pc' = "down"
    BY <1>14 DEF CrashInCleanup, ProcessLost
  <2> QED
    BY <2>1
<1>15. CASE Crash \/ CrashInRecord \/ CrashInBestWrite \/ CrashInStateWrite
  BY <1>15
  DEF Crash, CrashInRecord, CrashInBestWrite, CrashInStateWrite, ProcessLost,
      files
<1>16. CASE UNCHANGED vars
  BY <1>16 DEF vars, files, process
<1> QED
  BY <1>1, <1>2, <1>3, <1>4, <1>5, <1>6, <1>7, <1>8, <1>9, <1>10, <1>11,
     <1>12, <1>13, <1>14, <1>15, <1>16
  DEF Next, Launch, Step, Finished

(* Where an iteration stands for SourceLedger. *)
Phase == IF pc \in {"propose", "evaluate"} THEN pc ELSE "idle"

At == IF pc \in {"propose", "evaluate"} THEN iter ELSE 0

LEMMA CompletedBefore ==
  ASSUME TypeInv, NEW s \in Int, IsResumeStart(stored, s)
  PROVE  \A i \in 1 .. Iterations :
           i >= s => i \in {k \in 1 .. Iterations : \A j \in Completed(stored) : j < k}
<1>1. \A j \in Completed(stored) : j \in Int /\ j < s
  BY IterationsAssumption
  DEF IsResumeStart, Completed, TypeInv, TypeOK, FilesTypeOK, Candidate
<1> QED
  BY <1>1

LEMMA CleaningStep ==
  ASSUME TypeInv, ResultInv, Resume \/ CrashInCleanup
  PROVE  Sourced!Clean
<1> USE IterationsAssumption DEF InIteration
<1>1. PICK s \in 1 .. Iterations + 1 :
        /\ IsResumeStart(cands, s)
        /\ \/ archive' = CleanArchive(s)
           \/ \E left \in SUBSET (s .. Iterations) :
                archive' = [i \in 1 .. Iterations |->
                              IF i >= s /\ i \notin left THEN NoSource
                              ELSE archive[i]]
  BY DEF Resume, CrashInCleanup
<1>2. PICK dropped \in SUBSET {i \in 1 .. Iterations : i >= s} :
        archive' = [i \in 1 .. Iterations |->
                      IF i \in dropped THEN NoSource ELSE archive[i]]
  <2>1. CASE archive' = CleanArchive(s)
    <3> DEFINE d == {i \in 1 .. Iterations : i >= s}
    <3>1. archive' = [i \in 1 .. Iterations |->
                        IF i \in d THEN NoSource ELSE archive[i]]
      BY <2>1 DEF CleanArchive
    <3> QED
      BY <3>1
  <2>2. ASSUME NEW left \in SUBSET (s .. Iterations),
               archive' = [i \in 1 .. Iterations |->
                             IF i >= s /\ i \notin left THEN NoSource
                             ELSE archive[i]]
        PROVE  \E d \in SUBSET {i \in 1 .. Iterations : i >= s} :
                 archive' = [i \in 1 .. Iterations |->
                               IF i \in d THEN NoSource ELSE archive[i]]
    <3> DEFINE d == {i \in 1 .. Iterations : i >= s /\ i \notin left}
    <3>1. archive' = [i \in 1 .. Iterations |->
                        IF i \in d THEN NoSource ELSE archive[i]]
      BY <2>2
    <3> QED
      BY <3>1
  <2> QED
    BY <1>1, <2>1, <2>2
<1>3. cands = stored /\ pc = "resume" /\ pc' \in {"save", "down"} /\ stored' = stored
  BY DEF Resume, CrashInCleanup, ProcessLost, ResultInv, Phases
<1>4. dropped \in SUBSET {i \in 1 .. Iterations : \A j \in Completed(stored) : j < i}
  BY <1>1, <1>2, <1>3, CompletedBefore
<1> QED
  BY <1>2, <1>3, <1>4 DEF Sourced!Clean

LEMMA SourcedStep ==
  ASSUME ResumeOnly, TypeInv, ResultInv, AheadInv, [Next]_vars
  PROVE  [Sourced!SourceNext]_<<archive, Completed(stored), Phase, At>>
<1> USE IterationsAssumption DEF InIteration, Phase, At
<1>0. archive \in [1 .. Iterations -> Sources \cup {NoSource}]
  BY DEF TypeInv, TypeOK, FilesTypeOK
<1>1. CASE Launch \/ RecordSeed \/ CommitSeeds \/ SaveBest \/ Complete
  <2>1. /\ pc \notin {"propose", "evaluate"} /\ pc' \notin {"propose", "evaluate"}
        /\ archive' = archive /\ stored' = stored
    BY <1>1
    DEF Launch, LaunchFresh, LaunchBaseline, LaunchResume, RecordSeed,
        CommitSeeds, SaveBest, Complete, files
  <2> QED
    BY <2>1
<1>2. CASE EvaluateSeed
  <2>1. ResultInv'
    BY <1>2, ResultInvStep DEF Next, Step
  <2>2. /\ pc = "seed" /\ pc' \in {"seed", "seedrow"} /\ archive' = archive
        /\ \A c \in stored : IsSeed(c)
        /\ \A c \in stored' : IsSeed(c)
    BY <1>2, <2>1 DEF EvaluateSeed, ResultInv, Phases
  <2>3. Completed(stored) = {} /\ Completed(stored') = {}
    BY <2>2 DEF Completed, IsSeed
  <2>4. Completed(stored)' = Completed(stored)
    BY <2>3 DEF Completed
  <2> QED
    BY <2>2, <2>4
<1>3. CASE Resume \/ CrashInCleanup
  BY <1>3, CleaningStep DEF Sourced!SourceNext
<1>4. CASE StartIteration
  <2>1. /\ iter \in 1 .. Iterations /\ iter' = iter
        /\ pc = "loop" /\ pc' = "propose"
        /\ archive' = archive /\ stored' = stored /\ archive[iter] = NoSource
        /\ \A c \in stored : c.it < iter
    BY <1>4
    DEF StartIteration, TypeInv, TypeOK, ProcessTypeOK, Positions, ResultInv,
        Phases, NoResult, AheadInv
  <2>2. \A j \in Completed(stored) : j < iter
    BY <2>1 DEF Completed
  <2>3. Sourced!Begin(iter)
    BY <2>1, <2>2 DEF Sourced!Begin
  <2> QED
    BY <2>1, <2>3 DEF Sourced!SourceNext
<1>5. CASE ProposerRejected \/ RejectCandidate
  <2>1. /\ pc \in {"propose", "evaluate"} /\ pc' = "finish"
        /\ archive' = archive /\ stored' = stored
    BY <1>5 DEF ProposerRejected, RejectCandidate, files
  <2>2. Sourced!GiveUp
    BY <2>1 DEF Sourced!GiveUp, Sourced!Ended
  <2> QED
    BY <2>2 DEF Sourced!SourceNext
<1>6. CASE ProposerFailed
  <2>1. Sourced!GiveUp
    BY <1>6 DEF ProposerFailed, Sourced!GiveUp, Sourced!Ended
  <2> QED
    BY <2>1 DEF Sourced!SourceNext
<1>7. CASE Propose
  <2>1. Sourced!Offer
    BY <1>7 DEF Propose, Sourced!Offer
  <2> QED
    BY <2>1 DEF Sourced!SourceNext
<1>8. CASE ReuseResult
  BY <1>8, NothingCached DEF ReuseResult, ResultInv
<1>9. CASE EvaluateCandidate
  <2>1. NewResult'
    BY <1>9, ResultInvStep DEF Next, Step, EvaluateCandidate, ResultInv, Phases
  <2>2. /\ iter \in 1 .. Iterations /\ iter' = iter /\ cands' = stored
        /\ pc = "evaluate" /\ pc' = "record" /\ archive' = archive
    BY <1>9
    DEF EvaluateCandidate, TypeInv, Positions, ResultInv, Phases, NoResult
  <2>3. PICK c : c.it = iter /\ stored' = stored \cup {c}
    BY <2>1, <2>2 DEF NewResult
  <2>4. Completed(stored)' = Completed(stored) \cup {iter}
    BY <2>2, <2>3 DEF Completed
  <2>5. Sourced!Score
    BY <2>2, <2>4 DEF Sourced!Score, Sourced!Ended
  <2> QED
    BY <2>5 DEF Sourced!SourceNext
<1>10. CASE \/ RecordCandidate \/ AppendRow \/ CommitIteration \/ FinishIteration
            \/ UpdateState
  <2>1. /\ pc \notin {"propose", "evaluate"} /\ pc' \notin {"propose", "evaluate"}
        /\ archive' = archive /\ stored' = stored
    BY <1>10
    DEF RecordCandidate, AppendRow, CommitIteration, FinishIteration, UpdateState
  <2> QED
    BY <2>1
<1>11. CASE \/ Crash \/ CrashInResultWrite \/ CrashInRecord
            \/ CrashInBestWrite \/ CrashInStateWrite
  <2>1. pc' = "down" /\ archive' = archive /\ stored' = stored
    BY <1>11, NothingCached
    DEF Crash, CrashInResultWrite, CrashInRecord, CrashInBestWrite,
        CrashInStateWrite, ProcessLost, ResultInv, files
  <2>2. CASE Phase = "idle"
    BY <2>1, <2>2
  <2>3. CASE Phase # "idle"
    <3>1. Sourced!GiveUp
      BY <2>1, <2>3 DEF Sourced!GiveUp, Sourced!Ended
    <3> QED
      BY <3>1 DEF Sourced!SourceNext
  <2> QED
    BY <2>2, <2>3
<1>12. CASE UNCHANGED vars
  BY <1>12 DEF vars, files, process, Completed
<1> QED
  BY <1>1, <1>2, <1>3, <1>4, <1>5, <1>6, <1>7, <1>8, <1>9, <1>10, <1>11, <1>12
  DEF Next, Step, Finished

LEMMA AheadInvariant ==
  ASSUME ResumeOnly
  PROVE  Spec => []AheadInv
BY AheadInvInit, AheadInvStep, TypeInvariant, ResultInvariant, PTL DEF Spec

(* proposer_calls/ and candidate_results/ implement SourceLedger: whatever  *)
(* crashed and was resumed, an iteration begins behind all scored ones and  *)
(* without a source of a lost attempt, and its source stays as it was       *)
(* scored.                                                                  *)
THEOREM RunKeepsSources ==
  ASSUME ResumeOnly
  PROVE  Spec => KeepsSources
<1>1. Init => Sourced!SourceInit
  BY DEF Init, Sourced!SourceInit, Completed
<1> QED
  BY <1>1, SourcedStep, TypeInvariant, ResultInvariant, AheadInvariant, PTL
  DEF Spec, KeepsSources, Sourced!SourceSpec, Phase, At

-----------------------------------------------------------------------------
(* The published frontier *)

FrontierPhases ==
  {"loop", "propose", "evaluate", "record", "row", "commit", "state"}

PublishInv == pc \in FrontierPhases => best = QualityFrontier(cands)

LEMMA PublishInvStep ==
  ASSUME PublishInv, [Next]_vars
  PROVE  PublishInv'
<1> USE DEF PublishInv, FrontierPhases
<1>1. CASE Launch \/ EvaluateSeed \/ RecordSeed \/ CommitSeeds \/ Resume
  BY <1>1
  DEF Launch, LaunchFresh, LaunchBaseline, LaunchResume, EvaluateSeed,
      RecordSeed, CommitSeeds, Resume
<1>2. CASE SaveBest
  BY <1>2 DEF SaveBest
<1>3. CASE \/ StartIteration \/ ProposerRejected \/ ProposerFailed \/ Propose
           \/ RejectCandidate \/ ReuseResult \/ EvaluateCandidate
  BY <1>3
  DEF StartIteration, ProposerRejected, ProposerFailed, Propose,
      RejectCandidate, ReuseResult, EvaluateCandidate, files
<1>4. CASE \/ RecordCandidate \/ AppendRow \/ CommitIteration
           \/ FinishIteration \/ Complete
  BY <1>4
  DEF RecordCandidate, AppendRow, CommitIteration, FinishIteration, Complete
<1>5. CASE UpdateState
  BY <1>5 DEF UpdateState
<1>6. CASE \/ Crash \/ CrashInResultWrite \/ CrashInRecord
           \/ CrashInBestWrite \/ CrashInStateWrite \/ CrashInCleanup
  BY <1>6
  DEF Crash, CrashInResultWrite, CrashInRecord, CrashInBestWrite,
      CrashInStateWrite, CrashInCleanup, ProcessLost
<1>7. CASE UNCHANGED vars
  BY <1>7 DEF vars, files, process
<1> QED
  BY <1>1, <1>2, <1>3, <1>4, <1>5, <1>6, <1>7 DEF Next, Step, Finished

(* While an iteration runs, best_candidates.json is the frontier of what    *)
(* the earlier iterations stored, in a resumed run as in a first one.       *)
THEOREM FrontierIsPublished ==
  ASSUME ResumeOnly
  PROVE  Spec => []PublishedFrontier
<1>1. Init => PublishInv
  BY DEF Init, PublishInv, FrontierPhases
<1>2. TypeInv /\ ResultInv /\ PublishInv => PublishedFrontier
  <2> SUFFICES ASSUME TypeInv, ResultInv, PublishInv,
                      pc \in {"loop", "propose", "evaluate", "record", "row",
                             "commit"}
               PROVE  cands = {c \in stored : c.it < iter}
    BY DEF PublishInv, FrontierPhases, PublishedFrontier
  <2>1. CASE pc \in {"loop", "propose", "evaluate"}
    BY <2>1 DEF ResultInv, Phases, NoResult
  <2>2. CASE pc \in {"record", "row", "commit"}
    BY <2>2
    DEF ResultInv, Phases, NewResult, TypeInv, TypeOK, ProcessTypeOK
  <2> QED
    BY <2>1, <2>2
<1> QED
  BY <1>1, <1>2, PublishInvStep, TypeInvariant, ResultInvariant, PTL DEF Spec

-----------------------------------------------------------------------------
(* The patch base *)

BaseInv ==
  /\ BaseSound
  /\ base # 0 => pc \in InIteration

LEMMA ChosenBaseSound ==
  ASSUME TypeInv, ResultInv, StartIteration, base' # 0
  PROVE  \E c \in stored : /\ c.it = base'
                           /\ base' < iter
                           /\ archive[base'] = c.src
                           /\ \A d \in stored : IsSeed(d) => d.rate < c.rate
<1>1. PICK c \in BaseCandidates(BudgetFor(iter)) : base' = c.it
  BY DEF StartIteration, BaseChoices
<1>2. /\ c \in cands
      /\ c.it \in 1 .. iter - 1
      /\ Beats(c.rate, Seeds(cands))
  BY <1>1, FrontierSubset DEF BaseCandidates, Eligible
<1>3. cands = stored
  BY DEF StartIteration, ResultInv, Phases, NoResult
<1>4. archive[c.it] = c.src
  BY <1>2, <1>3 DEF ResultInv, SourceMatchesResult, IsSeed
<1>5. \A d \in stored : IsSeed(d) => d.rate < c.rate
  <2> SUFFICES ASSUME NEW d \in stored, IsSeed(d)
               PROVE  d.rate < c.rate
    OBVIOUS
  <2>1. d \in Seeds(cands)
    BY <1>3 DEF Seeds
  <2>2. c.rate > d.rate
    BY <1>2, <2>1 DEF Beats
  <2> QED
    BY <1>2, <1>3, <2>2
    DEF TypeInv, TypeOK, FilesTypeOK, Candidate, Passrates
<1>6. c.it < iter
  BY <1>2 DEF TypeInv, TypeOK, ProcessTypeOK
<1> QED
  BY <1>1, <1>2, <1>3, <1>4, <1>5, <1>6

LEMMA BaseInvStep ==
  ASSUME ResumeOnly, TypeInv, ResultInv, BaseInv, [Next]_vars
  PROVE  BaseInv'
<1> USE DEF BaseInv, BaseSound, InIteration
<1>1. CASE Launch \/ EvaluateSeed \/ RecordSeed \/ CommitSeeds \/ Resume
           \/ SaveBest
  BY <1>1
  DEF Launch, LaunchFresh, LaunchBaseline, LaunchResume, EvaluateSeed,
      RecordSeed, CommitSeeds, Resume, SaveBest
<1>2. CASE StartIteration
  BY <1>2, ChosenBaseSound DEF StartIteration
<1>3. CASE Propose \/ ProposerFailed
  <2>1. /\ \A i \in 1 .. Iterations : i # iter => archive'[i] = archive[i]
        /\ pc' \in {"evaluate", "finish"}
        /\ UNCHANGED <<stored, base, iter>>
    BY <1>3
    DEF Propose, ProposerFailed, TypeInv, TypeOK, FilesTypeOK
  <2>2. base # 0 => base \in 1 .. Iterations /\ base < iter
    BY DEF TypeInv, TypeOK, ProcessTypeOK
  <2>3. base # 0 => base # iter
    BY <2>2 DEF TypeInv, TypeOK, ProcessTypeOK
  <2> QED
    BY <2>1, <2>2, <2>3
<1>4. CASE EvaluateCandidate
  <2>1. PICK r \in Passrates :
          StoreResult([it |-> iter, name |-> pending, src |-> archive[iter],
                       rate |-> r])
    BY <1>4 DEF EvaluateCandidate
  <2>2. /\ pc \in InIteration /\ pc' = "record"
        /\ UNCHANGED <<archive, base, iter>>
    BY <1>4 DEF EvaluateCandidate
  <2>3. iter # 0
    BY <2>2 DEF TypeInv, Positions
  <2>4. \A d \in stored' : IsSeed(d) => d \in stored
    BY <2>1, <2>3 DEF StoreResult, IsSeed
  <2>5. \A c \in stored : c.it < iter => c \in stored'
    BY <2>1
    DEF StoreResult, SameId, TypeInv, TypeOK, FilesTypeOK, ProcessTypeOK,
        Candidate
  <2> QED
    BY <2>2, <2>4, <2>5
<1>5. CASE \/ ProposerRejected \/ RejectCandidate \/ ReuseResult
           \/ RecordCandidate \/ AppendRow \/ CommitIteration
           \/ FinishIteration
  BY <1>5
  DEF ProposerRejected, RejectCandidate, ReuseResult, RecordCandidate,
      AppendRow, CommitIteration, FinishIteration, files
<1>6. CASE UpdateState \/ Complete
  BY <1>6 DEF UpdateState, Complete
<1>7. CASE \/ Crash \/ CrashInResultWrite \/ CrashInRecord
           \/ CrashInBestWrite \/ CrashInStateWrite \/ CrashInCleanup
  BY <1>7
  DEF Crash, CrashInResultWrite, CrashInRecord, CrashInBestWrite,
      CrashInStateWrite, CrashInCleanup, ProcessLost
<1>8. CASE UNCHANGED vars
  BY <1>8 DEF vars, files, process
<1> QED
  BY <1>1, <1>2, <1>3, <1>4, <1>5, <1>6, <1>7, <1>8 DEF Next, Step, Finished

(* The source an iteration patches is always that of an earlier iteration,  *)
(* as it was scored, and better than every seed.                            *)
THEOREM BaseIsSound ==
  ASSUME ResumeOnly
  PROVE  Spec => []BaseSound
<1>1. Init => BaseInv
  BY DEF Init, BaseInv, BaseSound
<1>2. BaseInv => BaseSound
  BY DEF BaseInv
<1> QED
  BY <1>1, <1>2, BaseInvStep, TypeInvariant, ResultInvariant, PTL DEF Spec

-----------------------------------------------------------------------------
(* RunStore and evolution_summary.jsonl *)

(* Between the writes of one iteration: the row is not there before the     *)
(* store row is, and it is written once.                                    *)
IndexInv ==
  /\ IndexesFollowResults
  /\ pc \in {"record", "row"} => rows[iter] = 0
  /\ pc \in {"row", "commit"} => evaluated \subseteq rsCands

LEMMA NothingIndexed ==
  ASSUME TypeInv, ResultInv, IndexInv, pc \in {"loop", "evaluate"},
         iter \in 1 .. Iterations
  PROVE  rows[iter] = 0
<1>1. \A c \in rsCands : c.it # iter
  BY DEF ResultInv, Phases, NoResult, IndexInv, IndexesFollowResults, TypeInv,
         TypeOK, FilesTypeOK, ProcessTypeOK, Candidate
<1>2. rows[iter] # 1 /\ rows[iter] <= 1
  BY <1>1 DEF IndexInv, IndexesFollowResults
<1>3. rows[iter] \in Nat
  BY DEF TypeInv, TypeOK, FilesTypeOK
<1> QED
  BY <1>2, <1>3

LEMMA StoredGrows ==
  ASSUME ResumeOnly, TypeInv, ResultInv, [Next]_vars
  PROVE  stored \subseteq stored'
BY LedgerStep DEF Ledger!LedgerNext, Ledger!Score, Ledger!Publish, Ledger!Lose

LEMMA IndexInvStep ==
  ASSUME ResumeOnly, TypeInv, ResultInv, IndexInv, [Next]_vars
  PROVE  IndexInv'
<1>0. /\ FilesTypeOK /\ ProcessTypeOK /\ Positions /\ Phases
      /\ stored \subseteq stored'
  BY StoredGrows DEF TypeInv, TypeOK, ResultInv
<1> USE <1>0, IterationsAssumption DEF IndexInv, IndexesFollowResults
<1>1. CASE Launch
  BY <1>1 DEF Launch, LaunchFresh, LaunchBaseline, LaunchResume, files
<1>2. CASE EvaluateSeed \/ CommitSeeds \/ SaveBest \/ Complete
  BY <1>2
  DEF EvaluateSeed, CommitSeeds, SaveBest, Complete, files, FilesTypeOK
<1>3. CASE RecordSeed
  <2>1. /\ \A i \in 1 .. Iterations : /\ rsStatus'[i] = rsStatus[i]
                                     /\ rows'[i] = rows[i]
        /\ rsCands \subseteq rsCands'
        /\ rsCands' \subseteq rsCands \cup cands
        /\ stored' = stored
        /\ pc' \in {"seedrow", "resume", "commit0"}
    BY <1>3 DEF RecordSeed, FilesTypeOK
  <2>2. cands = stored
    BY <1>3 DEF RecordSeed, Phases
  <2> QED
    BY <2>1, <2>2
<1>4. CASE Resume
  <2>1. /\ \A i \in 1 .. Iterations : rows'[i] = rows[i] \/ rows'[i] = 0
        /\ pc' = "save"
        /\ UNCHANGED <<stored, rsStatus, rsCands>>
    BY <1>4 DEF Resume, CleanRows
  <2> QED
    BY <2>1
<1>5. CASE StartIteration
  <2>1. iter \in 1 .. Iterations /\ pc = "loop" /\ pc' = "propose"
    BY <1>5 DEF StartIteration, Positions, ProcessTypeOK
  <2>2. /\ rsStatus' = [rsStatus EXCEPT ![iter] = "running"]
        /\ UNCHANGED <<stored, rows, rsCands>>
    BY <1>5 DEF StartIteration
  <2>3. rows[iter] = 0
    BY <2>1, NothingIndexed
  <2> QED
    BY <2>1, <2>2, <2>3 DEF FilesTypeOK
<1>6. CASE \/ ProposerRejected \/ ProposerFailed \/ Propose
           \/ RejectCandidate
  BY <1>6
  DEF ProposerRejected, ProposerFailed, Propose, RejectCandidate, files
<1>7. CASE ReuseResult
  BY <1>7, NothingCached DEF ReuseResult
<1>8. CASE EvaluateCandidate
  <2>1. pc = "evaluate" /\ iter \in 1 .. Iterations
    BY <1>8 DEF EvaluateCandidate, Positions, InIteration
  <2>2. /\ pc' = "record"
        /\ UNCHANGED <<rows, rsStatus, rsCands, iter>>
    BY <1>8 DEF EvaluateCandidate
  <2> QED
    BY <2>1, <2>2, NothingIndexed
<1>9. CASE RecordCandidate
  <2>1. PICK c \in Candidate :
          evaluated = {c} /\ c.it = iter /\ c \in stored
    BY <1>9 DEF RecordCandidate, Phases, NewResult
  <2>2. /\ rsCands' = {d \in rsCands : ~SameId(d, c)} \cup {c}
        /\ rsStatus' = [rsStatus EXCEPT ![iter] = "recorded"]
        /\ pc' = "row"
        /\ UNCHANGED <<stored, rows, evaluated, iter>>
    BY <1>9, <2>1 DEF RecordCandidate
  <2>3. rsCands' \subseteq stored'
    BY <2>1, <2>2
  <2>4. \A i \in 1 .. Iterations :
          /\ rsStatus'[i] \in {"recorded", "committed"} =>
               \E d \in stored' : d.it = i
          /\ rsStatus'[i] = "committed" => rsStatus[i] = "committed"
    BY <2>1, <2>2 DEF FilesTypeOK
  <2>5. \A i \in 1 .. Iterations :
          (\E d \in rsCands : d.it = i) => \E d \in rsCands' : d.it = i
    BY <2>1, <2>2 DEF SameId
  <2> QED
    BY <1>9, <2>1, <2>2, <2>3, <2>4, <2>5 DEF RecordCandidate
<1>10. CASE AppendRow
  <2>1. PICK c \in Candidate : evaluated = {c} /\ c.it = iter
    BY <1>10 DEF AppendRow, Phases, NewResult
  <2>2. /\ iter \in 1 .. Iterations
        /\ rows[iter] = 0
        /\ c \in rsCands
    BY <1>10, <2>1 DEF AppendRow, Positions, InIteration
  <2>3. /\ rows' = [rows EXCEPT ![iter] = rows[iter] + 1]
        /\ pc' = "commit"
        /\ UNCHANGED <<stored, rsStatus, rsCands, iter, evaluated>>
    BY <1>10 DEF AppendRow
  <2>4. \A i \in 1 .. Iterations :
          rows'[i] = IF i = iter THEN 1 ELSE rows[i]
    BY <2>2, <2>3 DEF FilesTypeOK
  <2>5. evaluated \subseteq rsCands
    BY <1>10 DEF AppendRow
  <2> QED
    BY <2>1, <2>2, <2>3, <2>4, <2>5
<1>11. CASE CommitIteration
  <2>1. PICK c \in Candidate :
          evaluated = {c} /\ c.it = iter /\ c \in stored
    BY <1>11 DEF CommitIteration, Phases, NewResult
  <2>2. c \in rsCands
    BY <1>11, <2>1 DEF CommitIteration
  <2>3. /\ rsStatus' = [rsStatus EXCEPT ![iter] = "committed"]
        /\ pc' = "finish"
        /\ UNCHANGED <<stored, rows, rsCands>>
    BY <1>11 DEF CommitIteration
  <2> QED
    BY <2>1, <2>2, <2>3 DEF FilesTypeOK
<1>12. CASE FinishIteration \/ UpdateState
  BY <1>12 DEF FinishIteration, UpdateState
<1>13. CASE Crash \/ CrashInResultWrite \/ CrashInBestWrite
            \/ CrashInStateWrite
  BY <1>13
  DEF Crash, CrashInResultWrite, CrashInBestWrite, CrashInStateWrite,
      ProcessLost, files
<1>14. CASE CrashInCleanup
  <2>1. \A i \in 1 .. Iterations : rows'[i] <= rows[i]
    <3>1. CASE rows' = rows
      BY <3>1 DEF FilesTypeOK
    <3>2. ASSUME NEW s \in 1 .. Iterations + 1, rows' = CleanRows(s)
          PROVE  \A i \in 1 .. Iterations : rows'[i] <= rows[i]
      BY <3>2 DEF CleanRows, FilesTypeOK
    <3>3. ASSUME NEW s \in 1 .. Iterations + 1, NEW cut \in 0 .. s - 1,
                 NEW n \in 0 .. rows[cut],
                 rows' = [[i \in 0 .. Iterations |->
                             IF i < cut THEN rows[i] ELSE 0]
                          EXCEPT ![cut] = n]
          PROVE  \A i \in 1 .. Iterations : rows'[i] <= rows[i]
      BY <3>3 DEF FilesTypeOK
    <3> QED
      BY <1>14, <3>1, <3>2, <3>3 DEF CrashInCleanup
  <2>2. \A i \in 1 .. Iterations : rows'[i] \in Nat
    BY <1>14, TypeStep DEF TypeInv, TypeOK, FilesTypeOK
  <2>3. pc' = "down" /\ UNCHANGED <<stored, rsStatus, rsCands>>
    BY <1>14 DEF CrashInCleanup, ProcessLost
  <2>4. \A i \in 1 .. Iterations :
          rows'[i] <= 1 /\ (rows'[i] = 1 => rows[i] = 1)
    BY <2>1, <2>2 DEF FilesTypeOK
  <2> QED
    BY <2>3, <2>4
<1>15. CASE CrashInRecord
  <2>1. /\ pc' = "down"
        /\ UNCHANGED <<stored, rows>>
    BY <1>15 DEF CrashInRecord, ProcessLost
  <2>2. CASE pc = "record"
    <3>1. /\ rsStatus' = [rsStatus EXCEPT ![iter] = "recorded"]
          /\ UNCHANGED rsCands
      BY <1>15, <2>2 DEF CrashInRecord
    <3>2. PICK c \in stored : c.it = iter
      BY <2>2 DEF Phases, NewResult
    <3> QED
      BY <2>1, <3>1, <3>2 DEF FilesTypeOK
  <2>3. CASE pc = "seedrow"
    <3>1. /\ rsStatus' = [rsStatus EXCEPT ![0] = "recorded"]
          /\ rsCands \subseteq rsCands'
          /\ rsCands' \subseteq rsCands \cup cands
      BY <1>15, <2>3 DEF CrashInRecord
    <3>2. cands = stored
      BY <2>3 DEF Phases
    <3>3. \A i \in 1 .. Iterations : rsStatus'[i] = rsStatus[i]
      BY <3>1 DEF FilesTypeOK
    <3> QED
      BY <2>1, <3>1, <3>2, <3>3
  <2> QED
    BY <1>15, <2>2, <2>3 DEF CrashInRecord
<1>16. CASE UNCHANGED vars
  BY <1>16 DEF vars, files, process
<1> QED
  BY <1>1, <1>2, <1>3, <1>4, <1>5, <1>6, <1>7, <1>8, <1>9, <1>10, <1>11,
     <1>12, <1>13, <1>14, <1>15, <1>16
  DEF Next, Step, Finished

(* Neither index runs ahead of the results, however often the run crashes   *)
(* between their writes: a row or a store status names a result on disk.    *)
THEOREM IndexesAreSound ==
  ASSUME ResumeOnly
  PROVE  Spec => []IndexesFollowResults
<1>1. Init => IndexInv
  BY DEF Init, IndexInv, IndexesFollowResults
<1>2. IndexInv => IndexesFollowResults
  BY DEF IndexInv
<1> QED
  BY <1>1, <1>2, IndexInvStep, TypeInvariant, ResultInvariant, PTL DEF Spec

-----------------------------------------------------------------------------
(* The streak: stepping it live after every iteration of pareto and         *)
(* rebuilding it from the stored results give the same number.              *)

(* The state file holds the streak of the results S at the running iteration. *)
StreakOf(S) ==
  /\ IsLastImproved(S, prog.lastImproved)
  /\ prog.stagnation = iter - 1 - prog.lastImproved

(* What an iteration adds to the list it started from. *)
Extended ==
  /\ \A d \in prev : d.it < iter
  /\ \/ evaluated = {} /\ cands = prev
     \/ \E c \in Candidate : /\ evaluated = {c}
                             /\ c.it = iter
                             /\ cands = prev \cup {c}

(* Before the first result nothing has touched the state file, and after it *)
(* the file is rebuilt before it is read.                                   *)
Untouched ==
  /\ stored = {} => prog = FirstProgressiveState
  /\ pc \in {"seed", "seedrow", "commit0"} => prog = FirstProgressiveState
  /\ pc \notin {"down", "seed"} => stored # {}

Streaks ==
  /\ pc \in {"save", "loop"} => StreakOf(cands)
  /\ pc \in InIteration => StreakOf(prev)
  /\ pc \in InIteration \ {"state"} => prev = cands
  /\ pc = "state" => Extended

StreakInv == Untouched /\ Streaks

-----------------------------------------------------------------------------
(* The live rule and the replayed one *)

(* A later result does not change whether an earlier iteration improved.    *)
LEMMA ImprovedEarlier ==
  ASSUME prev \subseteq Candidate, NEW c \in Candidate,
         iter \in Nat, c.it = iter, NEW i \in Nat, i < iter
  PROVE  ImprovedAt(prev \cup {c}, i) <=> ImprovedAt(prev, i)
<1>1. {d \in prev \cup {c} : d.it < i} = {d \in prev : d.it < i}
  OBVIOUS
<1> QED
  BY <1>1 DEF ImprovedAt

(* The running iteration improved by the replayed rule if and only if its   *)
(* result advanced the list by the live one.                                *)
LEMMA ImprovedNow ==
  ASSUME NEW c \in Candidate, prev \subseteq Candidate, c.it = iter,
         \A d \in prev : d.it < iter,
         evaluated = {c}, cands = prev \cup {c}, Policy = "pareto"
  PROVE  ImprovedAt(cands, iter) <=> Advanced
<1>1. {d \in cands : d.it < iter} = prev
  BY IterationsAssumption DEF Candidate
<1>2. \A d \in cands : d.it = iter => d = c
  BY IterationsAssumption DEF Candidate
<1>3. ImprovedAt(cands, iter) <=> Beats(c.rate, prev)
  BY <1>1, <1>2 DEF ImprovedAt
<1>4. \A d \in prev : ~Beats(d.rate, prev)
  BY MaxPassedAssumption DEF Beats, Candidate, Passrates
<1>5. Advanced <=> Beats(c.rate, prev)
  BY <1>4 DEF Advanced
<1> QED
  BY <1>3, <1>5

LEMMA UpdateKeepsStreak ==
  ASSUME TypeInv, Policy = "pareto", Streaks, UpdateState
  PROVE  StreakOf(cands)'
<1> USE IterationsAssumption
<1>1. /\ StreakOf(prev)
      /\ Extended
      /\ iter \in 1 .. Iterations
      /\ prev \subseteq Candidate
      /\ iter' = iter + 1
      /\ cands' = cands
      /\ prog' = UpdatedProgressiveState
      /\ prog.lastImproved \in Nat
      /\ prog.stagnation \in Nat
  BY DEF UpdateState, Streaks, InIteration, TypeInv, TypeOK, FilesTypeOK,
         ProcessTypeOK, Positions, ProgressiveState, StatefulPolicies
<1>2. CASE evaluated = {}
  <2>1. cands = prev
    BY <1>1, <1>2 DEF Extended
  <2>2. ~Advanced
    BY <1>2 DEF Advanced
  <2>3. /\ prog'.lastImproved = prog.lastImproved
        /\ prog'.stagnation = prog.stagnation + 1
    BY <1>1, <2>2 DEF UpdatedProgressiveState
  <2> QED
    BY <1>1, <2>1, <2>3 DEF StreakOf, IsLastImproved, Completed, ImprovedAt
<1>3. ASSUME NEW c \in Candidate, evaluated = {c}, c.it = iter,
             cands = prev \cup {c}
      PROVE  StreakOf(cands)'
  <2>1. \A d \in prev : d.it < iter
    BY <1>1 DEF Extended
  <2>2. Completed(cands) = Completed(prev) \cup {iter}
    BY <1>1, <1>3 DEF Completed
  <2>3. \A i \in Completed(prev) : i \in Nat /\ i < iter
    BY <1>1, <2>1 DEF Completed, Candidate
  <2>4. \A i \in Completed(prev) : ImprovedAt(cands, i) <=> ImprovedAt(prev, i)
    BY <1>1, <1>3, <2>3, ImprovedEarlier
  <2>5. ImprovedAt(cands, iter) <=> Advanced
    BY <1>1, <1>3, <2>1, ImprovedNow
  <2>6. IsLastImproved(prev, prog.lastImproved)
    BY <1>1 DEF StreakOf
  <2>7. CASE Advanced
    <3>1. prog'.lastImproved = iter /\ prog'.stagnation = 0
      BY <1>1, <2>7 DEF UpdatedProgressiveState
    <3>2. IsLastImproved(cands, iter)
      BY <1>1, <2>2, <2>3, <2>5, <2>7 DEF IsLastImproved
    <3>3. IsLastImproved(cands', prog'.lastImproved)
      BY <1>1, <3>1, <3>2
    <3>4. prog'.stagnation = iter' - 1 - prog'.lastImproved
      BY <1>1, <3>1
    <3> QED
      BY <3>3, <3>4 DEF StreakOf, IsLastImproved, Completed, ImprovedAt
  <2>8. CASE ~Advanced
    <3>1. /\ prog'.lastImproved = prog.lastImproved
          /\ prog'.stagnation = prog.stagnation + 1
      BY <1>1, <2>8 DEF UpdatedProgressiveState
    <3>2. IsLastImproved(cands, prog.lastImproved)
      BY <1>1, <2>2, <2>3, <2>4, <2>5, <2>6, <2>8 DEF IsLastImproved
    <3> QED
      BY <1>1, <3>1, <3>2 DEF StreakOf, IsLastImproved, ImprovedAt
  <2> QED
    BY <2>7, <2>8
<1> QED
  BY <1>1, <1>2, <1>3 DEF Extended

-----------------------------------------------------------------------------
(* The invariant *)

LEMMA UntouchedStep ==
  ASSUME ResumeOnly, TypeInv, ResultInv, Untouched, [Next]_vars
  PROVE  Untouched'
<1> USE DEF Untouched
<1>1. CASE Launch
  BY <1>1
  DEF Launch, LaunchFresh, LaunchBaseline, LaunchResume, ResumeOnly, files
<1>2. CASE EvaluateSeed
  <2>1. stored' = stored \/ stored' # {}
    BY <1>2 DEF EvaluateSeed, StoreResult
  <2>2. stored' # {}
    BY <1>2, <2>1 DEF EvaluateSeed, StoreResult, CachedResult
  <2> QED
    BY <1>2, <2>2 DEF EvaluateSeed
<1>3. CASE RecordSeed \/ CommitSeeds
  BY <1>3 DEF RecordSeed, CommitSeeds
<1>4. CASE Resume \/ SaveBest
  BY <1>4 DEF Resume, SaveBest
<1>5. CASE \/ StartIteration \/ ProposerRejected \/ ProposerFailed \/ Propose
           \/ RejectCandidate \/ ReuseResult
  BY <1>5
  DEF StartIteration, ProposerRejected, ProposerFailed, Propose,
      RejectCandidate, ReuseResult, files
<1>6. CASE EvaluateCandidate
  BY <1>6 DEF EvaluateCandidate, StoreResult
<1>7. CASE \/ RecordCandidate \/ AppendRow \/ CommitIteration
           \/ FinishIteration \/ UpdateState \/ Complete
  BY <1>7
  DEF RecordCandidate, AppendRow, CommitIteration, FinishIteration,
      UpdateState, Complete, files
<1>8. CASE CrashInResultWrite
  <2>1. stored' = stored
    BY <1>8, NothingCached DEF CrashInResultWrite, ResultInv
  <2> QED
    BY <1>8, <2>1 DEF CrashInResultWrite, ProcessLost
<1>9. CASE \/ Crash \/ CrashInRecord \/ CrashInBestWrite \/ CrashInStateWrite
           \/ CrashInCleanup
  BY <1>9
  DEF Crash, CrashInRecord, CrashInBestWrite, CrashInStateWrite,
      CrashInCleanup, ProcessLost, files
<1>10. CASE UNCHANGED vars
  BY <1>10 DEF vars, files, process
<1> QED
  BY <1>1, <1>2, <1>3, <1>4, <1>5, <1>6, <1>7, <1>8, <1>9, <1>10
  DEF Next, Step, Finished

LEMMA StreaksStep ==
  ASSUME ResumeOnly, Policy = "pareto", TypeInv, ResultInv, StreakInv,
         [Next]_vars
  PROVE  Streaks'
<1> USE DEF StreakInv, Streaks, InIteration
<1>1. CASE Launch \/ EvaluateSeed \/ RecordSeed
  BY <1>1
  DEF Launch, LaunchFresh, LaunchBaseline, LaunchResume, EvaluateSeed,
      RecordSeed
<1>2. CASE CommitSeeds
  <2>1. prog = FirstProgressiveState /\ \A c \in cands : IsSeed(c)
    BY <1>2 DEF CommitSeeds, Untouched, ResultInv, Phases
  <2>2. Completed(cands) = {}
    BY <2>1 DEF Completed, IsSeed
  <2> QED
    BY <1>2, <2>1, <2>2
    DEF CommitSeeds, StreakOf, IsLastImproved, FirstProgressiveState, Completed
<1>3. CASE Resume
  <2>1. PICK s \in 1 .. Iterations + 1 :
          /\ iter' = s
          /\ \E l \in 0 .. s - 1 : /\ IsLastImproved(cands, l)
                                   /\ prog' = Rederived(s, l)
    BY <1>3 DEF Resume, StatefulPolicies
  <2>2. PICK l \in 0 .. s - 1 :
          IsLastImproved(cands, l) /\ prog' = Rederived(s, l)
    BY <2>1
  <2>3. prog'.lastImproved = l /\ prog'.stagnation = s - 1 - l
    BY <2>2 DEF Rederived
  <2> QED
    BY <1>3, <2>1, <2>2, <2>3
    DEF Resume, StreakOf, IsLastImproved, Completed, ImprovedAt
<1>4. CASE SaveBest \/ StartIteration
  BY <1>4
  DEF SaveBest, StartIteration, StreakOf, IsLastImproved, Completed, ImprovedAt
<1>5. CASE \/ ProposerRejected \/ ProposerFailed \/ Propose
           \/ RejectCandidate \/ ReuseResult \/ EvaluateCandidate
           \/ RecordCandidate \/ AppendRow \/ CommitIteration
  BY <1>5
  DEF ProposerRejected, ProposerFailed, Propose, RejectCandidate, ReuseResult,
      EvaluateCandidate, RecordCandidate, AppendRow, CommitIteration, files,
      StreakOf, IsLastImproved, Completed, ImprovedAt
<1>6. CASE FinishIteration
  <2>1. Extended'
    BY <1>6
    DEF FinishIteration, Extended, ResultInv, Phases, NewResult, NoResult
  <2> QED
    BY <1>6, <2>1
    DEF FinishIteration, StreakOf, IsLastImproved, Completed, ImprovedAt
<1>7. CASE UpdateState
  <2>1. StreakOf(cands)'
    BY <1>7, UpdateKeepsStreak
  <2> QED
    BY <1>7, <2>1 DEF UpdateState
<1>8. CASE Complete
  BY <1>8 DEF Complete
<1>9. CASE \/ Crash \/ CrashInResultWrite \/ CrashInRecord
           \/ CrashInBestWrite \/ CrashInStateWrite \/ CrashInCleanup
  BY <1>9
  DEF Crash, CrashInResultWrite, CrashInRecord, CrashInBestWrite,
      CrashInStateWrite, CrashInCleanup, ProcessLost
<1>10. CASE UNCHANGED vars
  BY <1>10
  DEF vars, files, process, StreakOf, Extended, IsLastImproved, Completed,
      ImprovedAt
<1> QED
  BY <1>1, <1>2, <1>3, <1>4, <1>5, <1>6, <1>7, <1>8, <1>9, <1>10
  DEF Next, Step, Finished

(* Under pareto the loop always reads the true stagnation count: stepping   *)
(* it live and rebuilding it after any crash agree.                         *)
THEOREM StagnationIsExact ==
  ASSUME ResumeOnly, Policy = "pareto"
  PROVE  Spec => []StagnationExact
<1>1. Init => StreakInv
  BY DEF Init, StreakInv, Untouched, Streaks, InIteration
<1>2. TypeInv /\ ResultInv /\ StreakInv /\ [Next]_vars => StreakInv'
  BY UntouchedStep, StreaksStep DEF StreakInv
<1>3. ResultInv /\ StreakInv => StagnationExact
  BY DEF ResultInv, Phases, NoResult, StreakInv, Streaks, StreakOf,
         StagnationExact
<1> QED
  BY <1>1, <1>2, <1>3, TypeInvariant, ResultInvariant, PTL DEF Spec
-----------------------------------------------------------------------------
(* The ladder of the policies that read the frontier                        *)

(* The iterations of S whose result was in the frontier of its time.        *)
Joined(S) ==
  {c.it : c \in {d \in S : /\ ~IsSeed(d)
                           /\ d \in QualityFrontier({e \in S : e.it <= d.it})}}

IsLastJoined(S, l) ==
  \/ l = 0 /\ Joined(S) = {}
  \/ l \in Joined(S) /\ \A j \in Joined(S) : j <= l

(* The iterations after the warm-up that did not advance, before i.         *)
Idle(i, l) == {j \in 1 .. i - 1 : j >= InitialLow /\ j > l}

RungOf(n) == IF n < 2 THEN n ELSE 2

(* The state file holds streak and budget that S earns at the running       *)
(* iteration.                                                               *)
LadderOf(S) ==
  /\ IsLastJoined(S, prog.lastImproved)
  /\ prog.stagnation = iter - 1 - prog.lastImproved
  /\ prog.next \in Budgets
  /\ iter > InitialLow =>
       Rung[prog.next] = RungOf(Cardinality(Idle(iter, prog.lastImproved)))

(* Until the first crash. The budget of an iteration is that of the list it *)
(* started from; its own result counts from UpdateState on.                 *)
Climbs ==
  crashes = 0 =>
    /\ ~resuming /\ pc # "resume"
    /\ pc \in {"down", "seed", "seedrow", "commit0"} => prog = FirstProgressiveState
    /\ pc = "down" => stored = {}
    /\ pc \in {"save", "loop"} => LadderOf(cands)
    /\ pc \in InIteration =>
         /\ LadderOf(prev)
         /\ Rung[budget] = IF iter <= InitialLow THEN 0
                           ELSE RungOf(Cardinality(Idle(iter, prog.lastImproved)))
    /\ pc \in InIteration \ {"state"} => prev = cands
    /\ pc = "state" => Extended

LEMMA JoinedOf ==
  ASSUME NEW S, NEW j \in Joined(S)
  PROVE  \E d \in S : d.it = j
<1> DEFINE J == {d \in S : /\ ~IsSeed(d)
                          /\ d \in QualityFrontier({e \in S : e.it <= d.it})}
<1>1. J \subseteq S
  OBVIOUS
<1>2. Joined(S) = {d.it : d \in J}
  BY DEF Joined
<1> HIDE DEF J
<1> QED
  BY <1>1, <1>2

(* A later result leaves what joined before it, and joins if it is in the   *)
(* frontier of them all.                                                    *)
LEMMA JoinedNow ==
  ASSUME NEW c \in Candidate, prev \subseteq Candidate, iter \in 1 .. Iterations,
         c.it = iter, \A d \in prev : d.it < iter
  PROVE  Joined(prev \cup {c})
           = Joined(prev) \cup {i \in {iter} : c \in QualityFrontier(prev \cup {c})}
<1> DEFINE S == prev \cup {c}
<1> USE IterationsAssumption
<1>1. {e \in S : e.it <= c.it} = S
  BY DEF Candidate
<1>2. \A d \in prev : {e \in S : e.it <= d.it} = {e \in prev : e.it <= d.it}
  BY DEF Candidate
<1>3. ~IsSeed(c)
  BY DEF IsSeed
<1>4. \A d \in S : d \in prev \/ d = c
  OBVIOUS
<1> HIDE DEF S
<1>5. {d \in S : ~IsSeed(d) /\ d \in QualityFrontier({e \in S : e.it <= d.it})}
        = {d \in prev : ~IsSeed(d) /\ d \in QualityFrontier({e \in prev : e.it <= d.it})}
            \cup {d \in {c} : c \in QualityFrontier(S)}
  BY <1>1, <1>2, <1>3, <1>4 DEF S
<1> QED
  BY <1>5 DEF Joined, S

(* By the live rule an iteration advances if its result joins.              *)
LEMMA AdvancedNow ==
  ASSUME NEW c \in Candidate, prev \subseteq Candidate, c.it = iter,
         \A d \in prev : d.it < iter,
         evaluated = {c}, cands = prev \cup {c}, Policy # "pareto"
  PROVE  Advanced <=> c \in QualityFrontier(prev \cup {c})
<1>1. c \notin prev
  BY IterationsAssumption DEF Candidate
<1>2. c \notin QualityFrontier(prev)
  BY <1>1, FrontierSubset
<1> QED
  BY <1>2 DEF Advanced

LEMMA IdleFinite ==
  ASSUME NEW i \in Nat, NEW l \in Nat
  PROVE  IsFiniteSet(Idle(i, l)) /\ Cardinality(Idle(i, l)) \in Nat
<1>1. IsFiniteSet(1 .. i - 1)
  BY FS_Interval
<1>2. Idle(i, l) \subseteq 1 .. i - 1
  BY DEF Idle
<1> QED
  BY <1>1, <1>2, FS_Subset, FS_CardinalityType

(* One more iteration that does not advance is one more rung.               *)
LEMMA NextRung ==
  ASSUME TypeInv, iter \in 1 .. Iterations, NEW l \in Nat, l < iter,
         Rung[budget] = IF iter <= InitialLow THEN 0
                        ELSE RungOf(Cardinality(Idle(iter, l))),
         iter + 1 > InitialLow
  PROVE  Rung[NextBudget]
           = RungOf(Cardinality(Idle(iter + 1, IF Advanced THEN iter ELSE l)))
<1> USE IterationsAssumption, BoundsAssumption
<1>1. CASE Advanced
  <2>1. Idle(iter + 1, iter) = {}
    BY DEF Idle
  <2>2. NextBudget = "low"
    BY <1>1 DEF NextBudget
  <2> QED
    BY <1>1, <2>1, <2>2, FS_EmptySet DEF Rung, RungOf, Budgets
<1>2. CASE ~Advanced
  <2> DEFINE n == Cardinality(Idle(iter, l))
  <2>1. n \in Nat /\ IsFiniteSet(Idle(iter, l))
    BY IdleFinite
  <2>2. Idle(iter + 1, l) = Idle(iter, l) \cup {iter} /\ iter \notin Idle(iter, l)
    BY DEF Idle
  <2>3. Cardinality(Idle(iter + 1, l)) = n + 1
    BY <2>1, <2>2, FS_AddElement
  <2>4. iter = InitialLow => n = 0
    <3>1. iter = InitialLow => Idle(iter, l) = {}
      BY DEF Idle
    <3> QED
      BY <3>1, FS_EmptySet
  <2>5. Rung[budget] = RungOf(n)
    BY <2>1, <2>4 DEF RungOf
  <2> HIDE DEF n
  <2>6. budget \in {"low", "medium", "high"}
    BY DEF TypeInv, TypeOK, ProcessTypeOK, Budgets
  <2>7. budget = "low" <=> n = 0
    BY <2>1, <2>5, <2>6 DEF Rung, RungOf, Budgets
  <2>8. NextBudget = IF budget = "low" THEN "medium" ELSE "high"
    BY <1>2 DEF NextBudget
  <2>9. Rung[NextBudget] = RungOf(n + 1)
    BY <2>1, <2>7, <2>8 DEF Rung, RungOf, Budgets
  <2> QED
    BY <1>2, <2>3, <2>9
<1> QED
  BY <1>1, <1>2

LEMMA UpdateKeepsLadder ==
  ASSUME TypeInv, Policy \in {"progressive", "curaii"}, Climbs, crashes = 0,
         UpdateState
  PROVE  LadderOf(cands)'
<1> USE IterationsAssumption, BoundsAssumption
<1>1. /\ LadderOf(prev)
      /\ Extended
      /\ iter \in 1 .. Iterations
      /\ prev \subseteq Candidate
      /\ iter' = iter + 1
      /\ cands' = cands
      /\ prog' = UpdatedProgressiveState
      /\ prog.lastImproved \in Nat
      /\ prog.stagnation \in Nat
      /\ Rung[budget] = IF iter <= InitialLow THEN 0
                        ELSE RungOf(Cardinality(Idle(iter, prog.lastImproved)))
  BY DEF UpdateState, Climbs, InIteration, TypeInv, TypeOK, FilesTypeOK,
         ProcessTypeOK, Positions, ProgressiveState, StatefulPolicies
<1> DEFINE l == prog.lastImproved
<1>2. IsLastJoined(prev, l) /\ prog.stagnation = iter - 1 - l /\ l < iter
  BY <1>1 DEF LadderOf
<1>3. /\ prog'.lastImproved = IF Advanced THEN iter ELSE l
      /\ prog'.stagnation = iter' - 1 - prog'.lastImproved
      /\ prog'.next = NextBudget
  BY <1>1, <1>2 DEF UpdatedProgressiveState
<1>4. prog'.next \in Budgets
  BY <1>3, NextBudgetType
<1>5. iter' > InitialLow =>
        Rung[prog'.next] = RungOf(Cardinality(Idle(iter', prog'.lastImproved)))
  <2> SUFFICES ASSUME iter + 1 > InitialLow
               PROVE  Rung[NextBudget]
                        = RungOf(Cardinality(Idle(iter + 1, IF Advanced THEN iter ELSE l)))
    BY <1>1, <1>3
  <2> QED
    BY <1>1, <1>2, NextRung
<1>6. IsLastJoined(cands, prog'.lastImproved)
  <2>1. CASE evaluated = {}
    BY <1>1, <1>2, <1>3, <2>1 DEF Extended, Advanced
  <2>2. ASSUME NEW c \in Candidate, evaluated = {c}, c.it = iter,
               cands = prev \cup {c}
        PROVE  IsLastJoined(cands, prog'.lastImproved)
    <3>1. \A d \in prev : d.it < iter
      BY <1>1 DEF Extended
    <3>2. Joined(cands) = Joined(prev) \cup {i \in {iter} : Advanced}
      BY <1>1, <2>2, <3>1, JoinedNow, AdvancedNow
    <3>3. \A j \in Joined(prev) : j \in Nat /\ j < iter
      BY <1>1, <3>1, JoinedOf DEF Candidate
    <3> QED
      BY <1>1, <1>2, <1>3, <3>2, <3>3 DEF IsLastJoined
  <2> QED
    BY <1>1, <2>1, <2>2 DEF Extended
<1> QED
  BY <1>1, <1>3, <1>4, <1>5, <1>6 DEF LadderOf, IsLastJoined, Joined

LEMMA ClimbsInit == Init => Climbs
BY DEF Init, Climbs, InIteration

LEMMA ClimbsStep ==
  ASSUME ResumeOnly, Policy \in {"progressive", "curaii"}, TypeInv, ResultInv,
         Climbs, [Next]_vars
  PROVE  Climbs'
<1> USE DEF InIteration
<1> SUFFICES ASSUME crashes' = 0 PROVE Climbs'
  BY DEF Climbs
<1>0. crashes = 0 /\ crashes \in Nat
  <2>1. crashes \in Nat
    BY DEF TypeInv, TypeOK, ProcessTypeOK
  <2>2. ProcessLost => crashes' = crashes + 1
    BY DEF ProcessLost
  <2>3. \/ ProcessLost \/ crashes' = crashes
    BY DEF Next, vars, Launch, Step, Finished, LaunchFresh, LaunchBaseline,
           LaunchResume, EvaluateSeed, RecordSeed, CommitSeeds, Resume, SaveBest,
           StartIteration, ProposerRejected, ProposerFailed, Propose,
           RejectCandidate, ReuseResult, EvaluateCandidate, RecordCandidate,
           AppendRow, CommitIteration, FinishIteration, UpdateState, Complete,
           Crash, CrashInResultWrite, CrashInRecord, CrashInBestWrite,
           CrashInStateWrite, CrashInCleanup
  <2> QED
    BY <2>1, <2>2, <2>3
<1>1. CASE Launch
  BY <1>0, <1>1
  DEF Climbs, Launch, LaunchFresh, LaunchBaseline, LaunchResume, ResumeOnly,
      files
<1>2. CASE EvaluateSeed \/ RecordSeed
  BY <1>0, <1>2 DEF Climbs, EvaluateSeed, RecordSeed
<1>3. CASE CommitSeeds
  <2>1. /\ prog' = FirstProgressiveState /\ iter' = 1 /\ cands' = cands
        /\ \A c \in cands : IsSeed(c)
        /\ pc' = "save" /\ resuming' = resuming
    BY <1>0, <1>3 DEF CommitSeeds, Climbs, ResultInv, Phases
  <2>2. Joined(cands) = {}
    BY <2>1 DEF Joined
  <2>3. Idle(1, 0) = {}
    BY DEF Idle
  <2>4. Rung["low"] = 0 /\ RungOf(Cardinality(Idle(1, 0))) = 0
    BY <2>3, FS_EmptySet DEF Rung, RungOf, Budgets
  <2>5. /\ prog.lastImproved = 0 /\ prog.stagnation = 0 /\ prog.next = "low"
        /\ prog' = prog
    BY <2>1, <1>0, <1>3 DEF CommitSeeds, FirstProgressiveState
  <2>6. LadderOf(cands)'
    BY <2>1, <2>2, <2>4, <2>5
    DEF LadderOf, IsLastJoined, Joined, Idle, Budgets, Rung
  <2> QED
    BY <1>0, <2>1, <2>6 DEF Climbs
<1>4. CASE SaveBest
  <2>1. LadderOf(cands)'
    BY <1>0, <1>4 DEF SaveBest, Climbs, LadderOf, IsLastJoined, Joined
  <2> QED
    BY <1>0, <1>4, <2>1 DEF SaveBest, Climbs
<1>5. CASE StartIteration
  <2>1. LadderOf(prev)'
    BY <1>0, <1>5 DEF StartIteration, Climbs, LadderOf, IsLastJoined, Joined
  <2>2. budget' = IF iter <= InitialLow THEN "low" ELSE prog.next
    BY <1>0, <1>5 DEF StartIteration, BudgetFor, Or, Climbs, LadderOf, Budgets
  <2>3. iter' = iter /\ prog' = prog /\ iter \in Nat /\ LadderOf(cands)
    BY <1>0, <1>5, IterationsAssumption
    DEF StartIteration, Climbs, TypeInv, TypeOK, ProcessTypeOK
  <2>4. Rung[budget'] = IF iter <= InitialLow THEN 0
                        ELSE RungOf(Cardinality(Idle(iter, prog.lastImproved)))
    BY <2>2, <2>3, BoundsAssumption DEF LadderOf, Rung, Budgets
  <2> QED
    BY <1>0, <1>5, <2>1, <2>3, <2>4 DEF StartIteration, Climbs, Idle, Rung
<1>6. CASE \/ ProposerRejected \/ ProposerFailed \/ Propose
           \/ RejectCandidate \/ ReuseResult \/ EvaluateCandidate
           \/ RecordCandidate \/ AppendRow \/ CommitIteration
  <2>1. /\ pc \in InIteration \ {"state"} /\ pc' \in InIteration \ {"state"}
        /\ UNCHANGED <<prog, iter, resuming, cands, prev, budget>>
    BY <1>6
    DEF ProposerRejected, ProposerFailed, Propose, RejectCandidate, ReuseResult,
        EvaluateCandidate, RecordCandidate, AppendRow, CommitIteration, files
  <2> QED
    BY <1>0, <2>1 DEF Climbs, LadderOf, IsLastJoined, Joined, Idle, Rung
<1>7. CASE FinishIteration
  <2>1. /\ pc = "finish" /\ pc' = "state"
        /\ UNCHANGED <<prog, iter, resuming, prev, budget>>
    BY <1>7 DEF FinishIteration
  <2>2. Extended'
    BY <1>0, <1>7
    DEF FinishIteration, Climbs, Extended, ResultInv, Phases, NewResult, NoResult
  <2> QED
    BY <1>0, <2>1, <2>2 DEF Climbs, LadderOf, IsLastJoined, Joined, Idle, Rung
<1>8. CASE UpdateState
  <2>1. LadderOf(cands)'
    BY <1>0, <1>8, UpdateKeepsLadder
  <2> QED
    BY <1>0, <1>8, <2>1 DEF UpdateState, Climbs
<1>9. CASE Complete
  BY <1>0, <1>9 DEF Complete, Climbs
<1>10. CASE Resume
  BY <1>0, <1>10 DEF Resume, Climbs
<1>11. CASE \/ Crash \/ CrashInResultWrite \/ CrashInRecord
            \/ CrashInBestWrite \/ CrashInStateWrite \/ CrashInCleanup
  BY <1>0, <1>11
  DEF Crash, CrashInResultWrite, CrashInRecord, CrashInBestWrite,
      CrashInStateWrite, CrashInCleanup, ProcessLost
<1>12. CASE UNCHANGED vars
  BY <1>0, <1>12
  DEF vars, files, process, Climbs, LadderOf, IsLastJoined, Joined, Idle, Rung,
      Extended
<1> QED
  BY <1>1, <1>2, <1>3, <1>4, <1>5, <1>6, <1>7, <1>8, <1>9, <1>10, <1>11, <1>12
  DEF Next, Step, Finished

(* The last iteration that joined is the one the state file names.          *)
LEMMA LastJoinedIs ==
  ASSUME NEW S \in SUBSET Candidate, NEW l \in Nat, IsLastJoined(S, l)
  PROVE  LastJoined(S) = l
<1>1. \A j \in Joined(S) : j \in Nat
  BY IterationsAssumption, JoinedOf DEF Candidate
<1>2. LastJoined(S) = IF Joined(S) = {} THEN 0
                      ELSE CHOOSE i \in Joined(S) : \A j \in Joined(S) : j <= i
  BY DEF LastJoined, Joined
<1>3. CASE Joined(S) = {}
  BY <1>2, <1>3 DEF IsLastJoined
<1>4. CASE Joined(S) # {}
  <2>1. l \in Joined(S) /\ \A j \in Joined(S) : j <= l
    BY <1>4 DEF IsLastJoined
  <2>2. \A i \in Joined(S) : (\A j \in Joined(S) : j <= i) => i = l
    BY <1>1, <2>1
  <2> QED
    BY <1>2, <1>4, <2>1, <2>2
<1> QED
  BY <1>3, <1>4

LEMMA ClimbsInvariant ==
  ASSUME ResumeOnly, Policy \in {"progressive", "curaii"}
  PROVE  Spec => []Climbs
BY ClimbsInit, ClimbsStep, TypeInvariant, ResultInvariant, PTL DEF Spec

(* Until a crash the stagnation count of progressive and curaii is the      *)
(* distance to the last iteration whose candidate joined the frontier.      *)
THEOREM StreakCountsJoins ==
  ASSUME ResumeOnly, Policy \in {"progressive", "curaii"}
  PROVE  Spec => []StreakIsTrue
<1>1. TypeInv /\ ResultInv /\ Climbs => StreakIsTrue
  <2> SUFFICES ASSUME TypeInv, ResultInv, Climbs, pc = "loop", crashes = 0
               PROVE  prog.stagnation = iter - 1 - LastJoined(stored)
    BY DEF StreakIsTrue
  <2>1. cands = stored /\ LadderOf(stored)
    BY DEF ResultInv, Phases, NoResult, Climbs
  <2>2. LastJoined(stored) = prog.lastImproved
    BY <2>1, LastJoinedIs
    DEF LadderOf, TypeInv, TypeOK, FilesTypeOK, ProgressiveState
  <2> QED
    BY <2>1, <2>2 DEF LadderOf
<1> QED
  BY <1>1, ClimbsInvariant, TypeInvariant, ResultInvariant, PTL

(* ... and every iteration gets exactly the budget that this streak earns.  *)
THEOREM BudgetIsEarned ==
  ASSUME ResumeOnly, Policy \in {"progressive", "curaii"}
  PROVE  Spec => []BudgetFollowsStreak
<1>1. TypeInv /\ ResultInv /\ Climbs => BudgetFollowsStreak
  <2> SUFFICES ASSUME TypeInv, ResultInv, Climbs, pc = "propose", crashes = 0
               PROVE  Rung[budget] = EarnedRung
    BY DEF BudgetFollowsStreak
  <2>1. /\ prev = stored /\ LadderOf(prev)
        /\ Rung[budget] = IF iter <= InitialLow THEN 0
                          ELSE RungOf(Cardinality(Idle(iter, prog.lastImproved)))
    BY DEF ResultInv, Phases, NoResult, Climbs, InIteration
  <2>2. LastJoined(stored) = prog.lastImproved
    BY <2>1, LastJoinedIs
    DEF LadderOf, TypeInv, TypeOK, FilesTypeOK, ProgressiveState
  <2> QED
    BY <2>1, <2>2 DEF EarnedRung, Idle, RungOf
<1> QED
  BY <1>1, ClimbsInvariant, TypeInvariant, ResultInvariant, PTL
=============================================================================
