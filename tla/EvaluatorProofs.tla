-------------------------- MODULE EvaluatorProofs --------------------------
(***************************************************************************)
(* What a score is made of, what the next proposer starts from and what is *)
(* tested at the end, in each of the ways a proposal is evaluated, for     *)
(* every number of iterations, tasks, graphs, modules and launches.        *)
(***************************************************************************)
EXTENDS Evaluators, Naturals, Integers, WellFoundedInduction, TLAPS

(* A bounded set of numbers that is not empty has a greatest one.           *)
LEMMA GreatestElement ==
  ASSUME NEW n \in Nat, NEW D \in SUBSET (0 .. n), D # {}
  PROVE  \E x \in D : \A y \in D : y <= x
<1> DEFINE U == {n - t : t \in D}
<1>1. U \subseteq Nat /\ U # {}
  <2>1. \A t \in D : n - t \in Nat
    OBVIOUS
  <2>2. PICK t \in D : TRUE
    OBVIOUS
  <2>3. n - t \in U
    OBVIOUS
  <2> QED
    BY <2>1, <2>3
<1>2. PICK u \in U : \A v \in U : <<v, u>> \notin OpToRel(<, Nat)
  BY <1>1, NatLessThanWellFounded, WFMin, Zenon
<1>3. \A v \in U : ~ (v < u)
  BY <1>1, <1>2 DEF OpToRel
<1>4. PICK x \in D : u = n - x
  BY <1>2
<1>5. \A y \in D : ~ (n - y < n - x)
  BY <1>3, <1>4
<1> QED
  BY <1>4, <1>5

-----------------------------------------------------------------------------
(* Terminus: the trials of a candidate                                      *)

(* Versions are new at every launch, and a job is started once in each.     *)
VersionsFresh ==
  /\ tb_version \in Nat
  /\ \A v \in tb_jobs : v \in Nat /\ v <= tb_version
  /\ tb_pc \in {"propose", "evaluate"} => tb_version \notin tb_jobs
  /\ tb_pc \in {"job", "parse", "done"} => tb_version \in tb_jobs

(* Before the first job there is no directory of a trial, and the trials    *)
(* there are in a job of its own are of its version.                        *)
TrialsFresh ==
  /\ tb_jobs = {} => DOMAIN tb_trials = {}
  /\ tb_pc \in {"job", "parse", "done"} /\ (tb_force \/ tb_jobs = {tb_version}) =>
       \A t \in DOMAIN tb_trials : tb_trials[t].version = tb_version
  /\ tb_pc = "done" => tb_result.version = tb_version

TrialInv == VersionsFresh /\ TrialsFresh

(* The invariant holds at first.                                            *)
LEMMA TrialInit == T!Init => TrialInv
<1> SUFFICES ASSUME T!Init PROVE TrialInv
  OBVIOUS
<1>1. DOMAIN tb_trials = {}
  BY DEF T!Init
<1> QED
  BY <1>1 DEF T!Init, TrialInv, VersionsFresh, TrialsFresh

(* Every step of the evaluation and every relaunch keeps it.                *)
LEMMA TrialStep == TrialInv /\ [T!Next]_(T!vars) => TrialInv'
<1> SUFFICES ASSUME TrialInv, [T!Next]_(T!vars) PROVE TrialInv'
  OBVIOUS
<1> USE DEF TrialInv, VersionsFresh, TrialsFresh
<1>1. CASE T!Propose
  BY <1>1 DEF T!Propose
<1>2. CASE T!Reject
  BY <1>2 DEF T!Reject
<1>3. CASE T!RunHarbor
  <2>1. DOMAIN tb_trials' \subseteq DOMAIN tb_trials
    BY <1>3 DEF T!RunHarbor, T!Kept
  <2>2. tb_force \/ tb_jobs = {} => DOMAIN tb_trials' = {}
    BY <1>3 DEF T!RunHarbor, T!Kept
  <2>3. tb_jobs' = {tb_version} => tb_jobs = {}
    BY <1>3 DEF T!RunHarbor
  <2> QED
    BY <1>3, <2>2, <2>3 DEF T!RunHarbor
<1>4. CASE T!StartTrial
  <2>1. PICK t \in T!Instances \ DOMAIN tb_trials :
          tb_trials' = [u \in DOMAIN tb_trials \cup {t} |->
                       IF u = t THEN [version |-> tb_version, reward |-> "none"] ELSE tb_trials[u]]
    BY <1>4 DEF T!StartTrial
  <2>2. \A u \in DOMAIN tb_trials' : tb_trials'[u].version = tb_version \/
                                  (u \in DOMAIN tb_trials /\ tb_trials'[u] = tb_trials[u])
    BY <2>1
  <2> QED
    BY <1>4, <2>2 DEF T!StartTrial
<1>5. CASE T!EndTrial
  <2>1. PICK t \in DOMAIN tb_trials, reward \in {"zero", "positive"} :
          tb_trials' = [tb_trials EXCEPT ![t] = [version |-> tb_version, reward |-> reward]]
    BY <1>5 DEF T!EndTrial
  <2>2. DOMAIN tb_trials' = DOMAIN tb_trials
    BY <2>1
  <2>3. \A u \in DOMAIN tb_trials : tb_trials'[u].version \in {tb_version, tb_trials[u].version}
    BY <2>1
  <2> QED
    BY <1>5, <2>2, <2>3 DEF T!EndTrial
<1>6. CASE T!EndJob
  BY <1>6 DEF T!EndJob
<1>7. CASE T!EvaluateCandidate
  BY <1>7 DEF T!EvaluateCandidate, T!Finalized
<1>8. CASE T!Relaunch
  BY <1>8 DEF T!Relaunch
<1>9. CASE T!Done \/ UNCHANGED T!vars
  BY <1>9 DEF T!Done, T!vars
<1> QED
  BY <1>1, <1>2, <1>3, <1>4, <1>5, <1>6, <1>7, <1>8, <1>9 DEF T!Next

-----------------------------------------------------------------------------
(* Swebench: the snapshot, the patches and the flags                        *)

(***************************************************************************)
(* What a SWE-bench proposer starts from and what its score is made of,    *)
(* for every set of instances, number of iterations and number of crashes. *)
(***************************************************************************)
InstanceRuns == [state : {"waiting", "ok", "failed", "graded"}, passed : BOOLEAN, graded : Nat]

(* The part of the type of the state that the arguments below need.         *)
SnapshotShape ==
  /\ sw_pc \in {"snapshot", "proposing", "evaluate", "tag"}
  /\ sw_iteration \in 1..Iterations + 1
  /\ sw_pc # "snapshot" => sw_iteration \in S!Steps
  /\ sw_gate \in [S!Sources -> {"trusted", "edited", "missing"}]
  /\ sw_attempt \in Nat \ {0} /\ sw_crashes \in Nat
  /\ sw_patch \in [S!Steps -> [Issues -> Nat]]
  /\ sw_runs \in [Issues -> InstanceRuns]
  /\ DOMAIN sw_stored = S!Steps

(* The gate of the snapshot a proposer was given.                           *)
GateFresh == sw_pc = "proposing" => sw_gate[sw_iteration] = "trusted"

(* No patch is there before the first attempt at its iteration.             *)
NoPatchYet ==
  sw_crashes = 0 =>
    \A n \in S!Steps : n > sw_iteration \/ (n = sw_iteration /\ sw_pc \in {"snapshot", "proposing"}) =>
      \A i \in Issues : sw_patch[n][i] = 0

(* What ran in this attempt left the patch of this attempt, unless an agent *)
(* that prints its patch met the file of an attempt that crashed.           *)
PatchesOwn ==
  sw_pc = "evaluate" => \A i \in Issues :
    /\ sw_runs[i].state = "waiting" => ~sw_runs[i].passed
    /\ sw_runs[i].state = "waiting" /\ sw_crashes = 0 => sw_patch[sw_iteration][i] = 0
    /\ sw_runs[i].state = "ok" =>
         ~sw_runs[i].passed /\ (sw_patch[sw_iteration][i] = sw_attempt \/ (~sw_writes /\ sw_crashes > 0))
    /\ sw_runs[i].state = "failed" => ~sw_runs[i].passed
    /\ sw_runs[i].passed => sw_runs[i].graded = sw_attempt \/ (~sw_writes /\ sw_crashes > 0)

StoredOwn ==
  sw_pc = "tag" => \A i \in Issues :
    sw_stored[sw_iteration][i] \in {0, sw_attempt} \/ (~sw_writes /\ sw_crashes > 0)

SnapshotInv == SnapshotShape /\ GateFresh /\ NoPatchYet /\ PatchesOwn /\ StoredOwn

(* The invariant holds at first.                                            *)
LEMMA SnapshotInit == S!Init => SnapshotInv
BY IterationsAssumption DEF S!Init, SnapshotInv, SnapshotShape, GateFresh, NoPatchYet, PatchesOwn, StoredOwn,
       S!Steps, S!Sources, InstanceRuns, S!NotRun

(* A proposer gets a fresh snapshot and the agent edits it. *)
LEMMA SnapshotProposerSteps ==
  ASSUME SnapshotInv, S!BuildSnapshot \/ S!Edit PROVE SnapshotInv'
<1> USE IterationsAssumption
<1> USE DEF SnapshotInv, S!Steps, S!Sources
<1>1. CASE S!BuildSnapshot
  <2>1. SnapshotShape'
    BY <1>1 DEF S!BuildSnapshot, SnapshotShape, S!Mirrored
  <2>2. GateFresh'
    BY <1>1 DEF S!BuildSnapshot, SnapshotShape, S!Mirrored, GateFresh
  <2>3. NoPatchYet'
    BY <1>1 DEF S!BuildSnapshot, SnapshotShape, NoPatchYet
  <2> QED
    BY <1>1, <2>1, <2>2, <2>3 DEF S!BuildSnapshot, PatchesOwn, StoredOwn
<1>2. CASE S!Edit
  <2>1. SnapshotShape'
    BY <1>2 DEF S!Edit, SnapshotShape, InstanceRuns, S!NotRun
  <2>2. NoPatchYet'
    BY <1>2 DEF S!Edit, SnapshotShape, NoPatchYet
  <2>3. PatchesOwn'
    BY <1>2 DEF S!Edit, SnapshotShape, NoPatchYet, PatchesOwn, S!NotRun
  <2> QED
    BY <1>2, <2>1, <2>2, <2>3 DEF S!Edit, GateFresh, StoredOwn
<1> QED
  BY <1>1, <1>2

(* The command of the agent leaves a patch of this attempt, or finds one.   *)
LEMMA SnapshotAgentSteps ==
  ASSUME SnapshotInv, S!RunAgent \/ S!TimeOut PROVE SnapshotInv'
<1> USE IterationsAssumption
<1> USE DEF SnapshotInv, S!Steps, S!Sources
<1>1. CASE S!RunAgent
  <2>1. PICK i \in Issues, ok \in BOOLEAN :
          /\ sw_runs[i].state = "waiting"
          /\ sw_patch' = [sw_patch EXCEPT ![sw_iteration][i] =
                         IF (sw_writes /\ ok) \/ @ = 0 THEN sw_attempt ELSE @]
          /\ sw_runs' = [sw_runs EXCEPT ![i].state = IF ok THEN "ok" ELSE "failed"]
    BY <1>1 DEF S!RunAgent
  <2>2. sw_iteration \in S!Steps
    BY <1>1 DEF S!RunAgent, SnapshotShape
  <2>3. /\ sw_patch' \in [S!Steps -> [Issues -> Nat]]
        /\ \A n \in S!Steps, j \in Issues :
             <<n, j>> # <<sw_iteration, i>> => sw_patch'[n][j] = sw_patch[n][j]
        /\ sw_patch'[sw_iteration][i] = IF (sw_writes /\ ok) \/ sw_patch[sw_iteration][i] = 0 THEN sw_attempt
                                  ELSE sw_patch[sw_iteration][i]
    BY <2>1, <2>2 DEF SnapshotShape
  <2>4. /\ sw_runs' \in [Issues -> InstanceRuns]
        /\ \A j \in Issues \ {i} : sw_runs'[j] = sw_runs[j]
        /\ sw_runs'[i].state = (IF ok THEN "ok" ELSE "failed")
        /\ sw_runs'[i].passed = sw_runs[i].passed
    BY <2>1 DEF SnapshotShape, InstanceRuns
  <2>5. SnapshotShape'
    BY <1>1, <2>3, <2>4 DEF S!RunAgent, SnapshotShape
  <2>6. NoPatchYet'
    BY <1>1, <2>2, <2>3 DEF S!RunAgent, SnapshotShape, NoPatchYet
  <2>7. PatchesOwn'
    BY <1>1, <2>1, <2>2, <2>3, <2>4 DEF S!RunAgent, SnapshotShape, PatchesOwn
  <2> QED
    BY <1>1, <2>5, <2>6, <2>7 DEF S!RunAgent, GateFresh, StoredOwn
<1>2. CASE S!TimeOut
  <2>1. PICK i \in Issues :
          /\ sw_runs[i].state = "waiting"
          /\ sw_patch' = [sw_patch EXCEPT ![sw_iteration][i] = IF @ = 0 THEN sw_attempt ELSE @]
          /\ sw_runs' = [sw_runs EXCEPT ![i].state = "graded"]
    BY <1>2 DEF S!TimeOut
  <2>2. sw_iteration \in S!Steps
    BY <1>2 DEF S!TimeOut, SnapshotShape
  <2>3. /\ sw_patch' \in [S!Steps -> [Issues -> Nat]]
        /\ \A n \in S!Steps, j \in Issues :
             <<n, j>> # <<sw_iteration, i>> => sw_patch'[n][j] = sw_patch[n][j]
    BY <2>1, <2>2 DEF SnapshotShape
  <2>4. /\ sw_runs' \in [Issues -> InstanceRuns]
        /\ \A j \in Issues \ {i} : sw_runs'[j] = sw_runs[j]
        /\ sw_runs'[i].state = "graded" /\ sw_runs'[i].passed = sw_runs[i].passed
    BY <2>1 DEF SnapshotShape, InstanceRuns
  <2>5. SnapshotShape'
    BY <1>2, <2>3, <2>4 DEF S!TimeOut, SnapshotShape
  <2>6. NoPatchYet'
    BY <1>2, <2>2, <2>3 DEF S!TimeOut, SnapshotShape, NoPatchYet
  <2>7. PatchesOwn'
    BY <1>2, <2>1, <2>2, <2>3, <2>4 DEF S!TimeOut, SnapshotShape, PatchesOwn
  <2> QED
    BY <1>2, <2>5, <2>6, <2>7 DEF S!TimeOut, GateFresh, StoredOwn
<1> QED
  BY <1>1, <1>2

(* What was graded is the file of the patch, and the result keeps what      *)
(* passed.                                                                  *)
LEMMA SnapshotGradeSteps ==
  ASSUME SnapshotInv, S!Grade \/ S!StoreResult PROVE SnapshotInv'
<1> USE IterationsAssumption
<1> USE DEF SnapshotInv, S!Steps, S!Sources
<1>1. CASE S!Grade
  <2>1. PICK i \in Issues, resolved \in BOOLEAN :
          /\ sw_runs[i].state \in {"ok", "failed"}
          /\ sw_runs' = [sw_runs EXCEPT ![i] =
                        [state |-> "graded", passed |-> S!IsPassed(sw_runs[i].state, resolved),
                         graded |-> sw_patch[sw_iteration][i]]]
    BY <1>1 DEF S!Grade
  <2>2. /\ \A j \in Issues \ {i} : sw_runs'[j] = sw_runs[j]
        /\ sw_runs'[i].state = "graded" /\ sw_runs'[i].graded = sw_patch[sw_iteration][i]
        /\ sw_runs'[i].passed => sw_runs[i].state = "ok"
    BY <2>1 DEF SnapshotShape, S!IsPassed
  <2>3. SnapshotShape'
    BY <1>1, <2>1 DEF S!Grade, SnapshotShape, InstanceRuns, S!IsPassed
  <2>4. PatchesOwn'
    BY <1>1, <2>1, <2>2 DEF S!Grade, PatchesOwn
  <2> QED
    BY <1>1, <2>3, <2>4 DEF S!Grade, GateFresh, NoPatchYet, StoredOwn
<1>2. CASE S!StoreResult
  <2>1. sw_iteration \in S!Steps
    BY <1>2 DEF S!StoreResult, SnapshotShape
  <2>2. \A i \in Issues :
          sw_stored'[sw_iteration][i] = IF sw_runs[i].passed THEN sw_runs[i].graded ELSE 0
    BY <1>2, <2>1 DEF S!StoreResult, SnapshotShape
  <2>3. StoredOwn'
    BY <1>2, <2>2 DEF S!StoreResult, PatchesOwn, StoredOwn
  <2>4. SnapshotShape'
    BY <1>2, <2>1 DEF S!StoreResult, SnapshotShape
  <2> QED
    BY <1>2, <2>3, <2>4 DEF S!StoreResult, GateFresh, NoPatchYet, PatchesOwn
<1> QED
  BY <1>1, <1>2

(* The end of an iteration, and a crash with --resume. *)
LEMMA SnapshotEndSteps ==
  ASSUME SnapshotInv, S!Reject \/ S!Tag \/ S!Relaunch PROVE SnapshotInv'
<1> USE IterationsAssumption
<1> USE DEF SnapshotInv, S!Steps, S!Sources
<1>1. CASE S!Reject
  <2>1. SnapshotShape'
    BY <1>1 DEF S!Reject, SnapshotShape
  <2> QED
    BY <1>1, <2>1 DEF S!Reject, SnapshotShape, GateFresh, NoPatchYet, PatchesOwn, StoredOwn
<1>2. CASE S!Tag
  <2>1. SnapshotShape'
    <3>1. sw_gate' \in [S!Sources -> {"trusted", "edited", "missing"}]
      BY <1>2 DEF S!Tag, SnapshotShape
    <3>2. sw_iteration \in 1..Iterations
      BY <1>2 DEF S!Tag, SnapshotShape
    <3> QED
      BY <1>2, <3>1, <3>2 DEF S!Tag, SnapshotShape
  <2>2. NoPatchYet'
    BY <1>2 DEF S!Tag, SnapshotShape, NoPatchYet
  <2> QED
    BY <1>2, <2>1, <2>2 DEF S!Tag, GateFresh, PatchesOwn, StoredOwn
<1>3. CASE S!Relaunch
  <2>1. SnapshotShape'
    BY <1>3 DEF S!Relaunch, SnapshotShape
  <2>2. sw_crashes' # 0
    BY <1>3 DEF S!Relaunch, SnapshotShape
  <2> QED
    BY <1>3, <2>1, <2>2 DEF S!Relaunch, GateFresh, NoPatchYet, PatchesOwn, StoredOwn
<1> QED
  BY <1>1, <1>2, <1>3

(* Every step keeps the invariant.                                          *)
LEMMA SnapshotStep == SnapshotInv /\ [S!Next]_(S!vars) => SnapshotInv'
<1> USE IterationsAssumption
<1> SUFFICES ASSUME SnapshotInv, [S!Next]_(S!vars) PROVE SnapshotInv'
  OBVIOUS
<1>1. CASE S!Next
  <2>1. CASE S!Complete
    BY <2>1 DEF S!Complete, S!vars, SnapshotInv, SnapshotShape, GateFresh, NoPatchYet, PatchesOwn,
                StoredOwn, S!Steps, S!Sources
  <2> QED
    BY <1>1, <2>1, SnapshotProposerSteps, SnapshotAgentSteps, SnapshotGradeSteps, SnapshotEndSteps DEF S!Next
<1>2. CASE UNCHANGED S!vars
  BY <1>2 DEF S!vars, SnapshotInv, SnapshotShape, GateFresh, NoPatchYet, PatchesOwn, StoredOwn,
              S!Steps, S!Sources
<1> QED
  BY <1>1, <1>2

(* The flags *)

(* What is stored and what was touched is of this iteration or earlier, and *)
(* from the edit to the tag the copy in the snapshot that the proposal names*)
(* shows whether the proposer touched it.                                   *)
FlagInv ==
  /\ DOMAIN sw_flag = S!Steps /\ sw_source \in S!Sources
  /\ \A n \in sw_edited :
       /\ n \in S!Steps
       /\ n < sw_iteration \/ (n = sw_iteration /\ sw_pc \in {"evaluate", "tag"})
  /\ \A n \in S!Completed : n < sw_iteration \/ (n = sw_iteration /\ sw_pc = "tag")
  /\ sw_pc \in {"evaluate", "tag"} /\ sw_source = sw_iteration =>
       (sw_gate[sw_iteration] # "trusted" <=> sw_iteration \in sw_edited)
  /\ S!FlagsTrue

LEMMA FlagInit == S!Init => FlagInv
BY IterationsAssumption DEF S!Init, FlagInv, S!FlagsTrue, S!Completed, S!Steps, S!Sources

LEMMA FlagStep == SnapshotInv /\ FlagInv /\ [S!Next]_(S!vars) => FlagInv'
<1> USE IterationsAssumption
<1> SUFFICES ASSUME SnapshotInv, FlagInv, [S!Next]_(S!vars) PROVE FlagInv'
  OBVIOUS
<1> USE DEF SnapshotInv, SnapshotShape, S!Steps, S!Sources
<1>1. CASE S!BuildSnapshot
  BY <1>1 DEF S!BuildSnapshot, S!Mirrored, FlagInv, S!FlagsTrue, S!Completed
<1>2. CASE S!Edit
  <2>1. PICK g \in {"trusted", "edited", "missing"} :
          /\ sw_gate' = [sw_gate EXCEPT ![sw_iteration] = g]
          /\ sw_edited' = IF g # "trusted" /\ sw_source' = sw_iteration THEN sw_edited \cup {sw_iteration}
                       ELSE sw_edited
    BY <1>2 DEF S!Edit
  <2>2. sw_iteration \notin sw_edited /\ sw_iteration \in S!Steps
    BY <1>2 DEF S!Edit, FlagInv
  <2> QED
    BY <1>2, <2>1, <2>2 DEF S!Edit, FlagInv, S!FlagsTrue, S!Completed
<1>3. CASE S!Reject
  <2>1. /\ sw_pc = "evaluate" /\ sw_pc' = "snapshot" /\ sw_iteration' = sw_iteration + 1
        /\ UNCHANGED <<sw_gate, sw_source, sw_flag, sw_edited, S!Completed>>
    BY <1>3 DEF S!Reject, S!Completed
  <2>2. \A n \in S!Completed : n < sw_iteration
    BY <2>1 DEF FlagInv
  <2>3. S!FlagsTrue'
    BY <2>1, <2>2 DEF S!FlagsTrue, S!Completed
  <2>4. S!Completed \subseteq Int
    BY DEF S!Completed
  <2>5. ASSUME NEW n \in sw_edited PROVE n \in S!Steps /\ n < sw_iteration + 1
    <3>1. n \in S!Steps /\ (n < sw_iteration \/ n = sw_iteration)
      BY DEF FlagInv
    <3>2. sw_iteration \in Int
      OBVIOUS
    <3> QED
      BY <3>1, <3>2
  <2> QED
    BY <2>1, <2>2, <2>3, <2>4, <2>5 DEF FlagInv
<1>4. CASE S!RunAgent \/ S!TimeOut \/ S!Grade
  BY <1>4 DEF S!RunAgent, S!TimeOut, S!Grade, FlagInv, S!FlagsTrue, S!Completed
<1>5. CASE S!StoreResult
  <2>1. \A n \in S!Completed' : n \in S!Completed \/ n = sw_iteration
    BY <1>5 DEF S!StoreResult, S!Completed
  <2> QED
    BY <1>5, <2>1 DEF S!StoreResult, FlagInv, S!FlagsTrue
<1>6. CASE S!Tag
  <2>1. sw_flag'[sw_iteration] <=> sw_gate[sw_source] # "trusted"
    BY <1>6 DEF S!Tag, S!Tampered, FlagInv
  <2>2. /\ sw_pc = "tag" /\ sw_pc' = "snapshot" /\ sw_iteration' = sw_iteration + 1
        /\ UNCHANGED <<sw_source, sw_edited, S!Completed, sw_crashes>>
        /\ DOMAIN sw_flag' = S!Steps
    BY <1>6 DEF S!Tag, S!Completed, FlagInv
  <2>3. S!Completed \subseteq Int /\ sw_edited \subseteq Int
    BY DEF S!Completed, FlagInv
  <2>4. S!FlagsTrue'
    BY <2>1, <2>2 DEF S!FlagsTrue, FlagInv
  <2> QED
    BY <2>2, <2>3, <2>4 DEF FlagInv
<1>7. CASE S!Relaunch
  <2>1. /\ sw_crashes' # 0 /\ sw_pc' = "snapshot" /\ DOMAIN sw_flag' = S!Steps
        /\ UNCHANGED <<sw_source, S!Completed>>
        /\ \A n \in S!Completed : n < sw_iteration'
        /\ sw_edited' = {n \in sw_edited : n < sw_iteration'}
    BY <1>7 DEF S!Relaunch, S!Completed
  <2>2. S!FlagsTrue'
    BY <2>1 DEF S!FlagsTrue
  <2> QED
    BY <2>1, <2>2 DEF FlagInv
<1>8. CASE S!Complete \/ UNCHANGED S!vars
  BY <1>8 DEF S!Complete, S!vars, FlagInv, S!FlagsTrue, S!Completed
<1> QED
  BY <1>1, <1>2, <1>3, <1>4, <1>5, <1>6, <1>7, <1>8 DEF S!Next

-----------------------------------------------------------------------------
(* GraphColouring: the rows and the tree                                    *)

Trees == [evolved : Nat, runner : {"upstream", "patched", "foreign"},
          makefile : {"upstream", "patched"}]

(* The part of the type of the state that the arguments below need.         *)
ColouringShape ==
  /\ gc_iter \in Nat \ {0} /\ gc_attempt \in Nat /\ gc_tree \in Trees
  /\ \A i \in DOMAIN gc_snaps : gc_snaps[i] \in Trees
  /\ gc_csv \in [Graphs -> [attempt : Nat, row : {"none", "optimal", "more", "other"}]]
  /\ gc_stage \in [Graphs -> {"todo", "running", "ended"}]
  /\ gc_score \in [Graphs -> {0, 1, 2}]

RowOwn(g) == gc_csv[g].attempt = gc_attempt \/ \E o \in gc_orphans : o[1] = g

(* A row that is there when the program of a graph runs, or that a score    *)
(* was taken from, is of this attempt, or of a program left running.        *)
RowInv ==
  gc_pc \in {"run", "score"} =>
    \A g \in Graphs :
      \/ gc_stage[g] = "running" /\ gc_csv[g].row # "none"
      \/ gc_stage[g] = "ended" /\ gc_score[g] # G!Worst
      => RowOwn(g)

(* The tree that a result was measured with is the one its iteration left,  *)
(* but for the slot that the overlay fills.                                 *)
TreeInv ==
  /\ gc_pc \in {"prepare", "run", "score"} => gc_iter \in DOMAIN gc_snaps /\ gc_snaps[gc_iter] = gc_tree
  /\ gc_pc \in {"run", "score"} => gc_work.evolved = G!Ensured(gc_tree).evolved
  /\ \A r \in gc_results :
       /\ r.iter \in Nat \ {0}
       /\ r.iter < gc_iter \/ (r.iter = gc_iter /\ gc_pc \in {"rank", "done"})
       /\ r.iter \in DOMAIN gc_snaps
       /\ G!Ensured(gc_snaps[r.iter]).evolved = r.measured.evolved
  /\ gc_pc = "propose" =>
       \A r \in gc_results : r.iter = gc_base => G!Ensured(gc_tree).evolved = r.measured.evolved

ColouringInv == ColouringShape /\ RowInv /\ TreeInv

(* The overlay fills an empty slot and leaves a written one alone.          *)
LEMMA OverlayKeeps ==
  ASSUME NEW t \in Trees
  PROVE  /\ G!Ensured(t) \in Trees
         /\ G!Overlaid(t) \in Trees /\ G!Overlaid(t).evolved = G!Ensured(t).evolved
         /\ t.evolved # G!Absent => G!Ensured(t).evolved = t.evolved
<1>1. G!Ensured(t) \in Trees
  BY DEF G!Ensured, Trees, G!Template
<1>2. /\ G!PatchedRunner(G!Ensured(t)) \in Trees
      /\ G!PatchedRunner(G!Ensured(t)).evolved = G!Ensured(t).evolved
  BY <1>1 DEF G!PatchedRunner, Trees
<1>3. /\ G!Overlaid(t) \in Trees
      /\ G!Overlaid(t).evolved = G!PatchedRunner(G!Ensured(t)).evolved
  BY <1>2 DEF G!Overlaid, G!PatchedMakefile, Trees
<1> QED
  BY <1>1, <1>2, <1>3 DEF G!Ensured

LEMMA UpstreamIsTree == G!Upstream \in Trees
BY DEF G!Upstream, Trees, G!Absent

LEMMA ColouringInit == G!Init => ColouringInv
BY UpstreamIsTree, OverlayKeeps
   DEF G!Init, ColouringInv, ColouringShape, RowInv, TreeInv, G!NoRow, G!Worst

(* The tree of an iteration: copied, edited, compiled.                      *)
LEMMA TreeSteps ==
  ASSUME ColouringInv, G!BuildSnapshot \/ G!Edit \/ G!FailToCompile \/ G!Compile
  PROVE  ColouringInv'
<1> USE DEF ColouringInv
<1>1. CASE G!BuildSnapshot
  <2>1. PICK b \in {0} \cup {r.iter : r \in gc_results} :
          gc_base' = b /\ gc_tree' = IF b = 0 THEN G!Overlaid(G!Upstream) ELSE gc_snaps[b]
    BY <1>1 DEF G!BuildSnapshot
  <2>2. b # 0 => b \in DOMAIN gc_snaps
    BY <2>1 DEF TreeInv
  <2>3. gc_tree' \in Trees
    BY <2>1, <2>2, UpstreamIsTree, OverlayKeeps DEF ColouringShape
  <2>4. \A r \in gc_results : r.iter = b => G!Ensured(gc_tree').evolved = r.measured.evolved
    BY <2>1 DEF TreeInv
  <2>5. ColouringShape' /\ RowInv'
    BY <1>1, <2>3 DEF G!BuildSnapshot, ColouringShape, RowInv
  <2>6. TreeInv'
    BY <1>1, <2>1, <2>4 DEF G!BuildSnapshot, TreeInv, G!Ensured
  <2> QED
    BY <2>5, <2>6
<1>2. CASE G!Edit
  <2>1. PICK evolved \in {G!Written(gc_attempt), G!Absent},
             runner \in {gc_tree.runner, "upstream", "foreign"} :
          gc_tree' = [gc_tree EXCEPT !.evolved = evolved, !.runner = runner]
    BY <1>2 DEF G!Edit
  <2>2. gc_tree' \in Trees
    <3>1. gc_tree \in Trees /\ evolved \in Nat /\ runner \in {"upstream", "patched", "foreign"}
      BY DEF ColouringShape, Trees, G!Written, G!Absent
    <3> QED
      BY <2>1, <3>1 DEF Trees
  <2>3. /\ gc_pc = "propose" /\ gc_pc' = "prepare"
        /\ gc_snaps' = [i \in DOMAIN gc_snaps \cup {gc_iter} |-> IF i = gc_iter THEN gc_tree' ELSE gc_snaps[i]]
        /\ UNCHANGED <<gc_iter, gc_attempt, gc_csv, gc_stage, gc_score, gc_results>>
    BY <1>2 DEF G!Edit
  <2>4. ColouringShape' /\ RowInv'
    BY <2>2, <2>3 DEF ColouringShape, RowInv
  <2>5. \A r \in gc_results : r.iter # gc_iter /\ r.iter \in DOMAIN gc_snaps /\ gc_snaps'[r.iter] = gc_snaps[r.iter]
    BY <2>3 DEF TreeInv, ColouringShape
  <2>6. TreeInv'
    BY <2>3, <2>5 DEF TreeInv, G!Ensured
  <2> QED
    BY <2>4, <2>6
<1>3. CASE G!FailToCompile
  <2>1. gc_work'.evolved = G!Ensured(gc_tree).evolved
    BY <1>3, OverlayKeeps DEF G!FailToCompile, ColouringShape
  <2>2. ColouringShape' /\ RowInv'
    BY <1>3 DEF G!FailToCompile, ColouringShape, RowInv, G!Worst
  <2>3. TreeInv'
    BY <1>3, <2>1 DEF G!FailToCompile, TreeInv, G!Ensured
  <2> QED
    BY <2>2, <2>3
<1>4. CASE G!Compile
  <2>1. gc_work'.evolved = G!Ensured(gc_tree).evolved
    BY <1>4, OverlayKeeps DEF G!Compile, ColouringShape
  <2>2. ColouringShape' /\ RowInv'
    BY <1>4 DEF G!Compile, ColouringShape, RowInv
  <2>3. TreeInv'
    BY <1>4, <2>1 DEF G!Compile, TreeInv, G!Ensured
  <2> QED
    BY <2>2, <2>3
<1> QED
  BY <1>1, <1>2, <1>3, <1>4

(* The programs: started with no row, writing rows, ended and scored.       *)
LEMMA ProgramSteps ==
  ASSUME ColouringInv, NEW g \in Graphs, G!StartRun(g) \/ G!AppendRow(g) \/ G!EndRun(g)
  PROVE  ColouringInv'
<1> USE DEF ColouringInv
<1>1. TreeInv'
  <2>1. /\ UNCHANGED <<gc_iter, gc_base, gc_tree, gc_snaps, gc_work, gc_results>>
        /\ (gc_pc' \in {"run", "score"} /\ gc_pc = "run") \/ gc_pc' = gc_pc
    BY DEF G!StartRun, G!AppendRow, G!EndRun
  <2> QED
    BY <2>1 DEF TreeInv, G!Ensured
<1>2. CASE G!StartRun(g)
  <2>1. ColouringShape'
    BY <1>2 DEF G!StartRun, ColouringShape, G!NoRow
  <2>2. \A h \in Graphs : gc_csv'[h] = (IF h = g THEN G!NoRow ELSE gc_csv[h])
                          /\ gc_stage'[h] = (IF h = g THEN "running" ELSE gc_stage[h])
    BY <1>2 DEF G!StartRun, ColouringShape
  <2>3. RowInv'
    BY <1>2, <2>2 DEF G!StartRun, RowInv, RowOwn, G!NoRow
  <2> QED
    BY <1>1, <2>1, <2>3
<1>3. CASE G!AppendRow(g)
  <2>1. PICK a \in 1..gc_attempt, row \in {"optimal", "more", "other"} :
          /\ <<g, a>> \in gc_orphans \/ (a = gc_attempt /\ gc_pc = "run" /\ gc_stage[g] = "running")
          /\ gc_csv' = [gc_csv EXCEPT ![g] = [attempt |-> a, row |-> row]]
    BY <1>3 DEF G!AppendRow
  <2>2. ColouringShape'
    BY <1>3, <2>1 DEF G!AppendRow, ColouringShape
  <2>3. \A h \in Graphs : gc_csv'[h] = IF h = g THEN [attempt |-> a, row |-> row] ELSE gc_csv[h]
    BY <2>1 DEF ColouringShape
  <2>4. a = gc_attempt \/ \E o \in gc_orphans : o[1] = g
    BY <2>1
  <2>5. RowInv'
    BY <1>3, <2>3, <2>4 DEF G!AppendRow, RowInv, RowOwn
  <2> QED
    BY <1>1, <2>2, <2>5
<1>4. CASE G!EndRun(g)
  <2>1. PICK exit \in {"zero", "nonzero", "timeout"} :
          gc_score' = [gc_score EXCEPT ![g] = G!Scored(exit, gc_csv[g].row)]
    BY <1>4 DEF G!EndRun
  <2>2. ColouringShape'
    BY <1>4, <2>1 DEF G!EndRun, ColouringShape, G!Scored, G!Worst
  <2>3. \A h \in Graphs : gc_score'[h] = (IF h = g THEN G!Scored(exit, gc_csv[h].row) ELSE gc_score[h])
                          /\ gc_stage'[h] = (IF h = g THEN "ended" ELSE gc_stage[h])
    BY <1>4, <2>1 DEF G!EndRun, ColouringShape
  <2>4. G!Scored(exit, gc_csv[g].row) # G!Worst => gc_csv[g].row # "none"
    BY DEF G!Scored, G!Worst
  <2>5. RowInv'
    BY <1>4, <2>3, <2>4 DEF G!EndRun, RowInv, RowOwn
  <2> QED
    BY <1>1, <2>2, <2>5
<1> QED
  BY <1>2, <1>3, <1>4

(* The result, the frontier and a crash.                                    *)
LEMMA ResultSteps ==
  ASSUME ColouringInv, G!StoreResult \/ G!Rank \/ G!Crash PROVE ColouringInv'
<1> USE DEF ColouringInv
<1>1. CASE G!StoreResult
  <2>1. PICK x : /\ x.iter = gc_iter /\ x.measured = gc_work
                 /\ gc_results' = gc_results \cup {x}
    BY <1>1 DEF G!StoreResult
  <2>2. /\ gc_pc = "score" /\ gc_pc' = "rank"
        /\ UNCHANGED <<gc_iter, gc_attempt, gc_base, gc_tree, gc_snaps, gc_work, gc_csv, gc_stage, gc_score>>
    BY <1>1 DEF G!StoreResult
  <2>3. TreeInv'
    BY <2>1, <2>2 DEF ColouringShape, TreeInv, G!Ensured
  <2> QED
    BY <2>2, <2>3 DEF ColouringShape, RowInv
<1>2. CASE G!Rank
  <2>1. /\ gc_pc = "rank" /\ UNCHANGED <<gc_tree, gc_snaps, gc_work, gc_stage, gc_score, gc_results>>
        /\ gc_csv' = [g \in Graphs |-> G!NoRow]
        /\ \/ gc_pc' = "build" /\ gc_iter' = gc_iter + 1 /\ gc_attempt' = gc_attempt + 1
           \/ gc_pc' = "done" /\ UNCHANGED <<gc_iter, gc_attempt>>
    BY <1>2 DEF G!Rank
  <2>2. ColouringShape'
    BY <2>1 DEF ColouringShape, G!NoRow
  <2>3. TreeInv'
    BY <2>1 DEF ColouringShape, TreeInv, G!Ensured
  <2> QED
    BY <2>1, <2>2, <2>3 DEF RowInv
<1>3. CASE G!Crash
  <2>1. /\ gc_pc \in {"propose", "prepare", "run", "score"} /\ gc_pc' = "build"
        /\ gc_attempt' = gc_attempt + 1
        /\ UNCHANGED <<gc_iter, gc_tree, gc_work, gc_csv, gc_stage, gc_score, gc_results>>
        /\ gc_snaps' = [i \in DOMAIN gc_snaps \ {gc_iter} |-> gc_snaps[i]]
    BY <1>3 DEF G!Crash
  <2>2. ColouringShape'
    BY <2>1 DEF ColouringShape
  <2>3. \A r \in gc_results : r.iter \in DOMAIN gc_snaps' /\ gc_snaps'[r.iter] = gc_snaps[r.iter]
    BY <2>1 DEF ColouringShape, TreeInv
  <2>4. TreeInv'
    BY <2>1, <2>3 DEF ColouringShape, TreeInv, G!Ensured
  <2> QED
    BY <2>1, <2>2, <2>4 DEF RowInv
<1> QED
  BY <1>1, <1>2, <1>3

LEMMA ColouringStep == ColouringInv /\ [G!Next]_(G!vars) => ColouringInv'
<1> SUFFICES ASSUME ColouringInv, [G!Next]_(G!vars) PROVE ColouringInv'
  OBVIOUS
<1>1. CASE G!Done \/ UNCHANGED G!vars
  BY <1>1 DEF G!Done, G!vars, ColouringInv, ColouringShape, RowInv, RowOwn, TreeInv, G!Ensured
<1> QED
  BY <1>1, TreeSteps, ProgramSteps, ResultSteps DEF G!Next

LEMMA ColouringImplies == ColouringInv => G!RowsOwn /\ G!EditsKept
<1> SUFFICES ASSUME ColouringInv PROVE G!RowsOwn /\ G!EditsKept
  OBVIOUS
<1>1. G!RowsOwn
  BY DEF ColouringInv, RowInv, RowOwn, G!RowsOwn
<1>2. G!EditsKept
  BY OverlayKeeps DEF ColouringInv, ColouringShape, TreeInv, G!EditsKept
<1> QED
  BY <1>1, <1>2

-----------------------------------------------------------------------------
(* CandidateSource: what is imported                                        *)

(* The contents there are so far. *)
Contents == {None, Host} \cup 1..cs_proposals

Values(code) == {code.main, code.helper, code.package}

(* A module holds nothing or what a proposal wrote. *)
Written == {None} \cup 1..cs_proposals

(* Files and modules hold contents that were proposed already, so the next  *)
(* proposal's number is on none of them; and what is imported has a file.   *)
ContentsKnown ==
  /\ cs_proposals \in Nat
  /\ \A part \in cs_foul : part[1] \in 1..cs_proposals
  /\ cs_generated \in [Modules -> Written]
  /\ cs_archive \in [C!Iters -> Contents]
  /\ cs_cached \in [Modules -> Written]
  /\ \A m \in Modules : cs_cached[m] # None => cs_generated[m] # None
  /\ DOMAIN cs_trained = C!Iters /\ DOMAIN cs_spec = C!Iters
  /\ \A i \in C!Iters : cs_trained[i] # None => Values(cs_trained[i]) \subseteq Contents
  /\ cs_pc = "load" => cs_candidate \in C!Proposal /\ cs_candidate.helper # cs_candidate.main

(* What sys.modules holds of the top of the directory was scanned: the scan *)
(* of an iteration does not see it. Only the final test, after which no     *)
(* iteration follows in this process, imports a file that no scan has seen. *)
CacheClean ==
  \A m \in Modules \ Nested :
    <<cs_cached[m], m>> \in cs_foul => cs_pc \in {"test", "done"} /\ cs_cached[m] = cs_generated[m]

TrainedSeen ==
  \A i \in C!Iters : cs_trained[i] # None =>
    \A part \in C!FoulParts(cs_spec[i], cs_trained[i]) : part[2] \in C!Unseen(cs_spec[i])

CleanInv == ContentsKnown /\ CacheClean /\ TrainedSeen

(* A missing file and the optimizer's own package hold no marker. *)
LEMMA OnlyProposalsFoul ==
  ASSUME CleanInv, NEW place
  PROVE  <<None, place>> \notin cs_foul /\ <<Host, place>> \notin cs_foul
<1>1. cs_proposals \in Nat /\ \A part \in cs_foul : part[1] \in 1..cs_proposals
  BY DEF CleanInv, ContentsKnown
<1>2. \A n : <<n, place>> \in cs_foul => n \in Nat
  BY <1>1
<1> QED
  BY <1>2, ContentsAssumption, Zenon

(* What is imported by name is in the cache or in the file.                 *)
LEMMA ImportedKnown ==
  ASSUME CleanInv, NEW m \in Modules
  PROVE  /\ C!Imported(m) \in {cs_cached[m], cs_generated[m]} /\ C!Imported(m) \in Written
         /\ C!Imported(m) # None => cs_generated[m] # None
BY DEF CleanInv, ContentsKnown, C!Imported

(* The values of what the loader measures were proposed.                    *)
LEMMA LoadedIsKnown ==
  ASSUME CleanInv, NEW c \in C!Proposal, NEW i \in C!Iters
  PROVE  Values(C!Code(c, i)) \subseteq Contents
<1>1. c.main \in Modules /\ c.helper \in Modules \cup {None}
  BY DEF C!Proposal
<1>2. Written \subseteq Contents
  BY DEF Written, Contents
<1>3. cs_generated[c.main] \in Contents
  BY <1>1, <1>2 DEF CleanInv, ContentsKnown
<1>4. c.helper # None => C!Imported(c.helper) \in Contents
  BY <1>1, <1>2, ImportedKnown
<1>5. C!Package(c, i) \in Contents
  BY DEF C!Package, Contents, CleanInv, ContentsKnown
<1>6. None \in Contents
  BY DEF Contents
<1> QED
  BY <1>3, <1>4, <1>5, <1>6 DEF Values, C!Code, C!Main

(* What the loader measures of a candidate that passed the scan was scanned,*)
(* but for nested modules whose files the proposal does not name.           *)
LEMMA LoadedIsScanned ==
  ASSUME CleanInv, cs_pc = "load", cs_iteration \in C!Iters,
         ~C!PolicyViolated(cs_candidate, cs_iteration), C!Loadable(cs_candidate, cs_iteration),
         NEW part \in C!FoulParts(cs_candidate, C!Code(cs_candidate, cs_iteration))
  PROVE  part[2] \in C!Unseen(cs_candidate)
<1> DEFINE c == cs_candidate
<1>1. /\ c.main \in Modules /\ c.helper \in Modules \cup {None} /\ c.project \in BOOLEAN
      /\ c.kind \in {"scaffold", "module", "package", "path"}
  BY DEF CleanInv, ContentsKnown, C!Proposal
<1>2. \A m \in C!NamedFile(c) \cup (Modules \ Nested) : <<cs_generated[m], m>> \notin cs_foul
  BY DEF C!PolicyViolated, C!Scanned
<1>3. part \in cs_foul
  BY DEF C!FoulParts
<1>4. CASE part = <<C!Code(c, cs_iteration).main, c.main>>
  <2>1. c.kind # "scaffold" /\ part = <<cs_generated[c.main], c.main>>
    BY <1>3, <1>4, OnlyProposalsFoul DEF C!Code, C!Main
  <2>2. c.main \in Nested /\ c.main \notin C!NamedFile(c)
    BY <1>1, <1>2, <1>3, <2>1
  <2> QED
    BY <2>1, <2>2 DEF C!Unseen, C!OwnCode
<1>5. CASE part = <<C!Code(c, cs_iteration).helper, c.helper>>
  <2>1. c.kind # "scaffold" /\ c.helper # None /\ part = <<C!Imported(c.helper), c.helper>>
    BY <1>3, <1>5, OnlyProposalsFoul DEF C!Code
  <2>2. c.helper \in Modules
    BY <1>1, <2>1
  <2>3. C!Imported(c.helper) \in {cs_cached[c.helper], cs_generated[c.helper]}
    BY <2>2, ImportedKnown
  <2>4. c.helper \in Nested
    BY <1>2, <1>3, <2>1, <2>2, <2>3 DEF CleanInv, CacheClean
  <2>5. c.helper # c.main
    BY DEF CleanInv, ContentsKnown
  <2> QED
    BY <2>1, <2>4, <2>5 DEF C!Unseen, C!OwnCode, C!NamedFile
<1>6. CASE part = <<C!Code(c, cs_iteration).package, C!Project>>
  <2>1. c.project
    BY <1>3, <1>6, OnlyProposalsFoul DEF C!Code, C!Package
  <2>2. part = <<cs_archive[cs_iteration], C!Project>>
    BY <1>6, <2>1 DEF C!Code, C!Package
  <2>3. C!Resolved(c)
    BY <2>1, Zenon DEF C!Loadable, C!Found
  <2>4. part \in C!Scanned(c, cs_iteration)
    BY <2>1, <2>2, <2>3 DEF C!Scanned
  <2> QED
    BY <1>3, <2>4 DEF C!PolicyViolated
<1> QED
  BY <1>4, <1>5, <1>6 DEF C!FoulParts

(* What a load leaves in sys.modules it found there or in a file.           *)
LEMMA CacheFromFiles ==
  ASSUME CleanInv, NEW c, NEW left \in {C!CachedAfter(c)} \cup C!CachedAfterRaise(c)
  PROVE  /\ left \in [Modules -> Written]
         /\ \A m \in Modules : left[m] \in {None, cs_cached[m], cs_generated[m]}
         /\ \A m \in Modules : left[m] # None => cs_generated[m] # None
<1>1. /\ cs_cached \in [Modules -> Written] /\ cs_generated \in [Modules -> Written]
      /\ \A m \in Modules : cs_cached[m] # None => cs_generated[m] # None
  BY DEF CleanInv, ContentsKnown
<1>2. DOMAIN left = Modules /\ left = [m \in Modules |-> left[m]]
  BY DEF C!CachedAfter, C!CachedAfterRaise
<1>3. \A m \in Modules : left[m] \in {None, cs_cached[m], cs_generated[m]}
  <2>1. CASE left = C!CachedAfter(c)
    BY <2>1 DEF C!CachedAfter, C!Imported, C!Main
  <2>2. CASE left \in C!CachedAfterRaise(c)
    BY <2>2 DEF C!CachedAfterRaise, C!Imported, C!Main
  <2> QED
    BY <2>1, <2>2
<1>4. None \in Written
  BY DEF Written
<1> QED
  BY <1>1, <1>2, <1>3, <1>4

(* The invariant holds at first.                                            *)
LEMMA CleanInit == C!Init => CleanInv
BY DEF C!Init, CleanInv, ContentsKnown, CacheClean, TrainedSeen, C!FoulParts, Contents, Written

LEMMA ProposeClean ==
  ASSUME CleanInv, C!Propose PROVE CleanInv'
<1>1. PICK c \in C!Proposal, b \in {0} \cup {j \in C!Iters : cs_trained[j] # None}, edited \in BOOLEAN :
        \E written \in {C!OwnCode(c), C!OwnCode(c) \ {c.helper}} :
        \E marked \in SUBSET (written \cup (IF edited THEN {C!Project} ELSE {})) :
          /\ c.helper # c.main
          /\ cs_generated' = C!Synced(written, cs_proposals')
          /\ cs_archive' = C!Archive(cs_iteration, IF edited THEN cs_proposals' ELSE C!Start(b))
          /\ cs_foul' = cs_foul \cup {<<cs_proposals', place>> : place \in marked}
          /\ cs_candidate' = c
  BY DEF C!Propose
<1>2. PICK written \in {C!OwnCode(c), C!OwnCode(c) \ {c.helper}} :
        cs_generated' = C!Synced(written, cs_proposals')
  BY <1>1
<1>3. /\ cs_proposals' = cs_proposals + 1 /\ cs_pc = "propose" /\ cs_pc' = "load"
      /\ UNCHANGED <<cs_cached, cs_trained, cs_spec>>
      /\ cs_proposals \in Nat
  BY DEF C!Propose, CleanInv, ContentsKnown
<1>4. \A part \in cs_foul' : part \in cs_foul \/ part[1] = cs_proposals'
  BY <1>1
<1>5. /\ Contents' = Contents \cup {cs_proposals'} /\ Written' = Written \cup {cs_proposals'}
      /\ cs_proposals' \notin Contents /\ cs_proposals' \notin Written /\ cs_proposals' # None
  BY <1>3, ContentsAssumption DEF Contents, Written
<1>6. ContentsKnown'
  <2>1. C!Start(b) \in Contents
    BY DEF C!Start, CleanInv, ContentsKnown, Contents
  <2>2. cs_archive' \in [C!Iters -> Contents']
    BY <1>1, <1>5, <2>1 DEF C!Archive, CleanInv, ContentsKnown
  <2>3. /\ cs_generated' \in [Modules -> Written']
        /\ \A m \in Modules : cs_generated[m] # None => cs_generated'[m] # None
    BY <1>2, <1>5 DEF C!Synced, CleanInv, ContentsKnown
  <2>4. cs_cached' \in [Modules -> Written']
    BY <1>3, <1>5 DEF CleanInv, ContentsKnown
  <2>5. \A part \in cs_foul' : part[1] \in 1..cs_proposals'
    BY <1>3, <1>4 DEF CleanInv, ContentsKnown
  <2>6. cs_candidate' \in C!Proposal /\ cs_candidate'.helper # cs_candidate'.main
    BY <1>1
  <2> QED
    BY <1>3, <1>5, <2>2, <2>3, <2>4, <2>5, <2>6 DEF CleanInv, ContentsKnown, Values
<1>7. CacheClean'
  <2> SUFFICES ASSUME NEW m \in Modules \ Nested PROVE <<cs_cached[m], m>> \notin cs_foul'
    BY <1>3 DEF CacheClean
  <2>1. <<cs_cached[m], m>> \notin cs_foul
    BY <1>3 DEF CleanInv, CacheClean
  <2>2. cs_cached[m] # cs_proposals'
    BY <1>5 DEF CleanInv, ContentsKnown
  <2> QED
    BY <1>4, <2>1, <2>2
<1>8. TrainedSeen'
  <2> SUFFICES ASSUME NEW i \in C!Iters, cs_trained[i] # None,
                      NEW part \in C!FoulParts(cs_spec[i], cs_trained[i])'
               PROVE  part[2] \in C!Unseen(cs_spec[i])
    BY <1>3 DEF TrainedSeen, C!Unseen, C!OwnCode, C!NamedFile
  <2>1. part \in cs_foul' /\ part[1] \in Values(cs_trained[i])
    BY <1>3 DEF C!FoulParts, Values
  <2>2. part[1] # cs_proposals'
    BY <1>5, <2>1 DEF CleanInv, ContentsKnown
  <2>3. part \in C!FoulParts(cs_spec[i], cs_trained[i])
    BY <1>3, <1>4, <2>1, <2>2 DEF C!FoulParts
  <2> QED
    BY <2>3 DEF CleanInv, TrainedSeen
<1> QED
  BY <1>6, <1>7, <1>8 DEF CleanInv

(* What raised or passed after a scan leaves nothing unscanned of the top.  *)
LEMMA ScannedCacheClean ==
  ASSUME CleanInv, cs_pc = "load", ~C!PolicyViolated(cs_candidate, cs_iteration),
         NEW left \in {C!CachedAfter(cs_candidate)} \cup C!CachedAfterRaise(cs_candidate),
         NEW m \in Modules \ Nested
  PROVE  <<left[m], m>> \notin cs_foul
<1>1. left[m] \in {None, cs_cached[m], cs_generated[m]}
  BY CacheFromFiles
<1>2. <<None, m>> \notin cs_foul
  BY OnlyProposalsFoul
<1>3. <<cs_cached[m], m>> \notin cs_foul
  BY DEF CleanInv, CacheClean
<1>4. <<cs_generated[m], m>> \notin cs_foul
  BY DEF C!PolicyViolated, C!Scanned
<1> QED
  BY <1>1, <1>2, <1>3, <1>4

LEMMA TrainClean ==
  ASSUME CleanInv, cs_iteration \in C!Iters, C!Train PROVE CleanInv'
<1>1. /\ UNCHANGED <<cs_proposals, cs_foul, cs_generated, cs_archive>>
      /\ cs_pc = "load" /\ cs_pc' # "load" /\ cs_cached' = C!CachedAfter(cs_candidate)
      /\ ~C!PolicyViolated(cs_candidate, cs_iteration) /\ C!Loadable(cs_candidate, cs_iteration)
      /\ cs_candidate \in C!Proposal
      /\ cs_trained' = [cs_trained EXCEPT ![cs_iteration] = C!Code(cs_candidate, cs_iteration)]
      /\ cs_spec' = [cs_spec EXCEPT ![cs_iteration] = cs_candidate]
  BY DEF C!Train, C!Finish, CleanInv, ContentsKnown
<1>2. /\ DOMAIN cs_trained = C!Iters /\ DOMAIN cs_spec = C!Iters
      /\ cs_trained'[cs_iteration] = C!Code(cs_candidate, cs_iteration)
      /\ cs_spec'[cs_iteration] = cs_candidate
      /\ \A i \in C!Iters \ {cs_iteration} : cs_trained'[i] = cs_trained[i] /\ cs_spec'[i] = cs_spec[i]
  BY <1>1 DEF CleanInv, ContentsKnown
<1>3. /\ cs_cached' \in [Modules -> Written]
      /\ \A m \in Modules : cs_cached'[m] # None => cs_generated[m] # None
  BY <1>1, CacheFromFiles
<1>4. ContentsKnown'
  <2>1. \A i \in C!Iters : cs_trained'[i] # None => Values(cs_trained'[i]) \subseteq Contents
    BY <1>1, <1>2, LoadedIsKnown DEF CleanInv, ContentsKnown
  <2> QED
    BY <1>1, <1>2, <1>3, <2>1 DEF CleanInv, ContentsKnown, Contents, Written, Values
<1>5. CacheClean'
  BY <1>1, ScannedCacheClean DEF CacheClean
<1>6. TrainedSeen'
  <2> SUFFICES ASSUME NEW i \in C!Iters, cs_trained'[i] # None,
                      NEW part \in C!FoulParts(cs_spec[i], cs_trained[i])'
               PROVE  part[2] \in C!Unseen(cs_spec'[i])
    BY DEF TrainedSeen, C!Unseen, C!OwnCode, C!NamedFile
  <2>1. CASE i = cs_iteration
    <3>1. part \in C!FoulParts(cs_candidate, C!Code(cs_candidate, cs_iteration))
      BY <1>1, <1>2, <2>1 DEF C!FoulParts
    <3> QED
      BY <1>1, <1>2, <2>1, <3>1, LoadedIsScanned
  <2>2. CASE i # cs_iteration
    <3>1. part \in C!FoulParts(cs_spec[i], cs_trained[i])
      BY <1>1, <1>2, <2>2 DEF C!FoulParts
    <3> QED
      BY <1>2, <2>2, <3>1 DEF CleanInv, TrainedSeen
  <2> QED
    BY <2>1, <2>2
<1> QED
  BY <1>4, <1>5, <1>6 DEF CleanInv

(* The steps that change no file and no result.                             *)
LEMMA CacheStepClean ==
  ASSUME CleanInv, UNCHANGED <<cs_proposals, cs_foul, cs_generated, cs_archive, cs_spec, cs_trained>>,
         cs_cached' \in [Modules -> Written],
         \A m \in Modules : cs_cached'[m] # None => cs_generated[m] # None,
         cs_pc' # "load",
         \A m \in Modules \ Nested :
           <<cs_cached'[m], m>> \in cs_foul => cs_pc' \in {"test", "done"} /\ cs_cached'[m] = cs_generated[m]
  PROVE  CleanInv'
<1>1. ContentsKnown'
  BY DEF CleanInv, ContentsKnown, Contents, Written, Values
<1>2. TrainedSeen'
  BY DEF CleanInv, TrainedSeen, C!FoulParts, C!Unseen, C!OwnCode, C!NamedFile
<1> QED
  BY <1>1, <1>2 DEF CleanInv, CacheClean

LEMMA CleanStep ==
  CleanInv /\ (cs_pc = "load" => cs_iteration \in C!Iters) /\ [C!Next]_(C!vars) => CleanInv'
<1> SUFFICES ASSUME CleanInv, cs_pc = "load" => cs_iteration \in C!Iters, [C!Next]_(C!vars)
             PROVE  CleanInv'
  OBVIOUS
<1>1. CASE C!Reject
  <2>1. /\ UNCHANGED <<cs_proposals, cs_foul, cs_generated, cs_archive, cs_spec, cs_trained, cs_cached>>
        /\ cs_pc = "load" /\ cs_pc' # "load"
    BY <1>1 DEF C!Reject, C!Finish
  <2>2. \A m \in Modules \ Nested : <<cs_cached[m], m>> \notin cs_foul
    BY <2>1 DEF CleanInv, CacheClean
  <2> QED
    BY <2>1, <2>2, CacheStepClean DEF CleanInv, ContentsKnown
<1>2. CASE C!LoadFails
  <2>1. /\ UNCHANGED <<cs_proposals, cs_foul, cs_generated, cs_archive, cs_spec, cs_trained>>
        /\ cs_pc = "load" /\ cs_pc' # "load" /\ cs_cached' \in C!CachedAfterRaise(cs_candidate)
        /\ ~C!PolicyViolated(cs_candidate, cs_iteration)
    BY <1>2 DEF C!LoadFails, C!Finish
  <2>2. /\ cs_cached' \in [Modules -> Written]
        /\ \A m \in Modules : cs_cached'[m] # None => cs_generated[m] # None
    BY <2>1, CacheFromFiles
  <2>3. \A m \in Modules \ Nested : <<cs_cached'[m], m>> \notin cs_foul
    BY <2>1, ScannedCacheClean
  <2> QED
    BY <2>1, <2>2, <2>3, CacheStepClean
<1>3. CASE C!Test
  <2>1. PICK i \in C!Iters : cs_cached' \in C!CachedAfterRaise(C!TestSpec(cs_spec[i]))
    BY <1>3 DEF C!Test
  <2>2. /\ cs_pc = "test" /\ cs_pc' = "test"
        /\ UNCHANGED <<cs_proposals, cs_foul, cs_generated, cs_archive, cs_spec, cs_trained>>
    BY <1>3 DEF C!Test
  <2>3. /\ cs_cached' \in [Modules -> Written]
        /\ \A m \in Modules : cs_cached'[m] # None => cs_generated[m] # None
        /\ \A m \in Modules : cs_cached'[m] \in {None, cs_cached[m], cs_generated[m]}
    BY <2>1, CacheFromFiles
  <2>4. \A m \in Modules \ Nested : <<cs_cached'[m], m>> \in cs_foul => cs_cached'[m] = cs_generated[m]
    BY <2>3, OnlyProposalsFoul DEF CleanInv, CacheClean
  <2> QED
    BY <2>2, <2>3, <2>4, CacheStepClean
<1>4. CASE C!Crash
  <2>1. /\ UNCHANGED <<cs_proposals, cs_foul, cs_generated, cs_archive, cs_spec, cs_trained>>
        /\ cs_pc' = IF C!ResumeStart > Iterations THEN "test" ELSE "propose"
        /\ cs_cached' = [m \in Modules |-> None]
    BY <1>4 DEF C!Crash
  <2>2. cs_cached' \in [Modules -> Written]
    BY <2>1 DEF Written
  <2>3. \A m \in Modules : cs_cached'[m] = None
    BY <2>1
  <2>4. cs_pc' # "load"
    BY <2>1
  <2> QED
    BY <2>1, <2>2, <2>3, <2>4, OnlyProposalsFoul, CacheStepClean
<1>5. CASE C!Complete
  <2>1. /\ UNCHANGED <<cs_proposals, cs_foul, cs_generated, cs_archive, cs_spec, cs_trained, cs_cached>>
        /\ cs_pc = "test" /\ cs_pc' = "done"
    BY <1>5 DEF C!Complete
  <2> QED
    BY <2>1, CacheStepClean DEF CleanInv, ContentsKnown, CacheClean
<1>6. CASE UNCHANGED C!vars
  BY <1>6 DEF C!vars, CleanInv, ContentsKnown, CacheClean, TrainedSeen, C!FoulParts, C!Unseen,
              C!OwnCode, C!NamedFile, Contents, Written, Values
<1> QED
  BY <1>1, <1>2, <1>3, <1>4, <1>5, <1>6, ProposeClean, TrainClean DEF C!Next, C!Train

(* The test is of the code that was measured *)

(* While the run proposes, the iteration at hand is later than all that     *)
(* have a result and nothing is tested; what it loads is in place.          *)
SourcePlaced ==
  cs_pc \in {"propose", "load"} =>
    /\ cs_iteration \in C!Iters
    /\ \A j \in C!Iters : cs_trained[j] # None => j < cs_iteration
    /\ \A j \in C!Iters : cs_tested[j] = None

ProposalOwn ==
  cs_pc = "load" =>
    /\ cs_proposals > 0
    /\ cs_candidate.kind # "scaffold" => cs_generated[cs_candidate.main] = cs_proposals
    /\ cs_archive[cs_iteration] \in {cs_proposals, C!Start(cs_base)}

(* Of an iteration with a result the archive is as it was measured, and a   *)
(* module is, too, or a later proposal has overwritten it.                  *)
Kept(i) ==
  LET c == cs_spec[i]
      code == cs_trained[i]
  IN  /\ c \in C!Proposal /\ c.helper # c.main
      /\ code.package = C!Package(c, i)
      /\ c.kind = "path" \/ c.project => C!Resolved(c)
      /\ c.project => cs_archive[i] # None
      /\ c.kind = "scaffold" => code.main = None
      /\ \A m \in C!OwnCode(c) : cs_generated[m] \in 1..cs_proposals
      /\ c.kind # "scaffold" =>
           /\ code.main \in 1..cs_proposals /\ cs_generated[c.main] >= code.main
           /\ code.helper \in {None, Host} \cup 1..code.main

SourceInv ==
  /\ DOMAIN cs_spec = C!Iters /\ DOMAIN cs_tested = C!Iters
  /\ SourcePlaced /\ ProposalOwn
  /\ \A i \in C!Iters : (cs_spec[i] # None <=> cs_trained[i] # None)
  /\ \A i \in C!Iters : cs_spec[i] # None => Kept(i)
  /\ \A i \in C!Iters : cs_tested[i] # None => cs_spec[i] # None
  /\ C!TestedAsTrained

LEMMA SourceTestInit ==
  C!Init => SourceInv
BY IterationsAssumption DEF C!Init, SourceInv, SourcePlaced, ProposalOwn, C!TestedAsTrained, C!Iters

(* A resumed run goes on after the last iteration with a result.            *)
LEMMA SourceResumeIsLater ==
  /\ C!ResumeStart \in 1..Iterations + 1
  /\ \A j \in C!Iters : cs_trained[j] # None => j < C!ResumeStart
<1> DEFINE R == {0} \cup {i \in C!Iters : cs_trained[i] # None}
<1>1. R \in SUBSET (0 .. Iterations) /\ R # {}
  BY IterationsAssumption DEF C!Iters
<1>2. \E x \in R : \A y \in R : y <= x
  <2> HIDE DEF R
  <2> QED
    BY <1>1, GreatestElement, IterationsAssumption
<1>3. PICK m \in R : m = C!Max(R) /\ \A y \in R : m >= y
  <2>1. \E x \in R : \A y \in R : x >= y
    BY <1>1, <1>2
  <2> HIDE DEF R
  <2> QED
    BY <2>1 DEF C!Max
<1>4. C!ResumeStart = m + 1
  BY <1>3 DEF C!ResumeStart
<1>5. \A j \in C!Iters : cs_trained[j] # None => j \in R
  OBVIOUS
<1> HIDE DEF R
<1>6. m \in 0 .. Iterations
  BY <1>1
<1>7. \A y \in R : m >= y /\ y \in 0 .. Iterations
  BY <1>1, <1>3
<1> QED
  BY <1>4, <1>5, <1>6, <1>7, IterationsAssumption DEF C!Iters

LEMMA ProposeKeeps ==
  ASSUME CleanInv, SourceInv, C!Propose
  PROVE  SourceInv'
<1>1. PICK c \in C!Proposal, b \in {0} \cup {j \in C!Iters : cs_trained[j] # None},
           edited \in BOOLEAN : \E written \in {C!OwnCode(c), C!OwnCode(c) \ {c.helper}} :
        /\ cs_base' = b /\ cs_candidate' = c /\ c.helper # c.main
        /\ cs_generated' = C!Synced(written, cs_proposals')
        /\ cs_archive' = C!Archive(cs_iteration, IF edited THEN cs_proposals' ELSE C!Start(b))
  BY DEF C!Propose
<1> PICK written \in {C!OwnCode(c), C!OwnCode(c) \ {c.helper}} :
      cs_generated' = C!Synced(written, cs_proposals')
  BY <1>1
<1>2. /\ cs_proposals' = cs_proposals + 1 /\ cs_proposals \in Nat /\ cs_pc = "propose" /\ cs_pc' = "load"
      /\ UNCHANGED <<cs_sandbox, cs_iteration, cs_spec, cs_trained, cs_tested>>
      /\ cs_iteration \in C!Iters
  BY DEF C!Propose, CleanInv, ContentsKnown, SourceInv, SourcePlaced
<1>3. /\ DOMAIN cs_archive = C!Iters
      /\ cs_archive'[cs_iteration] = IF edited THEN cs_proposals' ELSE C!Start(b)
      /\ \A i \in C!Iters \ {cs_iteration} : cs_archive'[i] = cs_archive[i]
  BY <1>1, <1>2 DEF C!Archive, CleanInv, ContentsKnown
<1>4. \A m \in Modules : cs_generated'[m] = IF m \in written THEN cs_proposals' ELSE cs_generated[m]
  BY <1>1 DEF C!Synced
<1>5. c.kind # "scaffold" => c.main \in written /\ c.main \in Modules
  BY <1>1 DEF C!OwnCode, C!Proposal
<1>6. ProposalOwn'
  <2>1. cs_archive'[cs_iteration] \in {cs_proposals', C!Start(cs_base)'}
    BY <1>1, <1>2, <1>3 DEF C!Start
  <2> QED
    BY <1>1, <1>2, <1>4, <1>5, <2>1 DEF ProposalOwn, C!OwnCode
<1>7. ASSUME NEW i \in C!Iters, cs_spec[i] # None PROVE Kept(i)'
  <2>1. Kept(i) /\ i # cs_iteration
    BY <1>2, <1>7 DEF SourceInv, SourcePlaced, C!Iters
  <2>2. \A m \in C!OwnCode(cs_spec[i]) : m \in Modules
    BY <2>1 DEF Kept, C!OwnCode, C!Proposal
  <2>3. \A m \in Modules : cs_generated[m] \in 1..cs_proposals =>
          cs_generated'[m] \in 1..cs_proposals' /\ cs_generated'[m] >= cs_generated[m]
    BY <1>2, <1>4
  <2>4. C!Package(cs_spec[i], i)' = C!Package(cs_spec[i], i) /\ (C!Resolved(cs_spec[i]) <=> C!Resolved(cs_spec[i])')
    BY <1>2, <1>3, <2>1 DEF C!Package, C!Resolved
  <2>5. cs_spec[i].kind # "scaffold" => cs_spec[i].main \in C!OwnCode(cs_spec[i])
    BY DEF C!OwnCode
  <2>6. \A m \in C!OwnCode(cs_spec[i]) : cs_generated'[m] \in 1..cs_proposals'
    BY <2>1, <2>2, <2>3 DEF Kept
  <2>7. cs_spec[i].kind # "scaffold" =>
           /\ cs_trained[i].main \in 1..cs_proposals' /\ cs_generated'[cs_spec[i].main] >= cs_trained[i].main
           /\ cs_trained[i].helper \in {None, Host} \cup 1..cs_trained[i].main
    BY <1>2, <2>1, <2>2, <2>3, <2>5 DEF Kept
  <2>8. cs_spec[i].project => cs_archive'[i] # None
    BY <1>3, <2>1 DEF Kept
  <2> QED
    BY <1>2, <2>1, <2>4, <2>6, <2>7, <2>8 DEF Kept, C!OwnCode
<1>8. SourcePlaced' /\ C!TestedAsTrained'
  BY <1>2 DEF SourceInv, SourcePlaced, C!TestedAsTrained
<1> QED
  BY <1>2, <1>6, <1>7, <1>8 DEF SourceInv

LEMMA TrainKeeps ==
  ASSUME CleanInv, SourceInv, C!Train
  PROVE  SourceInv'
<1>1. /\ cs_trained' = [cs_trained EXCEPT ![cs_iteration] = C!Code(cs_candidate, cs_iteration)]
      /\ cs_spec' = [cs_spec EXCEPT ![cs_iteration] = cs_candidate]
      /\ cs_iteration' = cs_iteration + 1 /\ cs_pc = "load"
      /\ cs_pc' = IF cs_iteration = Iterations THEN "test" ELSE "propose"
      /\ UNCHANGED <<cs_sandbox, cs_proposals, cs_generated, cs_archive, cs_tested>>
      /\ ~C!PolicyViolated(cs_candidate, cs_iteration) /\ C!Loadable(cs_candidate, cs_iteration)
      /\ cs_iteration \in C!Iters /\ cs_candidate \in C!Proposal /\ cs_proposals \in Nat
      /\ cs_candidate.helper # cs_candidate.main
  BY DEF C!Train, C!Finish, SourceInv, SourcePlaced, CleanInv, ContentsKnown
<1>2. /\ cs_trained'[cs_iteration] = C!Code(cs_candidate, cs_iteration)
      /\ cs_spec'[cs_iteration] = cs_candidate
      /\ \A i \in C!Iters \ {cs_iteration} : cs_trained'[i] = cs_trained[i] /\ cs_spec'[i] = cs_spec[i]
      /\ DOMAIN cs_spec' = C!Iters /\ DOMAIN cs_tested' = C!Iters
  BY <1>1 DEF SourceInv, CleanInv, ContentsKnown
<1>3. cs_candidate # None /\ cs_trained'[cs_iteration] # None
  <2>1. C!Code(cs_candidate, cs_iteration) \in Codes
    <3>1. Values(C!Code(cs_candidate, cs_iteration)) \subseteq Nat \cup {None, Host}
      BY <1>1, LoadedIsKnown DEF Contents
    <3> QED
      BY <3>1 DEF Codes, C!Code, Values
  <2> QED
    BY <1>1, <1>2, <2>1, NoneAssumption
<1>4. ASSUME NEW i, i = cs_iteration PROVE Kept(i)'
  <2>1. \A c \in C!Proposal : /\ C!Package(c, i)' = C!Package(c, i)
                              /\ C!Resolved(c)' <=> C!Resolved(c)
    BY <1>1 DEF C!Package, C!Resolved
  <2>2. /\ cs_proposals > 0
        /\ cs_candidate.kind # "scaffold" => cs_generated[cs_candidate.main] = cs_proposals
    BY <1>1 DEF SourceInv, ProposalOwn
  <2>3. \A m \in C!OwnCode(cs_candidate) : cs_generated[m] \in 1..cs_proposals
    <3> SUFFICES ASSUME NEW m \in C!OwnCode(cs_candidate) PROVE cs_generated[m] \in 1..cs_proposals
      OBVIOUS
    <3>1. /\ cs_candidate.kind # "scaffold"
          /\ m = cs_candidate.main \/ (m = cs_candidate.helper /\ m # None)
      BY DEF C!OwnCode
    <3>2. m \in Modules
      BY <1>1, <3>1 DEF C!Proposal
    <3>3. m # cs_candidate.main => C!Imported(m) # None
      BY <1>1, <3>1 DEF C!Loadable
    <3>4. m # cs_candidate.main => cs_generated[m] # None
      BY <3>2, <3>3, ImportedKnown
    <3>5. cs_generated[m] \in Written
      BY <3>2 DEF CleanInv, ContentsKnown
    <3> QED
      BY <1>1, <2>2, <3>1, <3>4, <3>5 DEF Written
  <2>4. cs_trained'[cs_iteration].helper \in Contents
    BY <1>1, <1>2, LoadedIsKnown DEF Values
  <2>5. cs_candidate.kind # "scaffold" =>
          /\ cs_trained'[cs_iteration].main = cs_proposals
          /\ cs_generated[cs_candidate.main] = cs_proposals
    BY <1>2, <2>2 DEF C!Code, C!Main
  <2>6. cs_candidate.kind = "scaffold" => cs_trained'[cs_iteration].main = None
    BY <1>2 DEF C!Code
  <2>7. cs_trained'[cs_iteration].package = C!Package(cs_candidate, cs_iteration)
    BY <1>2 DEF C!Code
  <2>8. /\ cs_candidate.kind = "path" \/ cs_candidate.project => C!Resolved(cs_candidate)
        /\ cs_candidate.project => cs_archive[cs_iteration] # None
    BY <1>1, Zenon DEF C!Loadable, C!Found
  <2> QED
    BY <1>1, <1>2, <1>4, <2>1, <2>2, <2>3, <2>4, <2>5, <2>6, <2>7, <2>8
       DEF Kept, C!OwnCode, Contents
<1>5. ASSUME NEW i \in C!Iters \ {cs_iteration}, cs_spec[i] # None PROVE Kept(i)'
  BY <1>1, <1>2, <1>5 DEF SourceInv, Kept, C!OwnCode, C!Package, C!Resolved
<1>6. SourcePlaced'
  BY <1>1, <1>2, IterationsAssumption DEF SourceInv, SourcePlaced, C!Iters
<1>7. C!TestedAsTrained'
  BY <1>1 DEF SourceInv, SourcePlaced, C!TestedAsTrained
<1>8. ProposalOwn'
  BY <1>1 DEF ProposalOwn
<1> QED
  BY <1>1, <1>2, <1>3, <1>4, <1>5, <1>6, <1>7, <1>8 DEF SourceInv, SourcePlaced

LEMMA TestKeeps ==
  ASSUME CleanInv, SourceInv, C!Test PROVE SourceInv'
<1>1. PICK i \in C!Iters :
        /\ cs_spec[i] # None /\ cs_tested[i] = None
        /\ LET c == C!TestSpec(cs_spec[i]) IN
             cs_tested' = [cs_tested EXCEPT ![i] = IF C!Loadable(c, i) THEN C!Code(c, i) ELSE C!Failed]
  BY DEF C!Test
<1>2. /\ UNCHANGED <<cs_sandbox, cs_iteration, cs_pc, cs_proposals, cs_generated, cs_archive, cs_base,
                     cs_candidate, cs_spec, cs_trained>>
      /\ cs_pc = "test"
  BY DEF C!Test
<1> DEFINE c == C!TestSpec(cs_spec[i])
<1>3. /\ DOMAIN cs_tested' = C!Iters
      /\ cs_tested'[i] = IF C!Loadable(c, i) THEN C!Code(c, i) ELSE C!Failed
      /\ \A j \in C!Iters \ {i} : cs_tested'[j] = cs_tested[j]
  BY <1>1 DEF SourceInv
<1>4. Kept(i)
  BY <1>1 DEF SourceInv
<1>5. /\ c.main = cs_spec[i].main /\ c.helper = cs_spec[i].helper /\ c.project = cs_spec[i].project
      /\ c.form = cs_spec[i].form
      /\ c.kind = IF cs_spec[i].project THEN "scaffold" ELSE cs_spec[i].kind
  BY <1>4 DEF Kept, C!TestSpec, C!Proposal
<1>6. ASSUME cs_spec[i].kind # "scaffold" => ~cs_spec[i].project /\ ~C!Overwritten(i)
      PROVE  /\ cs_tested'[i].main = cs_trained[i].main
             /\ cs_tested'[i].package = cs_trained[i].package
  <2>1. C!Package(c, i) = cs_trained[i].package
    BY <1>4, <1>5 DEF Kept, C!Package
  <2>2. C!Resolved(c) <=> C!Resolved(cs_spec[i])
    BY <1>5 DEF C!Resolved
  <2>3. c.project => C!Resolved(c) /\ cs_archive[i] # None
    BY <1>4, <1>5, <2>2 DEF Kept
  <2>4. CASE cs_spec[i].kind = "scaffold"
    <3>1. c.kind = "scaffold"
      BY <1>5, <2>4
    <3>2. C!Loadable(c, i)
      BY <2>3, <3>1 DEF C!Loadable, C!Found
    <3>3. cs_trained[i].main = None
      BY <1>4, <2>4 DEF Kept
    <3> QED
      BY <1>3, <2>1, <3>1, <3>2, <3>3 DEF C!Code
  <2>5. CASE cs_spec[i].kind # "scaffold"
    <3>1. c.kind = cs_spec[i].kind /\ c.kind # "scaffold" /\ ~c.project /\ ~C!Overwritten(i)
      BY <1>5, <1>6, <2>5
    <3>2. cs_spec[i].main \in C!OwnCode(cs_spec[i]) /\ cs_spec[i].main \in Modules
      BY <1>4, <2>5 DEF C!OwnCode, Kept, C!Proposal
    <3>3. cs_generated[cs_spec[i].main] \in {cs_trained[i].main, cs_trained[i].helper}
      BY <3>1, <3>2 DEF C!Overwritten
    <3>4. /\ cs_generated[cs_spec[i].main] \in 1..cs_proposals
          /\ cs_trained[i].main \in 1..cs_proposals
          /\ cs_generated[cs_spec[i].main] >= cs_trained[i].main
          /\ cs_trained[i].helper \in {None, Host} \cup 1..cs_trained[i].main
      BY <1>4, <2>5, <3>2 DEF Kept
    <3>5. cs_proposals \in Nat
      BY DEF CleanInv, ContentsKnown
    <3>6. cs_generated[cs_spec[i].main] = cs_trained[i].main
      BY <3>3, <3>4, <3>5, ContentsAssumption
    <3>7. C!Main(c) = cs_trained[i].main /\ C!Main(c) # None
      BY <1>5, <3>4, <3>5, <3>6, ContentsAssumption DEF C!Main
    <3>8. c.helper # None => C!Imported(c.helper) # None
      <4> SUFFICES ASSUME c.helper # None PROVE C!Imported(c.helper) # None
        OBVIOUS
      <4>1. c.helper \in C!OwnCode(cs_spec[i])
        BY <1>5, <2>5 DEF C!OwnCode
      <4>2. cs_generated[c.helper] \in 1..cs_proposals
        BY <1>4, <4>1 DEF Kept
      <4> QED
        BY <3>5, <4>2, ContentsAssumption DEF C!Imported
    <3>9. c.kind = "path" => C!Resolved(c)
      BY <1>4, <2>2, <3>1 DEF Kept
    <3>10. C!Loadable(c, i)
      BY <3>1, <3>7, <3>8, <3>9 DEF C!Loadable, C!Found
    <3> QED
      BY <1>3, <2>1, <3>1, <3>7, <3>10 DEF C!Code
  <2> QED
    BY <2>4, <2>5
<1>7. C!TestedAsTrained'
  <2> SUFFICES ASSUME NEW j \in C!Iters, cs_tested'[j] # None,
                      cs_spec[j].kind # "scaffold" => ~cs_spec[j].project /\ ~C!Overwritten(j)
               PROVE  /\ cs_tested'[j].main = cs_trained[j].main
                      /\ cs_tested'[j].package = cs_trained[j].package
    BY <1>2 DEF C!TestedAsTrained, C!Overwritten, C!OwnCode
  <2>1. CASE j = i
    BY <1>6, <2>1
  <2>2. CASE j # i
    BY <1>3, <2>2 DEF SourceInv, C!TestedAsTrained
  <2> QED
    BY <2>1, <2>2
<1>8. SourcePlaced' /\ ProposalOwn'
  BY <1>2 DEF SourcePlaced, ProposalOwn
<1>9. \A j \in C!Iters : Kept(j) => Kept(j)'
  BY <1>2 DEF Kept, C!OwnCode, C!Package, C!Resolved
<1> HIDE DEF c
<1> QED
  BY <1>1, <1>2, <1>3, <1>7, <1>8, <1>9 DEF SourceInv

LEMMA SourceTestStep == CleanInv /\ SourceInv /\ [C!Next]_(C!vars) => SourceInv'
<1> SUFFICES ASSUME CleanInv, SourceInv, [C!Next]_(C!vars) PROVE SourceInv'
  OBVIOUS
<1>1. CASE UNCHANGED <<cs_sandbox, cs_proposals, cs_generated, cs_archive, cs_spec, cs_trained>>
  <2> SUFFICES ASSUME SourcePlaced', ProposalOwn', DOMAIN cs_tested' = C!Iters,
                      \A i \in C!Iters : cs_tested'[i] # None => cs_tested'[i] = cs_tested[i]
               PROVE  SourceInv'
    <3>1. CASE C!Reject \/ C!LoadFails
      BY <3>1, IterationsAssumption DEF C!Reject, C!LoadFails, C!Finish, SourceInv, SourcePlaced, ProposalOwn, C!Iters
    <3>2. CASE C!Crash
      <4>1. /\ cs_iteration' = C!ResumeStart /\ cs_tested' = [i \in C!Iters |-> None]
            /\ cs_pc' = IF C!ResumeStart > Iterations THEN "test" ELSE "propose"
            /\ UNCHANGED cs_trained
        BY <3>2 DEF C!Crash
      <4>2. C!ResumeStart <= Iterations => C!ResumeStart \in C!Iters
        BY SourceResumeIsLater, IterationsAssumption DEF C!Iters
      <4>3. C!ResumeStart \in Int
        BY SourceResumeIsLater
      <4>4. SourcePlaced'
        BY <4>1, <4>2, <4>3, SourceResumeIsLater, IterationsAssumption DEF SourcePlaced
      <4>5. DOMAIN cs_tested' = C!Iters /\ \A i \in C!Iters : cs_tested'[i] = None
        BY <4>1
      <4> QED
        BY <4>1, <4>4, <4>5 DEF ProposalOwn
    <3>3. CASE C!Complete \/ UNCHANGED C!vars
      BY <3>3 DEF C!Complete, C!vars, SourceInv, SourcePlaced, ProposalOwn, C!OwnCode, C!Start
    <3> QED
      BY <3>1, <3>2, <3>3, ProposeKeeps, TrainKeeps, TestKeeps DEF C!Next
  <2>1. \A i \in C!Iters : Kept(i) => Kept(i)'
    BY <1>1 DEF Kept, C!OwnCode, C!Package, C!Resolved
  <2>2. C!TestedAsTrained'
    BY <1>1 DEF SourceInv, C!TestedAsTrained, C!Overwritten, C!OwnCode
  <2> QED
    BY <1>1, <2>1, <2>2 DEF SourceInv
<1> QED
  BY <1>1, ProposeKeeps, TrainKeeps, TestKeeps
     DEF C!Next, C!Reject, C!LoadFails, C!Crash, C!Complete, C!vars

(* A step of Train measures the module and the package of the proposal.     *)
LEMMA TrainMeasures ==
  ASSUME CleanInv, SourceInv, [C!Next]_(C!vars), cs_trained' # cs_trained
  PROVE  /\ cs_trained'[cs_iteration].main \in {None, cs_proposals}
         /\ cs_candidate.project => cs_trained'[cs_iteration].package \in {cs_proposals, C!Start(cs_base)}
<1>1. C!Train
  BY DEF C!Next, C!Propose, C!Reject, C!LoadFails, C!Test, C!Crash, C!Complete, C!vars
<1>2. cs_trained'[cs_iteration] = C!Code(cs_candidate, cs_iteration) /\ cs_pc = "load"
  BY <1>1 DEF C!Train, SourceInv, SourcePlaced, CleanInv, ContentsKnown
<1> QED
  BY <1>2 DEF SourceInv, ProposalOwn, C!Code, C!Main, C!Package

(* Of the module that an accepted candidate loads only a later proposal can *)
(* have put a marker into the directory's top: at the time of its result    *)
(* the top was scanned.                                                     *)
FoulIsLater ==
  \A i \in C!Iters : cs_trained[i] # None =>
    \A m \in C!OwnCode(cs_spec[i]) \ (Nested \ C!NamedFile(cs_spec[i])) :
      <<cs_generated[m], m>> \in cs_foul => cs_generated[m] > cs_trained[i].main

FoulInv == FoulIsLater /\ C!FoulOnlyUnseen

LEMMA FoulInit == C!Init => FoulInv
BY DEF C!Init, FoulInv, FoulIsLater, C!FoulOnlyUnseen

LEMMA ProposeFoul ==
  ASSUME CleanInv, SourceInv, FoulInv, C!Propose, CleanInv' PROVE FoulInv'
<1>1. PICK c \in C!Proposal : \E written \in {C!OwnCode(c), C!OwnCode(c) \ {c.helper}} :
        /\ cs_generated' = C!Synced(written, cs_proposals')
        /\ \A part \in cs_foul' : part \in cs_foul \/ part[1] = cs_proposals'
  <2>1. PICK c \in C!Proposal, b \in {0} \cup {j \in C!Iters : cs_trained[j] # None}, edited \in BOOLEAN :
          \E written \in {C!OwnCode(c), C!OwnCode(c) \ {c.helper}} :
          \E marked \in SUBSET (written \cup (IF edited THEN {C!Project} ELSE {})) :
            /\ cs_generated' = C!Synced(written, cs_proposals')
            /\ cs_foul' = cs_foul \cup {<<cs_proposals', place>> : place \in marked}
    BY DEF C!Propose
  <2>2. PICK written \in {C!OwnCode(c), C!OwnCode(c) \ {c.helper}} :
          /\ cs_generated' = C!Synced(written, cs_proposals')
          /\ \E marked : cs_foul' = cs_foul \cup {<<cs_proposals', place>> : place \in marked}
    BY <2>1
  <2>3. \A part \in cs_foul' : part \in cs_foul \/ part[1] = cs_proposals'
    BY <2>2
  <2> QED
    BY <2>2, <2>3
<1>2. /\ cs_proposals' = cs_proposals + 1 /\ cs_pc = "propose" /\ cs_proposals \in Nat
      /\ UNCHANGED <<cs_spec, cs_trained, cs_tested>>
  BY DEF C!Propose, CleanInv, ContentsKnown
<1>3. FoulIsLater'
  <2> SUFFICES ASSUME NEW i \in C!Iters, cs_trained[i] # None,
                      NEW m \in C!OwnCode(cs_spec[i]) \ (Nested \ C!NamedFile(cs_spec[i])),
                      <<cs_generated'[m], m>> \in cs_foul'
               PROVE  cs_generated'[m] > cs_trained[i].main
    BY <1>2 DEF FoulIsLater, C!OwnCode, C!NamedFile
  <2>1. Kept(i) /\ cs_spec[i].kind # "scaffold"
    BY DEF SourceInv, C!OwnCode
  <2>2. cs_trained[i].main \in 1..cs_proposals
    BY <2>1 DEF Kept
  <2>3. m \in Modules
    BY <2>1 DEF Kept, C!OwnCode, C!Proposal
  <2>4. cs_generated'[m] \in {cs_generated[m], cs_proposals'}
    BY <1>1, <2>3 DEF C!Synced
  <2>5. CASE cs_generated'[m] = cs_proposals'
    BY <1>2, <2>2, <2>5
  <2>6. CASE cs_generated'[m] # cs_proposals'
    <3>1. <<cs_generated[m], m>> \in cs_foul
      BY <1>1, <2>4, <2>6
    <3> QED
      BY <2>4, <2>6, <3>1 DEF FoulInv, FoulIsLater
  <2> QED
    BY <2>5, <2>6
<1>4. C!FoulOnlyUnseen'
  BY <1>2 DEF CleanInv, TrainedSeen, SourceInv, SourcePlaced, C!FoulOnlyUnseen, C!FoulParts,
              C!Unseen, C!OwnCode, C!NamedFile
<1> QED
  BY <1>3, <1>4 DEF FoulInv

LEMMA TrainFoul ==
  ASSUME CleanInv, SourceInv, FoulInv, C!Train, CleanInv' PROVE FoulInv'
<1>1. /\ cs_pc = "load" /\ UNCHANGED <<cs_proposals, cs_foul, cs_generated, cs_tested>>
      /\ ~C!PolicyViolated(cs_candidate, cs_iteration)
      /\ cs_trained' = [cs_trained EXCEPT ![cs_iteration] = C!Code(cs_candidate, cs_iteration)]
      /\ cs_spec' = [cs_spec EXCEPT ![cs_iteration] = cs_candidate]
      /\ cs_candidate \in C!Proposal
  BY DEF C!Train, CleanInv, ContentsKnown
<1>2. /\ cs_spec'[cs_iteration] = cs_candidate
      /\ \A i \in C!Iters \ {cs_iteration} : cs_trained'[i] = cs_trained[i] /\ cs_spec'[i] = cs_spec[i]
  BY <1>1 DEF SourceInv, SourcePlaced, CleanInv, ContentsKnown
<1>3. FoulIsLater'
  <2> SUFFICES ASSUME NEW i \in C!Iters, cs_trained'[i] # None,
                      NEW m \in C!OwnCode(cs_spec'[i]) \ (Nested \ C!NamedFile(cs_spec'[i])),
                      <<cs_generated[m], m>> \in cs_foul
               PROVE  cs_generated[m] > cs_trained'[i].main
    BY <1>1 DEF FoulIsLater, C!OwnCode, C!NamedFile
  <2>1. CASE i = cs_iteration
    <3>1. m \in C!OwnCode(cs_candidate) \ (Nested \ C!NamedFile(cs_candidate))
      BY <1>2, <2>1
    <3>2. m \in Modules
      BY <1>1, <3>1 DEF C!OwnCode, C!Proposal
    <3>3. <<cs_generated[m], m>> \in C!Scanned(cs_candidate, cs_iteration)
      BY <3>1, <3>2 DEF C!Scanned
    <3> QED
      BY <1>1, <3>3 DEF C!PolicyViolated
  <2>2. CASE i # cs_iteration
    BY <1>2, <2>2 DEF FoulInv, FoulIsLater
  <2> QED
    BY <2>1, <2>2
<1>4. C!FoulOnlyUnseen'
  BY <1>1 DEF CleanInv, TrainedSeen, SourceInv, SourcePlaced, C!FoulOnlyUnseen, C!FoulParts,
              C!Unseen, C!OwnCode, C!NamedFile
<1> QED
  BY <1>3, <1>4 DEF FoulInv

(* What the final test loads of a candidate, it finds in a file or in what  *)
(* sys.modules holds of that file.                                          *)
LEMMA TestFoul ==
  ASSUME CleanInv, SourceInv, FoulInv, C!Test, CleanInv' PROVE FoulInv'
<1>1. PICK i \in C!Iters :
        /\ cs_spec[i] # None
        /\ LET c == C!TestSpec(cs_spec[i]) IN
             cs_tested' = [cs_tested EXCEPT ![i] = IF C!Loadable(c, i) THEN C!Code(c, i) ELSE C!Failed]
  BY DEF C!Test
<1>2. /\ UNCHANGED <<cs_proposals, cs_foul, cs_generated, cs_spec, cs_trained>>
  BY DEF C!Test
<1> DEFINE s == cs_spec[i]
           c == C!TestSpec(s)
<1>3. /\ cs_tested'[i] = IF C!Loadable(c, i) THEN C!Code(c, i) ELSE C!Failed
      /\ \A j \in C!Iters \ {i} : cs_tested'[j] = cs_tested[j]
  BY <1>1 DEF SourceInv
<1>4. Kept(i) /\ cs_trained[i] # None
  BY <1>1 DEF SourceInv
<1>5. /\ c.main = s.main /\ c.helper = s.helper /\ c.project = s.project
      /\ c.kind = IF s.project THEN "scaffold" ELSE s.kind
      /\ s.main \in Modules /\ s.helper \in Modules \cup {None} /\ s.helper # s.main
  BY <1>4 DEF Kept, C!TestSpec, C!Proposal
<1> HIDE DEF s, c
<1>6. FoulIsLater'
  BY <1>2 DEF FoulInv, FoulIsLater, C!OwnCode, C!NamedFile
<1>7. ASSUME NEW part \in C!FoulParts(s, cs_tested'[i])
      PROVE  part[2] \in C!Unseen(s) \/ part \in C!Replaced(i)
  <2>1. part \in cs_foul
    BY DEF C!FoulParts
  <2>2. part[1] # None
    <3>1. \A n, m : part = <<n, m>> => part[1] = n
      OBVIOUS
    <3>2. \E n, m : part = <<n, m>>
      BY DEF C!FoulParts
    <3> QED
      BY <2>1, <3>1, <3>2, OnlyProposalsFoul
  <2>3. cs_tested'[i] = C!Code(c, i)
    <3>1. CASE cs_tested'[i] = C!Failed
      BY <2>2, <3>1 DEF C!FoulParts, C!Failed
    <3> QED
      BY <1>3, <3>1
  <2>4. ASSUME NEW m \in C!OwnCode(s), part = <<cs_generated[m], m>>
        PROVE  part[2] \in C!Unseen(s) \/ part \in C!Replaced(i)
    <3>1. CASE m \in Nested \ C!NamedFile(s)
      BY <2>4, <3>1 DEF C!Unseen
    <3>2. CASE m \notin Nested \ C!NamedFile(s)
      <4>1. cs_generated[m] > cs_trained[i].main
        BY <1>4, <2>1, <2>4, <3>2 DEF s, FoulInv, FoulIsLater
      <4> QED
        BY <2>4, <4>1 DEF s, C!Replaced
    <3> QED
      BY <3>1, <3>2
  <2>5. CASE part = <<cs_tested'[i].main, s.main>>
    <3>1. c.kind # "scaffold" /\ part = <<cs_generated[s.main], s.main>>
      BY <1>5, <2>2, <2>3, <2>5 DEF C!Code, C!Main
    <3>2. s.main \in C!OwnCode(s)
      BY <1>5, <3>1 DEF C!OwnCode
    <3> QED
      BY <2>4, <3>1, <3>2
  <2>6. CASE part = <<cs_tested'[i].helper, s.helper>>
    <3>1. c.kind # "scaffold" /\ s.helper # None /\ part = <<C!Imported(s.helper), s.helper>>
      BY <1>5, <2>2, <2>3, <2>6 DEF C!Code
    <3>2. s.helper \in C!OwnCode(s) /\ s.helper \in Modules
      BY <1>5, <3>1 DEF C!OwnCode
    <3>3. C!Imported(s.helper) \in {cs_cached[s.helper], cs_generated[s.helper]}
      BY <3>2, ImportedKnown
    <3>4. CASE s.helper \in Nested
      <4>1. s.helper \notin C!NamedFile(s)
        BY <1>5 DEF C!NamedFile
      <4> QED
        BY <3>1, <3>2, <3>4, <4>1 DEF C!Unseen
    <3>5. CASE s.helper \notin Nested
      <4>1. part = <<cs_generated[s.helper], s.helper>>
        BY <2>1, <3>1, <3>2, <3>3, <3>5 DEF CleanInv, CacheClean
      <4> QED
        BY <2>4, <3>2, <4>1
    <3> QED
      BY <3>4, <3>5
  <2>7. CASE part = <<cs_tested'[i].package, C!Project>>
    <3>1. C!Package(c, i) = cs_trained[i].package
      BY <1>4, <1>5 DEF s, Kept, C!Package
    <3>2. part \in C!FoulParts(s, cs_trained[i])
      BY <2>1, <2>3, <2>7, <3>1 DEF C!FoulParts, C!Code
    <3> QED
      BY <1>4, <3>2 DEF s, CleanInv, TrainedSeen
  <2> QED
    BY <1>7, <2>5, <2>6, <2>7 DEF C!FoulParts
<1>8. C!FoulOnlyUnseen'
  <2> SUFFICES ASSUME NEW j \in C!Iters, cs_tested'[j] # None,
                      NEW part \in C!FoulParts(cs_spec[j], cs_tested'[j])
               PROVE  part[2] \in C!Unseen(cs_spec[j]) \/ part \in C!Replaced(j)
    BY <1>2 DEF CleanInv, TrainedSeen, C!FoulOnlyUnseen, C!FoulParts, C!Unseen, C!OwnCode,
                C!NamedFile, C!Replaced
  <2>1. CASE j = i
    BY <1>7, <2>1 DEF s
  <2>2. CASE j # i
    BY <1>3, <2>2 DEF FoulInv, C!FoulOnlyUnseen
  <2> QED
    BY <2>1, <2>2
<1> QED
  BY <1>6, <1>8 DEF FoulInv

LEMMA FoulStep ==
  CleanInv /\ SourceInv /\ FoulInv /\ [C!Next]_(C!vars) /\ CleanInv' => FoulInv'
<1> SUFFICES ASSUME CleanInv, SourceInv, FoulInv, [C!Next]_(C!vars), CleanInv' PROVE FoulInv'
  OBVIOUS
<1>1. CASE /\ UNCHANGED <<cs_foul, cs_generated, cs_spec, cs_trained>>
           /\ \A i \in C!Iters : cs_tested'[i] # None => cs_tested'[i] = cs_tested[i]
  BY <1>1 DEF FoulInv, FoulIsLater, C!FoulOnlyUnseen, C!FoulParts, C!Unseen, C!OwnCode,
              C!NamedFile, C!Replaced
<1> QED
  BY <1>1, ProposeFoul, TrainFoul, TestFoul
     DEF C!Next, C!Reject, C!LoadFails, C!Crash, C!Complete, C!vars

-----------------------------------------------------------------------------
(* FrontierTest: what the final test loads                                  *)

(* As long as the directory is one run's: a result is of the iteration's    *)
(* archive as it still is, or of upstream; what is in memory is stored; and *)
(* what a test has stored is the version its candidate was measured with.   *)
FinalRunInv ==
  /\ ft_pc \in {"seed", "propose", "evaluate", "test", "done"}
  /\ ft_archive \in [F!Iters -> Int] /\ ft_version \in Nat
  /\ ft_pc = "seed" => DOMAIN ft_results = {} /\ DOMAIN ft_memory = {} /\ DOMAIN ft_tests = {}
  /\ ft_pc = "evaluate" => ft_iter \in F!Iters
  /\ DOMAIN ft_results \subseteq 0..Iterations
  /\ ft_iter \in Nat \ {0} /\ \A j \in DOMAIN ft_results : ft_pc \in {"propose", "evaluate"} => j < ft_iter
  /\ \A i \in DOMAIN ft_results :
       /\ ft_results[i].version = F!SourceOf(ft_results[i].proposal, i)
       /\ i = 0 => ft_results[i].proposal = "none"
  /\ \A i \in DOMAIN ft_memory : i \in DOMAIN ft_results /\ ft_memory[i] = ft_results[i]
  /\ \A i \in DOMAIN ft_tests : i \in DOMAIN ft_results /\ ft_tests[i].version = ft_results[i].version
  /\ \A i \in DOMAIN ft_rows : i \in DOMAIN ft_results /\ ft_rows[i] \in {-1, ft_results[i].version}

FinalInv == ~ft_used => FinalRunInv

LEMMA FinalInit == F!Init => FinalInv
<1> SUFFICES ASSUME F!Init PROVE FinalRunInv
  BY DEF FinalInv
<1>1. DOMAIN ft_results = {} /\ DOMAIN ft_memory = {} /\ DOMAIN ft_tests = {} /\ DOMAIN ft_rows = {}
  BY DEF F!Init
<1> QED
  BY <1>1, IterationsAssumption DEF F!Init, FinalRunInv, F!Iters

(* The iterations: the seed, the proposals and their evaluation.            *)
LEMMA FinalTrainSteps ==
  ASSUME FinalRunInv, ~ft_used', F!EvaluateSeed \/ F!Propose \/ F!Reject \/ F!Evaluate
  PROVE  FinalRunInv'
<1> USE IterationsAssumption
<1>1. CASE F!EvaluateSeed
  <2>1. PICK rate : ft_results' = F!Put(ft_results, 0, [proposal |-> F!SeedProposal, version |-> 0, rate |-> rate])
    BY <1>1 DEF F!EvaluateSeed, F!Stored, FinalRunInv
  <2>2. DOMAIN ft_results = {} /\ DOMAIN ft_memory = {} /\ DOMAIN ft_tests = {} /\ ft_iter > 0
    BY <1>1 DEF F!EvaluateSeed, FinalRunInv
  <2> DEFINE e == [proposal |-> F!SeedProposal, version |-> 0, rate |-> rate]
  <2>3. DOMAIN ft_results' = {0} /\ ft_results'[0] = e
    <3>1. ft_results' = F!Put(ft_results, 0, e)
      BY <2>1
    <3> HIDE DEF e
    <3> QED
      BY <2>2, <3>1 DEF F!Put
  <2>4. /\ ft_pc' = "propose" /\ UNCHANGED <<ft_archive, ft_version, ft_iter, ft_tests, ft_rows>>
        /\ ft_memory' = F!Put(ft_memory, 0, ft_results'[0])
    BY <1>1 DEF F!EvaluateSeed
  <2>5. DOMAIN ft_memory' = {0} /\ ft_memory'[0] = ft_results'[0]
    BY <2>2, <2>4 DEF F!Put
  <2>6. DOMAIN ft_rows = {}
    BY <2>2 DEF FinalRunInv
  <2> QED
    BY <2>2, <2>3, <2>4, <2>5, <2>6 DEF FinalRunInv, F!SourceOf, F!SeedProposal
<1>2. CASE F!Propose
  <2>1. /\ ft_pc = "propose" /\ ft_pc' = "evaluate" /\ ft_iter \in F!Iters
        /\ ft_archive' = [ft_archive EXCEPT ![ft_iter] = ft_version'] /\ ft_version' = ft_version + 1
        /\ UNCHANGED <<ft_iter, ft_results, ft_tests, ft_memory, ft_rows>>
    BY <1>2 DEF F!Propose
  <2>2. ft_archive' \in [F!Iters -> Int] /\ ft_version' \in Nat
    BY <2>1 DEF FinalRunInv
  <2>3. \A i \in DOMAIN ft_results : i # ft_iter
    BY <2>1 DEF FinalRunInv
  <2>4. \A i \in DOMAIN ft_results : i # 0 => ft_archive'[i] = ft_archive[i]
    BY <2>1, <2>3 DEF FinalRunInv, F!Iters
  <2>5. ASSUME NEW i \in DOMAIN ft_results
        PROVE  ft_results'[i].version = IF ft_results'[i].proposal = "none" THEN 0 ELSE ft_archive'[i]
    BY <2>1, <2>4 DEF FinalRunInv, F!SourceOf
  <2> QED
    BY <2>1, <2>2, <2>5 DEF FinalRunInv, F!SourceOf
<1>3. CASE F!Reject
  BY <1>3 DEF F!Reject, F!NextIteration, FinalRunInv, F!SourceOf, F!Iters
<1>4. CASE F!Evaluate
  <2>0. ft_iter \notin DOMAIN ft_results
    BY <1>4 DEF F!Evaluate, FinalRunInv
  <2>1. PICK e : /\ ft_results' = F!Put(ft_results, ft_iter, e)
                 /\ e.version = F!SourceOf(e.proposal, ft_iter)
    <3>1. PICK rate \in F!Rates :
            ft_results' = F!Put(ft_results, ft_iter, [proposal |-> ft_proposal,
                             version |-> F!SourceOf(ft_proposal, ft_iter), rate |-> rate])
      BY <1>4, <2>0 DEF F!Evaluate, F!Stored
    <3> DEFINE d == [proposal |-> ft_proposal, version |-> F!SourceOf(ft_proposal, ft_iter), rate |-> rate]
    <3>2. d.version = F!SourceOf(d.proposal, ft_iter)
      OBVIOUS
    <3> HIDE DEF d
    <3> WITNESS d
    <3> QED
      BY <3>1, <3>2 DEF d
  <2>2. /\ ft_pc = "evaluate" /\ ft_iter \in F!Iters /\ ft_iter \notin DOMAIN ft_results
        /\ ft_memory' = F!Put(ft_memory, ft_iter, ft_results'[ft_iter])
        /\ ft_pc' = "propose" /\ ft_iter' = ft_iter + 1
        /\ UNCHANGED <<ft_archive, ft_version, ft_tests, ft_rows>>
    BY <1>4 DEF F!Evaluate, F!NextIteration, FinalRunInv
  <2>3. /\ DOMAIN ft_results' = DOMAIN ft_results \cup {ft_iter} /\ ft_results'[ft_iter] = e
        /\ \A j \in DOMAIN ft_results : ft_results'[j] = ft_results[j]
    BY <2>1, <2>2 DEF F!Put
  <2>4. /\ DOMAIN ft_memory' = DOMAIN ft_memory \cup {ft_iter} /\ ft_memory'[ft_iter] = ft_results'[ft_iter]
        /\ \A j \in DOMAIN ft_memory \ {ft_iter} : ft_memory'[j] = ft_memory[j]
    BY <2>2 DEF F!Put
  <2> QED
    BY <2>1, <2>2, <2>3, <2>4 DEF FinalRunInv, F!SourceOf, F!Iters
<1> QED
  BY <1>1, <1>2, <1>3, <1>4

(* The test.                                                                *)
LEMMA FinalTestSteps ==
  ASSUME FinalRunInv,
         F!StartTest \/ (\E i \in 0..Iterations : F!TestOne(i) \/ F!FailTest(i)) \/ F!Complete
  PROVE  FinalRunInv'
<1>1. CASE F!StartTest
  <2>1. DOMAIN ft_rows' = {}
    BY <1>1 DEF F!StartTest
  <2> QED
    BY <1>1, <2>1 DEF F!StartTest, FinalRunInv, F!SourceOf
<1>2. ASSUME NEW i \in 0..Iterations, F!TestOne(i) PROVE FinalRunInv'
  <2>1. /\ ft_pc = "test" /\ i \in DOMAIN ft_memory
        /\ UNCHANGED <<ft_pc, ft_iter, ft_version, ft_archive, ft_results, ft_memory>>
        /\ ft_rows' = F!Put(ft_rows, i, ft_tests'[i].version)
    BY <1>2 DEF F!TestOne, F!Frontier
  <2>2. i \in DOMAIN ft_results /\ ft_memory[i] = ft_results[i]
    BY <2>1 DEF FinalRunInv
  <2>3. \A j \in DOMAIN ft_tests' : j \in DOMAIN ft_results /\ ft_tests'[j].version = ft_results[j].version
    <3>1. CASE ft_tests' = ft_tests
      BY <3>1 DEF FinalRunInv
    <3>2. CASE ft_tests' # ft_tests
      <4> DEFINE e == [proposal |-> ft_memory[i].proposal,
                       version |-> F!SourceOf(ft_memory[i].proposal, i), rate |-> 0]
      <4>1. ft_tests' = F!Put(ft_tests, i, e)
        BY <1>2, <3>2 DEF F!TestOne, F!TestSpec
      <4>2. e.version = ft_results[i].version
        BY <2>2 DEF FinalRunInv
      <4> HIDE DEF e
      <4>3. /\ DOMAIN ft_tests' = DOMAIN ft_tests \cup {i} /\ ft_tests'[i] = e
            /\ \A j \in DOMAIN ft_tests \ {i} : ft_tests'[j] = ft_tests[j]
        BY <4>1 DEF F!Put
      <4> QED
        BY <2>2, <4>2, <4>3 DEF FinalRunInv
    <3> QED
      BY <3>1, <3>2
  <2>4. i \in DOMAIN ft_tests'
    <3>1. CASE ft_tests' = ft_tests
      BY <1>2, <3>1 DEF F!TestOne, F!Stored, F!Put
    <3>2. CASE ft_tests' # ft_tests
      BY <1>2, <3>2 DEF F!TestOne, F!Put
    <3> QED
      BY <3>1, <3>2
  <2>5. \A j \in DOMAIN ft_rows' : j \in DOMAIN ft_results /\ ft_rows'[j] \in {-1, ft_results[j].version}
    <3>1. /\ DOMAIN ft_rows' = DOMAIN ft_rows \cup {i} /\ ft_rows'[i] = ft_tests'[i].version
          /\ \A j \in DOMAIN ft_rows \ {i} : ft_rows'[j] = ft_rows[j]
      BY <2>1 DEF F!Put
    <3> QED
      BY <2>2, <2>3, <2>4, <3>1 DEF FinalRunInv
  <2> QED
    BY <2>1, <2>3, <2>5 DEF FinalRunInv, F!SourceOf
<1>3. ASSUME NEW i \in 0..Iterations, F!FailTest(i) PROVE FinalRunInv'
  <2>1. /\ ft_pc = "test" /\ i \in DOMAIN ft_memory
        /\ UNCHANGED <<ft_pc, ft_iter, ft_version, ft_archive, ft_results, ft_tests, ft_memory>>
        /\ ft_rows' = F!Put(ft_rows, i, -1)
    BY <1>3 DEF F!FailTest, F!Frontier
  <2>2. \A j \in DOMAIN ft_rows' : j \in DOMAIN ft_results /\ ft_rows'[j] \in {-1, ft_results[j].version}
    <3>1. /\ DOMAIN ft_rows' = DOMAIN ft_rows \cup {i} /\ ft_rows'[i] = -1
          /\ \A j \in DOMAIN ft_rows \ {i} : ft_rows'[j] = ft_rows[j]
      BY <2>1 DEF F!Put
    <3> QED
      BY <2>1, <3>1 DEF FinalRunInv
  <2> QED
    BY <2>1, <2>2 DEF FinalRunInv, F!SourceOf
<1>4. CASE F!Complete
  BY <1>4 DEF F!Complete, FinalRunInv, F!SourceOf
<1> QED
  BY <1>1, <1>2, <1>3, <1>4

(* A resumed run goes on after the last stored result.                      *)
LEMMA FinalResumeIsLater ==
  ASSUME DOMAIN ft_results \subseteq 0..Iterations
  PROVE  F!ResumeStart \in Nat \ {0} /\ \A j \in DOMAIN ft_results : j < F!ResumeStart
<1> DEFINE R == DOMAIN ft_results \cup {0}
<1>1. R \in SUBSET (0 .. Iterations) /\ R # {}
  BY IterationsAssumption
<1>2. \E x \in R : \A y \in R : y <= x
  <2> HIDE DEF R
  <2> QED
    BY <1>1, GreatestElement, IterationsAssumption
<1>3. PICK m \in R : m = F!Max(R) /\ \A y \in R : m >= y
  <2>1. \E x \in R : \A y \in R : x >= y
    BY <1>1, <1>2
  <2> HIDE DEF R
  <2> QED
    BY <2>1 DEF F!Max
<1>4. F!ResumeStart = m + 1 /\ \A j \in DOMAIN ft_results : j \in R
  BY <1>3 DEF F!ResumeStart
<1> HIDE DEF R
<1>5. m \in 0 .. Iterations
  BY <1>1
<1>6. \A y \in R : m >= y /\ y \in 0 .. Iterations
  BY <1>1, <1>3
<1> QED
  BY <1>4, <1>5, <1>6, IterationsAssumption

LEMMA FinalResumeStep == ASSUME FinalRunInv, F!Resume PROVE FinalRunInv'
<1>1. /\ ft_iter' = F!ResumeStart /\ ft_memory' = ft_results /\ ft_pc' = "propose" /\ DOMAIN ft_rows' = {}
      /\ ft_archive' = [i \in F!Iters |-> IF i < ft_iter' THEN ft_archive[i] ELSE -1]
      /\ UNCHANGED <<ft_version, ft_results, ft_tests>>
  BY DEF F!Resume
<1>2. ft_iter' \in Nat \ {0} /\ \A j \in DOMAIN ft_results : j < ft_iter'
  BY <1>1, FinalResumeIsLater DEF FinalRunInv
<1>3. ft_archive' \in [F!Iters -> Int]
  BY <1>1 DEF FinalRunInv
<1>4. \A j \in DOMAIN ft_results : j # 0 => ft_archive'[j] = ft_archive[j]
  BY <1>1, <1>2 DEF FinalRunInv, F!Iters
<1>5. ASSUME NEW j \in DOMAIN ft_results
      PROVE  ft_results'[j].version = IF ft_results'[j].proposal = "none" THEN 0 ELSE ft_archive'[j]
  BY <1>1, <1>4 DEF FinalRunInv, F!SourceOf
<1> QED
  BY <1>1, <1>2, <1>3, <1>5 DEF FinalRunInv, F!SourceOf

LEMMA FinalStep == FinalInv /\ [F!Next]_(F!vars) => FinalInv'
<1> SUFFICES ASSUME FinalInv, [F!Next]_(F!vars), ~ft_used' PROVE FinalRunInv'
  BY DEF FinalInv
<1>1. ~ft_used /\ ~F!StartAgain
  <2>1. ~F!StartAgain
    BY DEF F!StartAgain
  <2>2. F!EvaluateSeed \/ F!Propose \/ F!Reject \/ F!Evaluate => UNCHANGED ft_used
    BY DEF F!EvaluateSeed, F!Propose, F!Reject, F!Evaluate
  <2>3. (\E i \in 0..Iterations : F!TestOne(i) \/ F!FailTest(i)) => UNCHANGED ft_used
    BY DEF F!TestOne, F!FailTest
  <2>4. F!StartTest \/ F!Complete \/ F!Resume \/ F!Done \/ UNCHANGED F!vars => UNCHANGED ft_used
    BY DEF F!StartTest, F!Complete, F!Resume, F!Done, F!vars
  <2> QED
    BY <2>1, <2>2, <2>3, <2>4 DEF F!Next
<1>2. FinalRunInv
  BY <1>1 DEF FinalInv
<1>3. CASE F!Done \/ UNCHANGED F!vars
  BY <1>2, <1>3 DEF F!Done, F!vars, FinalRunInv, F!SourceOf
<1> QED
  BY <1>1, <1>2, <1>3, FinalTrainSteps, FinalTestSteps, FinalResumeStep DEF F!Next

LEMMA FinalImplies == FinalInv => F!TestMatchesTrain
BY DEF FinalInv, FinalRunInv, F!TestMatchesTrain

-----------------------------------------------------------------------------
(* BaselineSuite: the repeats and the seeds                                 *)

SuiteShape ==
  /\ bs_pc \in {"idle", "repeat", "evaluate", "done"}
  /\ bs_request \in B!Requests /\ bs_repeat \in Nat \ {0}
  /\ bs_results \in [1..Repeats -> [Scaffolds -> Measurements \cup {None, Torn}]]
  /\ bs_summaries \in [1..Repeats -> Summaries \cup {None, Torn}]

(* A summary says how it was asked for, and its measurements are that, or   *)
(* come from a launch that crashed.                                         *)
SummaryInv ==
  \A r \in 1..Repeats : B!Written(bs_summaries[r]) =>
    \A s \in DOMAIN bs_summaries[r].candidates :
      bs_summaries[r].candidates[s] \in
        bs_lost \cup {[limit |-> bs_summaries[r].limit, model |-> bs_summaries[r].model]}

(* Results without a summary are those of the repeat at hand, or of a       *)
(* launch that crashed.                                                     *)
ResultInv ==
  \A r \in 1..Repeats, s \in Scaffolds :
    bs_summaries[r] = None /\ B!Written(bs_results[r][s]) =>
      \/ bs_results[r][s] \in bs_lost
      \/ bs_pc = "evaluate" /\ bs_repeat = r /\ bs_results[r][s] = B!Measured(bs_request)

TakenInv ==
  bs_pc = "evaluate" =>
    /\ bs_repeat \in 1..Repeats
    /\ DOMAIN bs_taken \subseteq bs_request.scaffolds
    /\ bs_taken = <<>> \/ bs_taken = [s \in DOMAIN bs_taken |-> bs_results[bs_repeat][s]]
    /\ \A s \in DOMAIN bs_taken : bs_taken[s] \in Measurements \cap (bs_lost \cup {B!Measured(bs_request)})
    /\ ~bs_forced => bs_summaries[bs_repeat] = None

(* The repeats before the one at hand are done, as this launch asks.        *)
DoneInv ==
  /\ bs_pc \in {"repeat", "evaluate", "done"} =>
       \A r \in 1..Repeats : r < bs_repeat => B!Written(bs_summaries[r]) /\ B!Matches(bs_summaries[r])
  /\ bs_pc = "done" => bs_repeat > Repeats /\ bs_suite

SuiteInv == SuiteShape /\ SummaryInv /\ ResultInv /\ TakenInv /\ DoneInv

LEMMA SuiteInit == B!Init => SuiteInv
BY DEF B!Init, SuiteInv, SuiteShape, SummaryInv, ResultInv, TakenInv, DoneInv, B!Requests, B!Written

LEMMA SuiteHolds == SuiteInv => B!SuiteIsRequested
<1> SUFFICES ASSUME SuiteInv, B!Settled, NEW r \in 1..Repeats
             PROVE  bs_summaries[r].candidates = [s \in bs_request.scaffolds |-> B!Measured(bs_request)]
  BY DEF B!SuiteIsRequested
<1>1. B!Written(bs_summaries[r]) /\ B!Matches(bs_summaries[r]) /\ bs_lost \subseteq {B!Measured(bs_request)}
  BY RepeatsAssumption DEF B!Settled, SuiteInv, SuiteShape, DoneInv
<1>2. bs_summaries[r] \in Summaries
  BY <1>1 DEF SuiteInv, SuiteShape, B!Written
<1>3. PICK D \in SUBSET Scaffolds : bs_summaries[r].candidates \in [D -> Measurements]
  BY <1>2 DEF Summaries
<1>4. DOMAIN bs_summaries[r].candidates = bs_request.scaffolds
  BY <1>1 DEF B!Matches
<1>5. [limit |-> bs_summaries[r].limit, model |-> bs_summaries[r].model] = B!Measured(bs_request)
  BY <1>1 DEF B!Matches, B!Measured
<1>6. \A s \in bs_request.scaffolds : bs_summaries[r].candidates[s] = B!Measured(bs_request)
  BY <1>1, <1>4, <1>5 DEF SuiteInv, SummaryInv
<1> QED
  BY <1>3, <1>4, <1>6

(* The repeats of a launch.                                                 *)
LEMMA SuiteRepeatSteps ==
  ASSUME SuiteInv, B!Launch \/ B!ReuseRepeat \/ B!StartRepeat \/ B!Raise \/ B!FinishSuite
  PROVE  SuiteInv'
<1> USE DEF SuiteInv
<1>1. CASE B!Launch
  <2>1. /\ bs_pc \in {"idle", "done"} /\ bs_pc' = "repeat" /\ bs_repeat' = 1 /\ bs_request' \in B!Requests
        /\ UNCHANGED <<bs_results, bs_summaries, bs_lost>>
    BY <1>1 DEF B!Launch
  <2>2. SuiteShape'
    BY <2>1 DEF SuiteShape
  <2>3. SummaryInv' /\ ResultInv'
    BY <2>1 DEF SummaryInv, ResultInv
  <2>4. TakenInv' /\ DoneInv'
    BY <2>1 DEF TakenInv, DoneInv
  <2> QED
    BY <2>2, <2>3, <2>4
<1>2. CASE B!ReuseRepeat
  <2>1. /\ bs_pc = "repeat" /\ bs_pc' = "repeat" /\ bs_repeat' = bs_repeat + 1
        /\ B!Written(bs_summaries[bs_repeat]) /\ B!Matches(bs_summaries[bs_repeat])
        /\ UNCHANGED <<bs_request, bs_results, bs_summaries, bs_lost>>
    BY <1>2 DEF B!ReuseRepeat
  <2>2. SuiteShape'
    BY <2>1 DEF SuiteShape
  <2>3. SummaryInv' /\ ResultInv' /\ TakenInv'
    BY <2>1 DEF SummaryInv, ResultInv, TakenInv
  <2>4. DoneInv'
    BY <2>1 DEF SuiteShape, DoneInv, B!Matches
  <2> QED
    BY <2>2, <2>3, <2>4
<1>3. CASE B!StartRepeat
  <2>1. /\ bs_pc = "repeat" /\ bs_pc' = "evaluate" /\ bs_repeat \in 1..Repeats
        /\ bs_forced' = (bs_request.force \/ bs_summaries[bs_repeat] # None) /\ bs_taken' = <<>>
        /\ UNCHANGED <<bs_request, bs_repeat, bs_results, bs_summaries, bs_lost>>
    BY <1>3 DEF B!StartRepeat
  <2>2. SuiteShape'
    BY <2>1 DEF SuiteShape
  <2>3. SummaryInv' /\ ResultInv'
    BY <2>1 DEF SummaryInv, ResultInv
  <2>4. TakenInv'
    <3>1. DOMAIN bs_taken' = {}
      BY <2>1
    <3> QED
      BY <2>1, <3>1 DEF TakenInv
  <2>5. DoneInv'
    BY <2>1 DEF DoneInv, B!Matches
  <2> QED
    BY <2>2, <2>3, <2>4, <2>5
<1>4. CASE B!Raise
  <2>1. /\ bs_pc = "repeat" /\ bs_pc' = "idle" /\ UNCHANGED <<bs_request, bs_repeat, bs_results, bs_summaries, bs_lost>>
    BY <1>4 DEF B!Raise
  <2> QED
    BY <2>1 DEF SuiteShape, SummaryInv, ResultInv, TakenInv, DoneInv
<1>5. CASE B!FinishSuite
  <2>1. /\ bs_pc = "repeat" /\ bs_pc' = "done" /\ bs_repeat > Repeats /\ bs_suite' = TRUE
        /\ UNCHANGED <<bs_request, bs_repeat, bs_results, bs_summaries, bs_lost>>
    BY <1>5 DEF B!FinishSuite
  <2> QED
    BY <2>1 DEF SuiteShape, SummaryInv, ResultInv, TakenInv, DoneInv, B!Matches
<1> QED
  BY <1>1, <1>2, <1>3, <1>4, <1>5

(* One measurement: a stored result is taken only where no summary tells of *)
(* another request.                                                         *)
LEMMA SuiteEvaluateStep ==
  ASSUME SuiteInv, NEW s \in Scaffolds, B!Evaluate(s) PROVE SuiteInv'
<1> USE DEF SuiteInv
<1> DEFINE x == IF ~bs_forced /\ B!Written(bs_results[bs_repeat][s]) THEN bs_results[bs_repeat][s]
                ELSE B!Measured(bs_request)
<1>1. /\ bs_pc = "evaluate" /\ s \in bs_request.scaffolds \ DOMAIN bs_taken
      /\ bs_results' = [bs_results EXCEPT ![bs_repeat][s] = x]
      /\ bs_taken' = [t \in DOMAIN bs_taken \cup {s} |-> bs_results'[bs_repeat][t]]
      /\ UNCHANGED <<bs_pc, bs_request, bs_repeat, bs_forced, bs_summaries, bs_suite, bs_lost>>
  BY DEF B!Evaluate
<1>2. bs_repeat \in 1..Repeats
  BY <1>1 DEF TakenInv
<1>3. B!Measured(bs_request) \in Measurements
  BY DEF B!Measured, Measurements, SuiteShape, B!Requests
<1>4. x \in Measurements
  BY <1>2, <1>3 DEF SuiteShape, B!Written
<1>5. x \in bs_lost \cup {B!Measured(bs_request)}
  BY <1>1, <1>2 DEF TakenInv, ResultInv
<1> HIDE DEF x
<1>6. /\ bs_results' \in [1..Repeats -> [Scaffolds -> Measurements \cup {None, Torn}]]
      /\ bs_results'[bs_repeat][s] = x
      /\ \A r \in 1..Repeats, t \in Scaffolds :
           r # bs_repeat \/ t # s => bs_results'[r][t] = bs_results[r][t]
  BY <1>1, <1>2, <1>4 DEF SuiteShape
<1>7. SuiteShape' /\ SummaryInv'
  BY <1>1, <1>6 DEF SuiteShape, SummaryInv
<1>8. ResultInv'
  <2> SUFFICES ASSUME NEW r \in 1..Repeats, NEW t \in Scaffolds,
                      bs_summaries[r] = None, B!Written(bs_results'[r][t])
               PROVE  \/ bs_results'[r][t] \in bs_lost
                      \/ bs_repeat = r /\ bs_results'[r][t] = B!Measured(bs_request)
    BY <1>1 DEF ResultInv, B!Written, B!Measured
  <2>1. CASE r = bs_repeat /\ t = s
    BY <1>5, <1>6, <2>1
  <2>2. CASE r # bs_repeat \/ t # s
    BY <1>1, <1>6, <2>2 DEF ResultInv
  <2> QED
    BY <2>1, <2>2
<1>9. TakenInv'
  <2>1. DOMAIN bs_taken' = DOMAIN bs_taken \cup {s} /\ bs_taken'[s] = x
    BY <1>1, <1>6
  <2>2. DOMAIN bs_taken \subseteq Scaffolds
    BY <1>1 DEF TakenInv, SuiteShape, B!Requests
  <2>3. \A t \in DOMAIN bs_taken : bs_taken'[t] = bs_taken[t]
    <3>1. CASE bs_taken = <<>>
      BY <3>1
    <3>2. CASE bs_taken # <<>>
      BY <1>1, <1>2, <1>6, <2>2, <3>2 DEF TakenInv
    <3> QED
      BY <3>1, <3>2
  <2>4. bs_taken' = [t \in DOMAIN bs_taken' |-> bs_results'[bs_repeat][t]]
    BY <1>1, <2>1
  <2> QED
    BY <1>1, <1>2, <1>4, <1>5, <2>1, <2>3, <2>4 DEF TakenInv, B!Measured
<1>10. DoneInv'
  BY <1>1 DEF DoneInv, B!Matches, B!Written
<1> QED
  BY <1>7, <1>8, <1>9, <1>10

LEMMA SuiteFinishStep ==
  ASSUME SuiteInv, B!FinishRepeat PROVE SuiteInv'
<1> USE DEF SuiteInv
<1> DEFINE x == [limit |-> bs_request.limit, model |-> bs_request.model, candidates |-> bs_taken]
<1>1. /\ bs_pc = "evaluate" /\ bs_pc' = "repeat" /\ DOMAIN bs_taken = bs_request.scaffolds
      /\ bs_summaries' = [bs_summaries EXCEPT ![bs_repeat] = x]
      /\ bs_repeat' = bs_repeat + 1
      /\ UNCHANGED <<bs_request, bs_results, bs_suite, bs_lost>>
  BY DEF B!FinishRepeat
<1>2. bs_repeat \in 1..Repeats
  BY <1>1 DEF TakenInv
<1>3. bs_request.limit \in Limits /\ bs_request.model \in Models /\ bs_request.scaffolds \in SUBSET Scaffolds
  BY DEF SuiteShape, B!Requests
<1>4. bs_taken \in [bs_request.scaffolds -> Measurements]
  <2>1. bs_request.scaffolds # {} /\ DOMAIN <<>> = {}
    BY DEF SuiteShape, B!Requests
  <2> QED
    BY <1>1, <2>1 DEF TakenInv
<1>5. x \in Summaries
  BY <1>3, <1>4 DEF Summaries
<1>6. B!Written(x) /\ x # None
  BY <1>5, FilesAssumption DEF B!Written
<1>7. /\ bs_summaries' \in [1..Repeats -> Summaries \cup {None, Torn}]
      /\ bs_summaries'[bs_repeat] = x
      /\ \A r \in 1..Repeats \ {bs_repeat} : bs_summaries'[r] = bs_summaries[r]
  BY <1>1, <1>2, <1>5 DEF SuiteShape
<1>8. /\ x.limit = bs_request.limit /\ x.model = bs_request.model /\ x.candidates = bs_taken
  OBVIOUS
<1> HIDE DEF x
<1>9. SuiteShape'
  BY <1>1, <1>7 DEF SuiteShape
<1>10. SummaryInv'
  <2> SUFFICES ASSUME NEW r \in 1..Repeats, B!Written(bs_summaries'[r]),
                      NEW s \in DOMAIN bs_summaries'[r].candidates
               PROVE  bs_summaries'[r].candidates[s] \in
                        bs_lost \cup {[limit |-> bs_summaries'[r].limit, model |-> bs_summaries'[r].model]}
    BY <1>1 DEF SummaryInv, B!Written
  <2>1. CASE r = bs_repeat
    <3>1. bs_summaries'[r].candidates[s] \in bs_lost \cup {B!Measured(bs_request)}
      BY <1>1, <1>7, <1>8, <2>1 DEF TakenInv
    <3> QED
      BY <1>7, <1>8, <2>1, <3>1 DEF B!Measured
  <2>2. CASE r # bs_repeat
    BY <1>7, <2>2 DEF SummaryInv
  <2> QED
    BY <2>1, <2>2
<1>11. ResultInv'
  BY <1>1, <1>2, <1>6, <1>7 DEF ResultInv, B!Written
<1>12. B!Matches(x)
  BY <1>1, <1>8 DEF B!Matches
<1>13. DoneInv'
  <2> SUFFICES ASSUME NEW r \in 1..Repeats, r < bs_repeat + 1
               PROVE  B!Written(bs_summaries'[r]) /\ B!Matches(bs_summaries'[r])
    BY <1>1 DEF DoneInv, B!Written, B!Matches
  <2>1. CASE r = bs_repeat
    BY <1>6, <1>7, <1>12, <2>1
  <2>2. CASE r # bs_repeat
    <3>1. r < bs_repeat
      BY <1>2, <2>2, RepeatsAssumption
    <3> QED
      BY <1>1, <1>7, <2>2, <3>1 DEF DoneInv
  <2> QED
    BY <2>1, <2>2
<1> QED
  BY <1>1, <1>9, <1>10, <1>11, <1>13 DEF TakenInv

(* A crash, which may leave the file cut short that was being written.      *)
LEMMA SuiteCrashSteps ==
  ASSUME SuiteInv, B!Crash \/ B!CrashInResult \/ B!CrashInSummary PROVE SuiteInv'
<1> USE DEF SuiteInv
<1>1. /\ bs_pc' = "idle" /\ bs_lost' = bs_lost \cup {B!Measured(bs_request)}
      /\ UNCHANGED <<bs_request, bs_repeat, bs_suite>>
      /\ bs_pc \in {"repeat", "evaluate"}
  BY DEF B!Crash, B!CrashInResult, B!CrashInSummary, B!ProcessLost
<1>2. TakenInv' /\ DoneInv'
  BY <1>1 DEF TakenInv, DoneInv
<1>3. CASE B!Crash
  <2>1. UNCHANGED <<bs_results, bs_summaries>>
    BY <1>3 DEF B!Crash
  <2> QED
    BY <1>1, <1>2, <2>1 DEF SuiteShape, SummaryInv, ResultInv
<1>4. CASE B!CrashInResult
  <2>1. PICK s \in bs_request.scaffolds : bs_results' = [bs_results EXCEPT ![bs_repeat][s] = Torn]
    BY <1>4 DEF B!CrashInResult
  <2>2. bs_repeat \in 1..Repeats /\ s \in Scaffolds /\ UNCHANGED bs_summaries
    BY <1>4 DEF B!CrashInResult, TakenInv, SuiteShape, B!Requests
  <2>3. /\ bs_results' \in [1..Repeats -> [Scaffolds -> Measurements \cup {None, Torn}]]
        /\ \A r \in 1..Repeats, t \in Scaffolds : bs_results'[r][t] \in {bs_results[r][t], Torn}
    BY <2>1, <2>2 DEF SuiteShape
  <2>4. SuiteShape' /\ SummaryInv'
    BY <1>1, <2>2, <2>3 DEF SuiteShape, SummaryInv
  <2>5. ResultInv'
    BY <1>1, <2>2, <2>3 DEF ResultInv, B!Written
  <2> QED
    BY <1>2, <2>4, <2>5
<1>5. CASE B!CrashInSummary
  <2>1. bs_repeat \in 1..Repeats
    BY <1>5 DEF B!CrashInSummary, TakenInv
  <2>2. /\ bs_summaries' \in [1..Repeats -> Summaries \cup {None, Torn}]
        /\ bs_summaries'[bs_repeat] = Torn /\ UNCHANGED bs_results
        /\ \A r \in 1..Repeats \ {bs_repeat} : bs_summaries'[r] = bs_summaries[r]
    BY <1>5, <2>1 DEF B!CrashInSummary, SuiteShape
  <2>3. SuiteShape'
    BY <1>1, <2>2 DEF SuiteShape
  <2>4. SummaryInv'
    BY <1>1, <2>2 DEF SummaryInv, B!Written
  <2>5. ResultInv'
    BY <1>1, <1>5, <2>1, <2>2, FilesAssumption DEF ResultInv, B!CrashInSummary, B!Written
  <2> QED
    BY <1>2, <2>3, <2>4, <2>5
<1> QED
  BY <1>3, <1>4, <1>5

LEMMA SuiteStep == SuiteInv /\ [B!Next]_(B!vars) => SuiteInv'
<1> SUFFICES ASSUME SuiteInv, [B!Next]_(B!vars) PROVE SuiteInv'
  OBVIOUS
<1>1. CASE B!Load \/ UNCHANGED B!vars
  <2>1. UNCHANGED <<bs_pc, bs_request, bs_repeat, bs_forced, bs_taken, bs_results, bs_summaries, bs_suite, bs_lost>>
    BY <1>1 DEF B!Load, B!vars
  <2> QED
    BY <2>1 DEF SuiteInv, SuiteShape, SummaryInv, ResultInv, TakenInv, DoneInv, B!Matches
<1> QED
  BY <1>1, SuiteRepeatSteps, SuiteEvaluateStep, SuiteFinishStep, SuiteCrashSteps DEF B!Next

(* The seeds that are taken from a suite.                                   *)
LEMMA SeedsInit == B!Init => B!SeedsSound
BY DEF B!Init, B!SeedsSound

LEMMA SeedsStep == SuiteInv /\ B!SeedsSound /\ [B!Next]_(B!vars) => B!SeedsSound'
<1> SUFFICES ASSUME SuiteInv, B!SeedsSound, [B!Next]_(B!vars) PROVE B!SeedsSound'
  OBVIOUS
<1>1. CASE UNCHANGED bs_seeds
  BY <1>1 DEF B!SeedsSound
<1>2. CASE B!Load
  <2>1. /\ bs_seeds' = [settled |-> B!Settled,
                     from |-> {[scaffold |-> c[2], repeat |-> c[1], measured |-> B!Candidate(c)] :
                                 c \in B!Loaded}]
        /\ Torn \notin {bs_summaries[r] : r \in 1..Repeats}
        /\ B!Loaded # {}
    BY <1>2 DEF B!Load
  <2> SUFFICES ASSUME B!Settled
               PROVE  /\ \A e, f \in bs_seeds'.from : e.scaffold = f.scaffold => e = f
                      /\ \E e \in bs_seeds'.from : \A f \in bs_seeds'.from : f.measured = e.measured
    BY <2>1 DEF B!SeedsSound
  <2>2. bs_suite
    BY DEF B!Settled, SuiteInv, DoneInv
  <2>3. \A c \in B!Loaded : /\ c \in UNION {B!Candidates(r) : r \in 1..Repeats}
                            /\ \A d \in B!Loaded : d[2] = c[2] => c[1] <= d[1]
    BY <2>2 DEF B!Loaded
  <2>4. ASSUME NEW c \in B!Loaded
        PROVE  /\ c[1] \in 1..Repeats /\ c[2] \in DOMAIN bs_summaries[c[1]].candidates
               /\ c = <<c[1], c[2]>>
    BY <2>3 DEF B!Candidates
  <2>5. \A c \in B!Loaded : B!Candidate(c) = B!Measured(bs_request)
    <3> SUFFICES ASSUME NEW c \in B!Loaded PROVE B!Candidate(c) = B!Measured(bs_request)
      OBVIOUS
    <3>1. bs_summaries[c[1]].candidates = [s \in bs_request.scaffolds |-> B!Measured(bs_request)]
      BY <2>4, SuiteHolds DEF B!SuiteIsRequested
    <3> QED
      BY <2>4, <3>1 DEF B!Candidate
  <2>6. ASSUME NEW c \in B!Loaded, NEW d \in B!Loaded, c[2] = d[2] PROVE c = d
    <3>1. c[1] <= d[1] /\ d[1] <= c[1]
      BY <2>3, <2>6
    <3>2. c[1] \in Int /\ d[1] \in Int
      BY <2>4
    <3>3. c[1] = d[1]
      BY <3>1, <3>2
    <3> QED
      BY <2>4, <2>6, <3>3
  <2>7. \A e, f \in bs_seeds'.from : e.scaffold = f.scaffold => e = f
    BY <2>1, <2>6
  <2>8. \E e \in bs_seeds'.from : \A f \in bs_seeds'.from : f.measured = e.measured
    <3>1. bs_seeds'.from # {}
      BY <2>1
    <3>2. \A f \in bs_seeds'.from : f.measured = B!Measured(bs_request)
      BY <2>1, <2>5
    <3> QED
      BY <3>1, <3>2
  <2> QED
    BY <2>7, <2>8
<1> QED
  BY <1>1, <1>2 DEF B!Next, B!Launch, B!ReuseRepeat, B!StartRepeat, B!Raise, B!Evaluate, B!FinishRepeat,
     B!FinishSuite, B!Crash, B!CrashInResult, B!CrashInSummary, B!ProcessLost, B!vars

-----------------------------------------------------------------------------
(* The evaluations side by side                                             *)

EvaluatorsInv ==
  /\ TrialInv
  /\ SnapshotInv /\ FlagInv
  /\ ColouringInv
  /\ CleanInv /\ SourceInv /\ FoulInv
  /\ FinalInv
  /\ SuiteInv /\ B!SeedsSound

LEMMA EvaluatorsInit == Init => EvaluatorsInv
BY TrialInit, SnapshotInit, FlagInit, ColouringInit, CleanInit, SourceTestInit, FoulInit, FinalInit,
   SuiteInit, SeedsInit
   DEF Init, EvaluatorsInv

(* A step of the run is a step of the task it is of, and the other tasks'   *)
(* states stand still.                                                      *)
LEMMA StepsApart ==
  ASSUME [Next]_vars
  PROVE  /\ [T!Next]_(T!vars) /\ [S!Next]_(S!vars) /\ [G!Next]_(G!vars)
         /\ [C!Next]_(C!vars) /\ [F!Next]_(F!vars) /\ [B!Next]_(B!vars)
<1>1. UNCHANGED tbVars => UNCHANGED T!vars
  BY DEF tbVars, T!vars
<1>2. UNCHANGED swVars => UNCHANGED S!vars
  BY DEF swVars, S!vars
<1>3. UNCHANGED gcVars => UNCHANGED G!vars
  BY DEF gcVars, G!vars
<1>4. UNCHANGED csVars => UNCHANGED C!vars
  BY DEF csVars, C!vars
<1>5. UNCHANGED ftVars => UNCHANGED F!vars
  BY DEF ftVars, F!vars
<1>6. UNCHANGED bsVars => UNCHANGED B!vars
  BY DEF bsVars, B!vars
<1>7. /\ T!Next \/ UNCHANGED tbVars
      /\ S!Next \/ UNCHANGED swVars
      /\ G!Next \/ UNCHANGED gcVars
      /\ C!Next \/ UNCHANGED csVars
      /\ F!Next \/ UNCHANGED ftVars
      /\ B!Next \/ UNCHANGED bsVars
  BY DEF Next, vars
<1> QED
  BY <1>1, <1>2, <1>3, <1>4, <1>5, <1>6, <1>7

LEMMA EvaluatorsStep == EvaluatorsInv /\ [Next]_vars => EvaluatorsInv'
<1> SUFFICES ASSUME EvaluatorsInv, [Next]_vars PROVE EvaluatorsInv'
  OBVIOUS
<1>1. CleanInv'
  BY StepsApart, CleanStep DEF EvaluatorsInv, SourceInv, SourcePlaced
<1> QED
  BY <1>1, StepsApart, TrialStep, SnapshotStep, FlagStep, ColouringStep, SourceTestStep, FoulStep,
     FinalStep, SuiteStep, SeedsStep
     DEF EvaluatorsInv

LEMMA EvaluatorsAlways == Spec => []EvaluatorsInv
BY EvaluatorsInit, EvaluatorsStep, PTL DEF Spec

(* A stored score is made of what this attempt at the iteration ran: of its *)
(* own trials in a Terminus run that --force cleans or no crash interrupted,*)
(* of its own patches in a SWE-bench run whose agent writes the patch file, *)
(* and of its own rows of a graph, or those of a program left running.      *)
THEOREM ScoresAreOwn == Spec => []OwnEvidence
<1>1. TrialInv => T!OwnTrialsOnly
  BY DEF TrialInv, VersionsFresh, TrialsFresh, T!OwnTrialsOnly
<1>2. SnapshotInv => S!PassedOwnPatch
  BY DEF SnapshotInv, StoredOwn, S!PassedOwnPatch
<1>3. EvaluatorsInv => OwnEvidence
  BY <1>1, <1>2, ColouringImplies DEF EvaluatorsInv, OwnEvidence
<1> QED
  BY <1>3, EvaluatorsAlways, PTL

(* The heuristic a proposer wrote is what is compiled and what a later      *)
(* iteration inherits, a SWE-bench proposer starts from the trusted gate    *)
(* whatever an earlier one did to its own, and without a crash the flag of  *)
(* a stored candidate says whether its proposer touched that gate.          *)
THEOREM WorkspaceIsSound == Spec => []WorkspaceSound
<1>1. SnapshotInv => S!StartsTrusted
  BY DEF SnapshotInv, GateFresh, S!StartsTrusted
<1>2. FlagInv => S!FlagsTrue
  BY DEF FlagInv
<1>3. EvaluatorsInv => WorkspaceSound
  BY <1>1, <1>2, ColouringImplies DEF EvaluatorsInv, WorkspaceSound
<1> QED
  BY <1>3, EvaluatorsAlways, PTL

(* A baseline suite that ended holds every repeat and scaffold it was asked *)
(* for, measured with the model and the limit it was asked for, if no other *)
(* request was cut short in its directory; and the seeds taken from it name *)
(* every scaffold once and are measured alike.                              *)
THEOREM BaselineIsSound == Spec => []BaselineSound
BY EvaluatorsAlways, SuiteHolds, PTL DEF EvaluatorsInv, BaselineSound

(* Code with a forbidden marker is measured only in a nested module whose   *)
(* file the proposal does not name, for the scan does not look there, and   *)
(* by the final test in a module that a later proposal has replaced. What a *)
(* lost or rejected iteration left at the top of the run's directory, what  *)
(* the process has in sys.modules, and a marked project source, its own or  *)
(* inherited with a patch base, is never measured.                          *)
THEOREM ForbiddenOnlyUnseen == Spec => []FoulOnlyUnseen
<1>1. EvaluatorsInv => FoulOnlyUnseen
  BY DEF EvaluatorsInv, FoulInv, FoulOnlyUnseen
<1> QED
  BY <1>1, EvaluatorsAlways, PTL

(* The final test of a candidate loads the code its train result was        *)
(* measured on: the same module and package as long as the file was not     *)
(* overwritten, and the same archive or upstream in a Terminus or SWE-bench *)
(* run, after every crash and resumption in a directory of its own.         *)
THEOREM TestIsOfTrained == Spec => []TestedAsTrained
<1>1. EvaluatorsInv => TestedAsTrained
  BY FinalImplies DEF EvaluatorsInv, SourceInv, TestedAsTrained
<1> QED
  BY <1>1, EvaluatorsAlways, PTL

(* A result is of the module and the package of its own proposal, whatever  *)
(* earlier iterations left in the directory and in the process.             *)
THEOREM ResultIsOfProposal == Spec => MeasuresProposal
<1>1. EvaluatorsInv /\ [Next]_vars =>
        [cs_trained' # cs_trained => C!OfProposal(cs_trained'[cs_iteration])]_(C!vars)
  BY StepsApart, TrainMeasures DEF EvaluatorsInv, C!OfProposal
<1> QED
  BY <1>1, EvaluatorsAlways, PTL DEF Spec, MeasuresProposal, C!MeasuresProposal
=============================================================================
