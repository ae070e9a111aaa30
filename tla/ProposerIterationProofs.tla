----------------------- MODULE ProposerIterationProofs -----------------------
(***************************************************************************)
(* Proofs about ProposerIteration, for every number of iterations,         *)
(* attempts, usage-limit retries, files and crashes.                       *)
(***************************************************************************)
EXTENDS ProposerIteration, TLAPS

(* The positions of an iteration, before and after the archive is written.  *)
Calling  == {"call", "wait", "judge"}
Archived == {"diff", "decide", "evaluate"}
InIteration == {"build", "archive"} \cup Calling \cup Archived

-----------------------------------------------------------------------------
(* Type correctness *)

(* The loop variable is the number of an iteration while one runs, and a    *)
(* usage limit is only waited out while a retry is left.                    *)
Positions ==
  /\ pc = "wait" => retries < MaxRetries
  /\ pc \in {"begin", "done"} => iter \in 1 .. Iterations + 1
  /\ pc \in InIteration => iter \in 1 .. Iterations
  /\ pc = "diff" => archive[iter] # None

TypeInv == TypeOK /\ Positions

LEMMA TypeInvInit == Init => TypeInv
BY LoopAssumption, RetryAssumption
DEF Init, TypeInv, TypeOK, Positions, NoPending, FreshWorkspace, NoResult,
    Pending, Contents, Workspaces, Result, Steps, Stages, InIteration, Calling,
    Archived

LEMMA CallRowType ==
  ASSUME TypeInv
  PROVE  CallRowOf(result) \in CallRow
BY DEF TypeInv, TypeOK, Result, CallRow, CallRowOf

LEMMA NextIterationType ==
  ASSUME TypeInv, pc \in InIteration, NextIteration
  PROVE  /\ iter' \in 1 .. Iterations + 1
         /\ pc' = "begin"
         /\ attempt' \in 1 .. MaxAttempts
         /\ stage' \in Stages
         /\ retries' \in 0 .. MaxRetries
         /\ result' \in Result
         /\ calls' \in Nat
         /\ workspace' \in Workspaces
BY LoopAssumption, RetryAssumption
DEF TypeInv, TypeOK, Positions, NextIteration, Idle, NoResult, Result, Stages,
    FreshWorkspace, Workspaces, Contents

LEMMA TypeStep ==
  ASSUME TypeInv, [Next]_vars
  PROVE  TypeInv'
<1> USE LoopAssumption, RetryAssumption
    DEF TypeInv, TypeOK, Positions, InIteration, Calling, Archived, Steps
<1>1. CASE Launch
  BY <1>1 DEF Launch, store
<1>2. CASE Begin \/ Build
  <2>1. NoPending \in Pending
    BY DEF NoPending, Pending, Contents
  <2>2. FreshWorkspace \in Workspaces
    BY DEF FreshWorkspace, Workspaces, Contents
  <2>3. CASE Begin
    BY <2>1, <2>3 DEF Begin, process, store
  <2>4. CASE Build
    BY <2>2, <2>4 DEF Build, disk, process, store
  <2> QED
    BY <1>2, <2>3, <2>4
<1>3. CASE CallAgent
  <2>1. workspace' \in Workspaces
    BY <1>3 DEF CallAgent, Workspaces
  <2>2. pc' \in {"wait", "judge"} /\ iter \in 1 .. Iterations
    BY <1>3 DEF CallAgent
  <2> QED
    BY <1>3, <2>1, <2>2 DEF CallAgent, disk, store
<1>4. CASE AwaitReset
  BY <1>4 DEF AwaitReset, disk, store
<1>5. CASE AcceptAccess \/ RetryAfterViolation
  <2>1. callRow' \in [1 .. Iterations -> CallRow \cup {None}]
    BY <1>5, CallRowType DEF AcceptAccess, RetryAfterViolation, Judged
  <2>2. workspace' \in Workspaces
    BY <1>5 DEF AcceptAccess, RetryAfterViolation, Judged, Workspaces
  <2> QED
    BY <1>5, <2>1, <2>2
    DEF AcceptAccess, RetryAfterViolation, Judged, MayRetry
<1>6. CASE RejectAfterViolation
  <2>1. callRow' \in [1 .. Iterations -> CallRow \cup {None}]
    BY <1>6, CallRowType DEF RejectAfterViolation, Judged
  <2> QED
    BY <1>6, <2>1, NextIterationType DEF RejectAfterViolation, Judged
<1>7. CASE Archive
  <2>1. pendingEval' \in Pending
    BY <1>7 DEF Archive, Pending, Workspaces
  <2>2. [files |-> workspace.changed, foul |-> workspace.foul] \in Snapshot
    BY DEF Snapshot, Workspaces
  <2>3. archive' \in [1 .. Iterations -> Snapshot \cup {None}]
    BY <1>7, <2>2 DEF Archive
  <2>4. archive'[iter] # None
    BY <1>7, <2>2, NoneAssumption DEF Archive
  <2> QED
    BY <1>7, <2>1, <2>3, <2>4 DEF Archive, store, process
<1>8. CASE RecordDiff
  <2> DEFINE diff == [files |-> archive[iter].files]
  <2>1. archive[iter] # None
    BY <1>8 DEF RecordDiff
  <2>2. diff \in Diff /\ archive[iter].files \subseteq Files
    BY <1>8, <2>1 DEF RecordDiff, Snapshot, Diff
  <2>3. /\ modifications' \in [1 .. Iterations -> Diff \cup {None}]
        /\ diffRows' \in [1 .. Iterations -> Diff \cup {None}]
    BY <1>8, <2>2 DEF RecordDiff
  <2>4. modifiedFiles' \in [1 .. Iterations -> SUBSET Files]
    BY <1>8, <2>2 DEF RecordDiff
  <2> QED
    BY <1>8, <2>3, <2>4 DEF RecordDiff, process
<1>9. CASE RepairMissing \/ RepairInvalid
  <2>1. \E s \in {"missing", "invalid"} : Repair(s) /\ pc = "decide"
    BY <1>9 DEF RepairMissing, RepairInvalid
  <2> QED
    BY <2>1 DEF Repair, disk, store, Stages
<1>10. CASE ProposerFailed
  BY <1>10, NextIterationType DEF ProposerFailed, disk, store
<1>11. CASE Accept \/ Complete
  BY <1>11 DEF Accept, Complete, disk, store, process
<1>12. CASE Evaluate
  <2>1. NextIteration /\ iter \in 1 .. Iterations
    BY <1>12 DEF Evaluate
  <2>2. scored' \subseteq 1 .. Iterations
    BY <1>12, <2>1 DEF Evaluate
  <2> QED
    BY <1>12, <2>1, <2>2, NextIterationType DEF Evaluate, store
<1>13. CASE Crash
  BY <1>13 DEF Crash, Idle, NoResult, Result, Stages, disk, store
<1>14. CASE UNCHANGED vars
  BY <1>14 DEF vars, disk, store, process
<1> QED
  BY <1>1, <1>2, <1>3, <1>4, <1>5, <1>6, <1>7, <1>8, <1>9, <1>10, <1>11,
     <1>12, <1>13, <1>14
  DEF Next, Step, Finished

LEMMA TypeInvariant == Spec => []TypeInv
BY TypeInvInit, TypeStep, PTL DEF Spec

(* Every variable of an iteration keeps its type, whatever the agent leaves *)
(* behind and wherever the process dies.                                    *)
THEOREM TypeCorrect == Spec => []TypeOK
<1>1. TypeInv => TypeOK
  BY DEF TypeInv
<1> QED
  BY <1>1, TypeInvariant, PTL

-----------------------------------------------------------------------------
(* The proposal and the source that are evaluated *)

(* Between Begin and the evaluation pending_eval.json is absent or of this  *)
(* iteration and launch; which of the two goes with the stage.              *)
PendingInv ==
  /\ pc \in InIteration /\ pendingEval.content # "absent" =>
       pendingEval.iter = iter /\ pendingEval.launch = crashes
  /\ pc = "build" => stage = "main"
  /\ pc \in {"build", "archive"} \cup Calling =>
       /\ stage \in {"main", "missing"} => pendingEval.content = "absent"
       /\ stage = "invalid" => pendingEval.content = "invalid"
  /\ pc \in {"down", "begin", "done"} => stage = "main"
  /\ pc \in {"diff", "decide"} =>
       pendingEval.content \in {workspace.pending, "invalid"}
  /\ pc \in {"diff", "decide"} /\ pendingEval.content # workspace.pending =>
       stage = "invalid"
  /\ pc = "evaluate" =>
       /\ pendingEval.content = workspace.pending
       /\ pendingEval.content # "absent"
  /\ pc \in Archived => /\ archive[iter] # None
                        /\ archive[iter].files = workspace.changed

LEMMA PendingInvInit == Init => PendingInv
BY DEF Init, PendingInv, InIteration, Calling, Archived

LEMMA PendingInvStep ==
  ASSUME TypeInv, PendingInv, [Next]_vars
  PROVE  PendingInv'
<1> USE DEF PendingInv, InIteration, Calling, Archived
<1>1. CASE Launch \/ Begin \/ Build \/ Complete
  BY <1>1
  DEF Launch, Begin, Build, Complete, disk, process, store, NoPending
<1>2. CASE CallAgent \/ AwaitReset \/ AcceptAccess
  BY <1>2 DEF CallAgent, AwaitReset, AcceptAccess, Judged, disk, store
<1>3. CASE RetryAfterViolation
  BY <1>3 DEF RetryAfterViolation, Judged, MayRetry
<1>4. CASE RejectAfterViolation \/ ProposerFailed \/ Evaluate
  BY <1>4
  DEF RejectAfterViolation, ProposerFailed, Evaluate, NextIteration, Idle
<1>5. CASE Archive
  <2>1. iter \in 1 .. Iterations /\ iter' = iter /\ pc' = "diff"
    BY <1>5 DEF Archive, TypeInv, Positions, process
  <2>2. archive'[iter] = [files |-> workspace.changed, foul |-> workspace.foul]
    BY <1>5, <2>1 DEF Archive, TypeInv, TypeOK
  <2>3. archive'[iter] # None /\ archive'[iter].files = workspace.changed
    BY <2>2, NoneAssumption DEF Snapshot, TypeInv, TypeOK, Workspaces
  <2>4. stage \in {"main", "missing", "invalid"}
    BY DEF TypeInv, TypeOK, Stages
  <2>5. CASE workspace.pending = "absent"
    BY <1>5, <2>1, <2>3, <2>4, <2>5 DEF Archive, process
  <2>6. CASE workspace.pending # "absent"
    BY <1>5, <2>1, <2>3, <2>4, <2>6 DEF Archive, process
  <2> QED
    BY <2>5, <2>6
<1>6. CASE RecordDiff
  BY <1>6 DEF RecordDiff, process
<1>7. CASE RepairMissing \/ RepairInvalid
  BY <1>7 DEF RepairMissing, RepairInvalid, Repair, MayRepairInvalid, disk
<1>8. CASE Accept
  BY <1>8 DEF Accept, disk, process
<1>9. CASE Crash
  BY <1>9 DEF Crash, Idle
<1>10. CASE UNCHANGED vars
  BY <1>10 DEF vars, disk, store, process
<1> QED
  BY <1>1, <1>2, <1>3, <1>4, <1>5, <1>6, <1>7, <1>8, <1>9, <1>10
  DEF Next, Step, Finished

LEMMA PendingInvariant == Spec => []PendingInv
BY PendingInvInit, PendingInvStep, TypeInvariant, PTL DEF Spec

(* What is evaluated was written in this iteration by an agent of this      *)
(* launch, however often the run crashed and whatever earlier iterations    *)
(* left in pending_eval.json.                                               *)
THEOREM ProposalIsOwn == Spec => []OwnProposal
<1>1. PendingInv => OwnProposal
  BY DEF PendingInv, OwnProposal, InIteration, Archived
<1> QED
  BY <1>1, PendingInvariant, PTL

(* The archived source and the proposal that are evaluated are those of the *)
(* last call, after any number of retries and repairs.                      *)
THEOREM SourceAndProposalTogether == Spec => []ScoredTogether
<1>1. PendingInv => ScoredTogether
  BY DEF PendingInv, ScoredTogether, Archived
<1> QED
  BY <1>1, PendingInvariant, PTL

-----------------------------------------------------------------------------
(* Calls that were turned down *)

FoulInv ==
  /\ NothingFoulKept
  /\ pc \in {"archive"} \cup Calling \cup Archived => ~workspace.foul

LEMMA FoulInvInit == Init => FoulInv
BY DEF Init, FoulInv, NothingFoulKept, NoPending, Calling, Archived

LEMMA FoulInvStep ==
  ASSUME TypeInv, FoulInv, [Next]_vars
  PROVE  FoulInv'
<1> USE DEF FoulInv, NothingFoulKept, Calling, Archived
<1>1. CASE Launch
  BY <1>1 DEF Launch
<1>2. CASE Begin \/ Build \/ Complete
  BY <1>2 DEF Begin, Build, Complete, disk, NoPending, FreshWorkspace
<1>3. CASE CallAgent
  <2>1. workspace'.foul = workspace.foul
    BY <1>3 DEF CallAgent, TypeInv, TypeOK, Workspaces
  <2> QED
    BY <1>3, <2>1 DEF CallAgent, disk
<1>4. CASE AwaitReset \/ AcceptAccess \/ RetryAfterViolation
  BY <1>4 DEF AwaitReset, AcceptAccess, RetryAfterViolation, Judged, disk
<1>5. CASE RejectAfterViolation \/ ProposerFailed \/ Evaluate
  BY <1>5
  DEF RejectAfterViolation, Judged, ProposerFailed, Evaluate, NextIteration,
      disk
<1>6. CASE Archive
  <2>1. ~pendingEval'.foul
    BY <1>6 DEF Archive
  <2>2. \A i \in 1 .. Iterations : archive'[i] # None => ~archive'[i].foul
    BY <1>6 DEF Archive, TypeInv, TypeOK
  <2> QED
    BY <1>6, <2>1, <2>2 DEF Archive
<1>7. CASE \/ RecordDiff \/ RepairMissing \/ RepairInvalid \/ Accept \/ Crash
           \/ UNCHANGED vars
  BY <1>7
  DEF RecordDiff, RepairMissing, RepairInvalid, Repair, Accept, Crash, vars,
      disk
<1> QED
  BY <1>1, <1>2, <1>3, <1>4, <1>5, <1>6, <1>7 DEF Next, Step, Finished

(* Nothing an agent wrote in a call that was turned down reaches the        *)
(* proposal or the archive of any iteration.                                *)
THEOREM NothingFoulLeaves == Spec => []NothingFoulKept
<1>1. FoulInv => NothingFoulKept
  BY DEF FoulInv
<1> QED
  BY <1>1, FoulInvInit, FoulInvStep, TypeInvariant, PTL DEF Spec

-----------------------------------------------------------------------------
(* The store *)

Described(i) ==
  /\ archive[i] # None
  /\ modifications[i] = [files |-> archive[i].files]
  /\ diffRows[i] = modifications[i]
  /\ callRow[i] # None
  /\ callRow[i].ok /\ ~callRow[i].violation

(* Scored iterations are behind the running one, whose rows are written in  *)
(* the order of the steps.                                                  *)
StoreInv ==
  /\ \A i \in scored : Described(i)
  /\ pc # "down" => \A i \in scored : i < iter
  /\ pc \in {"archive"} \cup Archived =>
       /\ callRow[iter] = CallRowOf(result)
       /\ callRow[iter] # None
       /\ ~result.violation
  /\ pc \in Archived => archive[iter] # None
  /\ pc \in {"decide", "evaluate"} =>
       /\ modifications[iter] = [files |-> archive[iter].files]
       /\ diffRows[iter] = modifications[iter]
  /\ pc = "evaluate" => result.ok

LEMMA StoreInvInit == Init => StoreInv
BY DEF Init, StoreInv, Archived

(* A step that writes the rows of the running iteration only leaves the     *)
(* scored ones as they are.                                                 *)
LEMMA ScoredUntouched ==
  ASSUME StoreInv, TypeInv, scored' = scored,
         \A i \in scored : /\ archive'[i] = archive[i]
                           /\ modifications'[i] = modifications[i]
                           /\ diffRows'[i] = diffRows[i]
                           /\ callRow'[i] = callRow[i]
  PROVE  \A i \in scored' : Described(i)'
BY DEF StoreInv, Described

LEMMA StoreInvStep ==
  ASSUME TypeInv, StoreInv, [Next]_vars
  PROVE  StoreInv'
<1> USE DEF StoreInv, Archived
<1>1. CASE Launch
  <2>1. \A i \in scored : archive'[i] = archive[i] /\ diffRows'[i] = diffRows[i]
    BY <1>1 DEF Launch, TypeInv, TypeOK
  <2>2. \A i \in scored' : Described(i)'
    BY <1>1, <2>1, ScoredUntouched DEF Launch, store
  <2> QED
    BY <1>1, <2>2 DEF Launch
<1>2. CASE Begin \/ Build \/ Complete
  BY <1>2 DEF Begin, Build, Complete, disk, store, process, Described
<1>3. CASE CallAgent \/ AwaitReset
  BY <1>3 DEF CallAgent, AwaitReset, disk, store, Described
<1>4. CASE AcceptAccess \/ RetryAfterViolation \/ RejectAfterViolation
  <2>1. /\ pc = "judge" /\ iter \in 1 .. Iterations
        /\ \A i \in scored : i # iter /\ i \in 1 .. Iterations
    BY <1>4
    DEF AcceptAccess, RetryAfterViolation, RejectAfterViolation, Judged,
        TypeInv, TypeOK, Positions, InIteration, Calling
  <2>2. \A i \in scored' : Described(i)'
    BY <1>4, <2>1, ScoredUntouched
    DEF AcceptAccess, RetryAfterViolation, RejectAfterViolation, Judged,
        TypeInv, TypeOK
  <2>3. callRow'[iter] = CallRowOf(result) /\ CallRowOf(result) # None
    BY <1>4, <2>1, CallRowType, NoneAssumption
    DEF AcceptAccess, RetryAfterViolation, RejectAfterViolation, Judged,
        TypeInv, TypeOK
  <2>4. CASE AcceptAccess
    BY <2>2, <2>3, <2>4 DEF AcceptAccess, Judged, CallRowOf
  <2>5. CASE RetryAfterViolation
    BY <2>2, <2>5 DEF RetryAfterViolation, Judged
  <2>6. CASE RejectAfterViolation
    BY <2>1, <2>2, <2>6
    DEF RejectAfterViolation, Judged, NextIteration, TypeInv, TypeOK
  <2> QED
    BY <1>4, <2>4, <2>5, <2>6
<1>5. CASE Archive
  <2>1. /\ iter \in 1 .. Iterations
        /\ \A i \in scored : i # iter /\ i \in 1 .. Iterations
    BY <1>5 DEF Archive, TypeInv, TypeOK, Positions, InIteration
  <2>2. \A i \in scored' : Described(i)'
    BY <1>5, <2>1, ScoredUntouched DEF Archive, TypeInv, TypeOK, store
  <2>3. archive'[iter] # None
    BY <1>5, <2>1, NoneAssumption
    DEF Archive, TypeInv, TypeOK, Workspaces, Snapshot
  <2> QED
    BY <1>5, <2>2, <2>3 DEF Archive, store, process
<1>6. CASE RecordDiff
  <2>1. /\ iter \in 1 .. Iterations
        /\ \A i \in scored : i # iter /\ i \in 1 .. Iterations
    BY <1>6 DEF RecordDiff, TypeInv, TypeOK, Positions, InIteration
  <2>2. \A i \in scored' : Described(i)'
    BY <1>6, <2>1, ScoredUntouched DEF RecordDiff, TypeInv, TypeOK
  <2>3. /\ modifications'[iter] = [files |-> archive[iter].files]
        /\ diffRows'[iter] = modifications'[iter]
    BY <1>6, <2>1 DEF RecordDiff, TypeInv, TypeOK
  <2> QED
    BY <1>6, <2>2, <2>3 DEF RecordDiff, process
<1>7. CASE RepairMissing \/ RepairInvalid \/ Accept
  BY <1>7
  DEF RepairMissing, RepairInvalid, Repair, Accept, disk, store, process,
      Described
<1>8. CASE ProposerFailed
  BY <1>8
  DEF ProposerFailed, NextIteration, disk, store, Described, TypeInv, TypeOK
<1>9. CASE Evaluate
  <2>1. Described(iter)
    BY <1>9 DEF Evaluate, Described, CallRowOf
  <2>2. \A i \in scored' : i \in scored \cup {iter} /\ i \in 1 .. Iterations
    BY <1>9 DEF Evaluate, TypeInv, TypeOK, Positions, InIteration
  <2>3. \A i \in scored' : Described(i)'
    BY <1>9, <2>1, <2>2 DEF Evaluate, store, Described
  <2>4. /\ iter' = iter + 1 /\ pc' = "begin" /\ iter \in 1 .. Iterations
        /\ \A i \in scored : i < iter
    BY <1>9
    DEF Evaluate, NextIteration, TypeInv, TypeOK, Positions, InIteration
  <2>5. \A i \in scored' : i < iter'
    BY <2>2, <2>4, LoopAssumption
  <2> QED
    BY <2>3, <2>4, <2>5
<1>10. CASE Crash
  BY <1>10 DEF Crash, disk, store, Described
<1>11. CASE UNCHANGED vars
  BY <1>11 DEF vars, disk, store, process, Described
<1> QED
  BY <1>1, <1>2, <1>3, <1>4, <1>5, <1>6, <1>7, <1>8, <1>9, <1>10, <1>11
  DEF Next, Step, Finished

(* For every result, the store and diff_summary.jsonl show the diff of the  *)
(* archived source and an accepted, successful call, over any repairs,      *)
(* reruns and crashes.                                                      *)
THEOREM StoreIsTrue == Spec => []StoreDescribesSource
<1>1. StoreInv => StoreDescribesSource
  BY DEF StoreInv, StoreDescribesSource, Described
<1> QED
  BY <1>1, StoreInvInit, StoreInvStep, TypeInvariant, PTL DEF Spec

-----------------------------------------------------------------------------
(* The number of calls *)

(* Attempts before the first repair, then one call for each stage left.     *)
CallsInv ==
  /\ pc \in {"down", "begin", "done"} => calls = 0 /\ stage = "main"
  /\ pc = "build" => stage = "main"
  /\ pc \in {"build"} \cup Calling =>
       /\ stage = "main" => calls < MaxAttempts /\ calls = attempt - 1
       /\ stage = "missing" => calls <= MaxAttempts
       /\ stage = "invalid" => calls <= MaxAttempts + 1
  /\ pc \in {"archive"} \cup Archived =>
       /\ stage = "main" => calls <= MaxAttempts
       /\ stage = "missing" => calls <= MaxAttempts + 1
       /\ stage = "invalid" => calls <= MaxAttempts + 2
  /\ pc \in {"down", "begin", "done"} => attempt = 1

LEMMA CallsInvInit == Init => CallsInv
BY DEF Init, CallsInv, Calling, Archived

LEMMA CallsInvStep ==
  ASSUME TypeInv, CallsInv, [Next]_vars
  PROVE  CallsInv'
<1> USE LoopAssumption DEF CallsInv, Calling, Archived
<1>0. /\ calls \in Nat /\ attempt \in 1 .. MaxAttempts
      /\ stage \in {"main", "missing", "invalid"}
  BY DEF TypeInv, TypeOK, Stages
<1>1. CASE Launch \/ Begin \/ Complete
  BY <1>0, <1>1 DEF Launch, Begin, Complete, process
<1>2. CASE Build \/ CallAgent \/ AwaitReset
  BY <1>0, <1>2 DEF Build, CallAgent, AwaitReset, process
<1>3. CASE AcceptAccess
  BY <1>0, <1>3 DEF AcceptAccess, Judged
<1>4. CASE RetryAfterViolation
  BY <1>0, <1>4 DEF RetryAfterViolation, Judged, MayRetry
<1>5. CASE RejectAfterViolation \/ ProposerFailed \/ Evaluate
  BY <1>0, <1>5
  DEF RejectAfterViolation, ProposerFailed, Evaluate, NextIteration, Idle
<1>6. CASE Archive \/ RecordDiff \/ Accept
  BY <1>0, <1>6 DEF Archive, RecordDiff, Accept, process
<1>7. CASE RepairMissing
  BY <1>0, <1>7 DEF RepairMissing, Repair
<1>8. CASE RepairInvalid
  BY <1>0, <1>8 DEF RepairInvalid, Repair, MayRepairInvalid
<1>9. CASE Crash
  BY <1>9 DEF Crash, Idle
<1>10. CASE UNCHANGED vars
  BY <1>10 DEF vars, process
<1> QED
  BY <1>1, <1>2, <1>3, <1>4, <1>5, <1>6, <1>7, <1>8, <1>9, <1>10
  DEF Next, Step, Finished

(* An iteration never asks the agent more often than the attempts and the   *)
(* two repairs allow.                                                       *)
THEOREM CallsAreBounded == Spec => []CallsBounded
<1>1. TypeInv /\ CallsInv => CallsBounded
  <2> SUFFICES ASSUME TypeInv, CallsInv
               PROVE  calls <= MaxAttempts + 2
    BY DEF CallsBounded
  <2>1. /\ pc \in Steps /\ stage \in Stages
        /\ MaxAttempts \in Nat /\ calls \in Nat
    BY LoopAssumption DEF TypeInv, TypeOK
  <2> QED
    BY <2>1 DEF CallsInv, Steps, Stages, Calling, Archived
<1> QED
  BY <1>1, CallsInvInit, CallsInvStep, TypeInvariant, PTL DEF Spec

-----------------------------------------------------------------------------
(* The calls of an iteration and the one step that stands for them          *)

(* Nothing is archived ahead of the iteration that is running, or about to: *)
(* what a lost attempt left went in the launch that followed it.            *)
AheadInv ==
  /\ pc = "begin" => \A i \in 1 .. Iterations : i >= iter => archive[i] = None
  /\ pc \in InIteration => \A i \in 1 .. Iterations : i > iter => archive[i] = None

LEMMA AheadInvInit == Init => AheadInv
BY DEF Init, AheadInv, InIteration, Calling, Archived

LEMMA AheadInvStep ==
  ASSUME TypeInv, AheadInv, [Next]_vars
  PROVE  AheadInv'
<1> USE LoopAssumption DEF AheadInv, InIteration, Calling, Archived
<1>1. CASE Launch
  BY <1>1 DEF Launch
<1>2. CASE Begin
  BY <1>2 DEF Begin, process, TypeInv, Positions
<1>3. CASE Build \/ CallAgent \/ AwaitReset \/ Accept \/ RepairMissing \/ RepairInvalid
  <2>1. /\ pc \in InIteration /\ pc' \in InIteration
        /\ archive' = archive /\ iter' = iter
    BY <1>3
    DEF Build, CallAgent, AwaitReset, Accept, RepairMissing, RepairInvalid, Repair,
        disk, process
  <2> QED
    BY <2>1
<1>4. CASE AcceptAccess \/ RetryAfterViolation
  BY <1>4 DEF AcceptAccess, RetryAfterViolation, Judged
<1>5. CASE RejectAfterViolation \/ ProposerFailed \/ Evaluate
  <2>1. /\ pc \in InIteration /\ pc' = "begin" /\ iter \in 1 .. Iterations
        /\ archive' = archive /\ iter' = iter + 1
    BY <1>5
    DEF RejectAfterViolation, Judged, ProposerFailed, Evaluate, NextIteration,
        disk, TypeInv, Positions
  <2> QED
    BY <2>1
<1>6. CASE Archive \/ RecordDiff
  <2>1. /\ pc \in InIteration /\ pc' \in InIteration
        /\ iter' = iter /\ iter \in 1 .. Iterations
        /\ \A i \in 1 .. Iterations : i > iter => archive'[i] = archive[i]
    BY <1>6 DEF Archive, RecordDiff, process, TypeInv, TypeOK, Positions
  <2> QED
    BY <2>1
<1>7. CASE Complete \/ Crash
  BY <1>7 DEF Complete, Crash
<1>8. CASE UNCHANGED vars
  BY <1>8 DEF vars, disk, process
<1> QED
  BY <1>1, <1>2, <1>3, <1>4, <1>5, <1>6, <1>7, <1>8 DEF Next, Step, Finished

LEMMA AheadInvariant == Spec => []AheadInv
BY AheadInvInit, AheadInvStep, TypeInvariant, PTL DEF Spec

LEMMA StoreInvariant == Spec => []StoreInv
BY StoreInvInit, StoreInvStep, TypeInvariant, PTL DEF Spec

At == IF Phase = "idle" THEN 0 ELSE iter

LEMMA SourcedStep ==
  ASSUME TypeInv, StoreInv, AheadInv, [Next]_vars
  PROVE  [Sourced!SourceNext]_<<archive, scored, Phase, At>>
<1> USE LoopAssumption DEF InIteration, Calling, Archived, Phase, At
<1>0. archive \in [1 .. Iterations -> Snapshot \cup {None}] /\ pc \in Steps
  BY DEF TypeInv, TypeOK
<1>1. CASE Launch
  <2>1. PICK s \in 1 .. Iterations + 1 :
          /\ \A i \in scored : i < s
          /\ archive' = [i \in 1 .. Iterations |->
                           IF i < s THEN archive[i] ELSE None]
    BY <1>1 DEF Launch
  <2> DEFINE dropped == {i \in 1 .. Iterations : i >= s}
  <2>2. dropped \in SUBSET {i \in 1 .. Iterations : \A j \in scored : j < i}
    BY <2>1 DEF TypeInv, TypeOK
  <2>3. archive' = [i \in 1 .. Iterations |->
                      IF i \in dropped THEN None ELSE archive[i]]
    BY <2>1
  <2>4. pc = "down" /\ pc' = "begin" /\ scored' = scored
    BY <1>1 DEF Launch
  <2> HIDE DEF dropped
  <2>5. Sourced!Clean
    BY <2>2, <2>3, <2>4 DEF Sourced!Clean
  <2> QED
    BY <2>5 DEF Sourced!SourceNext
<1>2. CASE Begin
  <2>1. /\ iter \in 1 .. Iterations /\ iter' = iter
        /\ archive[iter] = None /\ archive' = archive /\ scored' = scored
        /\ \A j \in scored : j < iter
        /\ pc = "begin" /\ pc' = "build"
    BY <1>2 DEF Begin, process, AheadInv, StoreInv, TypeInv, Positions
  <2>2. Sourced!Begin(iter)
    BY <2>1 DEF Sourced!Begin
  <2> QED
    BY <2>1, <2>2 DEF Sourced!SourceNext
<1>3. CASE \/ Build \/ CallAgent \/ AwaitReset \/ RepairMissing \/ RepairInvalid
           \/ AcceptAccess \/ RetryAfterViolation \/ RecordDiff
  <2>1. /\ pc \in {"build", "call", "wait", "judge", "diff", "decide"}
        /\ pc' \in {"build", "call", "wait", "judge", "archive", "decide"}
        /\ archive' = archive /\ scored' = scored /\ iter' = iter
    BY <1>3
    DEF Build, CallAgent, AwaitReset, RepairMissing, RepairInvalid, Repair,
        AcceptAccess, RetryAfterViolation, Judged, RecordDiff, disk, process
  <2> QED
    BY <2>1
<1>4. CASE Archive
  <2> DEFINE s == [files |-> workspace.changed, foul |-> workspace.foul]
  <2>1. s \in Snapshot
    BY DEF TypeInv, TypeOK, Workspaces, Snapshot
  <2>2. /\ pc = "archive" /\ pc' = "diff" /\ scored' = scored /\ iter' = iter
        /\ archive' = [archive EXCEPT ![iter] = s]
    BY <1>4 DEF Archive, process
  <2> HIDE DEF s
  <2>3. Sourced!Keep(s)
    BY <2>2 DEF Sourced!Keep
  <2> QED
    BY <2>1, <2>3 DEF Sourced!SourceNext
<1>5. CASE Accept
  <2>1. /\ pc = "decide" /\ pc' = "evaluate" /\ scored' = scored /\ iter' = iter
        /\ archive' = archive /\ iter \in 1 .. Iterations
        /\ archive[iter] \in Snapshot
    BY <1>0, <1>5 DEF Accept, disk, process, StoreInv, TypeInv, Positions
  <2>2. archive' = [archive EXCEPT ![iter] = archive[iter]]
    BY <1>0, <2>1
  <2>3. Sourced!Offer
    BY <2>1, <2>2 DEF Sourced!Offer
  <2> QED
    BY <2>3 DEF Sourced!SourceNext
<1>6. CASE Evaluate
  <2>1. /\ pc = "evaluate" /\ pc' = "begin" /\ archive' = archive
        /\ scored' = scored \cup {iter} \/ scored' = scored
    BY <1>6 DEF Evaluate, NextIteration
  <2>2. Sourced!Score \/ Sourced!GiveUp
    BY <2>1 DEF Sourced!Score, Sourced!GiveUp, Sourced!Ended
  <2> QED
    BY <2>2 DEF Sourced!SourceNext
<1>7. CASE RejectAfterViolation \/ ProposerFailed
  <2>1. /\ pc \in {"judge", "decide"} /\ pc' = "begin"
        /\ archive' = archive /\ scored' = scored
    BY <1>7
    DEF RejectAfterViolation, Judged, ProposerFailed, NextIteration, disk
  <2>2. Sourced!GiveUp
    BY <2>1 DEF Sourced!GiveUp, Sourced!Ended
  <2> QED
    BY <2>2 DEF Sourced!SourceNext
<1>8. CASE Crash
  <2>1. pc' = "down" /\ archive' = archive /\ scored' = scored
    BY <1>8 DEF Crash, disk
  <2>2. CASE Phase = "idle"
    BY <2>1, <2>2
  <2>3. CASE Phase # "idle"
    <3>1. Sourced!GiveUp
      BY <2>1, <2>3 DEF Sourced!GiveUp, Sourced!Ended
    <3> QED
      BY <3>1 DEF Sourced!SourceNext
  <2> QED
    BY <2>2, <2>3
<1>9. CASE Complete
  BY <1>9 DEF Complete, disk, process
<1>10. CASE UNCHANGED vars
  BY <1>10 DEF vars, disk, process
<1> QED
  BY <1>1, <1>2, <1>3, <1>4, <1>5, <1>6, <1>7, <1>8, <1>9, <1>10
  DEF Next, Step, Finished

(* Any number of calls, waits, retries and repairs in an iteration, and of  *)
(* crashes between them, is one iteration of SourceLedger: it begins with   *)
(* nothing archived and touches the source of no scored iteration.          *)
THEOREM CallsKeepSources == Spec => KeepsSources
<1>1. Init => Sourced!SourceInit
  BY DEF Init, Sourced!SourceInit, Phase
<1> QED
  BY <1>1, SourcedStep, TypeInvariant, StoreInvariant, AheadInvariant, PTL
  DEF Spec, KeepsSources, Sourced!SourceSpec, At

-----------------------------------------------------------------------------
(* The run moves on *)

(* Whoever moves forward in this order is never back.                       *)
LEMMA NeverBack ==
  ASSUME NEW n \in Nat, NEW a \in [1 .. n -> Int], NEW b \in [1 .. n -> Int],
         NEW c \in [1 .. n -> Int], Precedes(a, b)
  PROVE  a # b /\ (Precedes(b, c) => Precedes(a, c))
<1>1. PICK i \in 1 .. n : a[i] < b[i] /\ \A j \in 1 .. i - 1 : a[j] = b[j]
  BY DEF Precedes
<1>2. a # b
  BY <1>1
<1>3. ASSUME Precedes(b, c) PROVE Precedes(a, c)
  <2>1. PICK k \in 1 .. n : b[k] < c[k] /\ \A j \in 1 .. k - 1 : b[j] = c[j]
    BY <1>3 DEF Precedes
  <2>2. CASE i <= k
    <3>1. a[i] < c[i]
      BY <1>1, <2>1, <2>2
    <3>2. \A j \in 1 .. i - 1 : a[j] = c[j]
      BY <1>1, <2>1, <2>2
    <3> QED
      BY <3>1, <3>2 DEF Precedes
  <2>3. CASE k < i
    <3>1. a[k] < c[k]
      BY <1>1, <2>1, <2>3
    <3>2. \A j \in 1 .. k - 1 : a[j] = c[j]
      BY <1>1, <2>1, <2>3
    <3> QED
      BY <3>1, <3>2 DEF Precedes
  <2> QED
    BY <2>2, <2>3
<1> QED
  BY <1>2, <1>3

LEMMA Coordinates ==
  ASSUME TypeInv
  PROVE  /\ crashes \in Nat /\ iter \in 0 .. Iterations + 1 /\ Prompt \in 0 .. 2
         /\ attempt \in 1 .. MaxAttempts /\ retries \in 0 .. MaxRetries
         /\ Stride \in 0 .. 10
BY DEF TypeInv, TypeOK, Prompt, Stride

(* The first place that differs decides. *)
LEMMA Forward ==
  ASSUME \/ crashes < crashes'
         \/ /\ crashes' = crashes
            /\ \/ iter < iter'
               \/ /\ iter' = iter
                  /\ \/ Prompt < Prompt'
                     \/ /\ Prompt' = Prompt
                        /\ \/ attempt < attempt'
                           \/ /\ attempt' = attempt
                              /\ \/ retries < retries'
                                 \/ retries' = retries /\ Stride < Stride'
  PROVE  Precedes(Place, Place')
<1>1. DOMAIN Place = 1 .. 6
  BY DEF Place
<1>2. /\ Place[1] = crashes /\ Place[2] = iter /\ Place[3] = Prompt
      /\ Place[4] = attempt /\ Place[5] = retries /\ Place[6] = Stride
  BY DEF Place
<1>3. /\ Place'[1] = crashes' /\ Place'[2] = iter' /\ Place'[3] = Prompt'
      /\ Place'[4] = attempt' /\ Place'[5] = retries' /\ Place'[6] = Stride'
  BY DEF Place
<1>4. PICK k \in 1 .. 6 : /\ Place[k] < Place'[k]
                          /\ k > 1 => Place[1] = Place'[1]
                          /\ k > 2 => Place[2] = Place'[2]
                          /\ k > 3 => Place[3] = Place'[3]
                          /\ k > 4 => Place[4] = Place'[4]
                          /\ k > 5 => Place[5] = Place'[5]
  BY <1>2, <1>3
<1>5. \A j \in 1 .. k - 1 : j = 1 \/ j = 2 \/ j = 3 \/ j = 4 \/ j = 5
  BY <1>4
<1>6. \A j \in 1 .. k - 1 : Place[j] = Place'[j]
  BY <1>4, <1>5
<1> QED
  BY <1>1, <1>4, <1>6 DEF Precedes

(* A launch counts from nothing, and crashes are bounded. *)
LaunchInv == crashes \in 0 .. MaxCrashes /\ (pc = "down" => iter = 0)

LEMMA LaunchInvariant == Spec => []LaunchInv
<1>1. Init => LaunchInv
  BY RetryAssumption DEF Init, LaunchInv
<1>2. TypeInv /\ LaunchInv /\ [Next]_vars => LaunchInv'
  <2> SUFFICES ASSUME TypeInv, LaunchInv, [Next]_vars
               PROVE  LaunchInv'
    OBVIOUS
  <2> USE RetryAssumption DEF LaunchInv
  <2>1. CASE Step
    <3>1. crashes' = crashes /\ pc' # "down"
      BY <2>1
      DEF Step, Launch, Begin, Build, CallAgent, AwaitReset, AcceptAccess,
          RetryAfterViolation, RejectAfterViolation, Judged, NextIteration,
          Archive, RecordDiff, RepairMissing, RepairInvalid, Repair,
          ProposerFailed, Accept, Evaluate, Complete
    <3> QED
      BY <3>1
  <2>2. CASE Crash
    BY <2>2 DEF Crash
  <2>3. CASE UNCHANGED vars
    BY <2>3 DEF vars, process
  <2> QED
    BY <2>1, <2>2, <2>3 DEF Next, Finished
<1> QED
  BY <1>1, <1>2, TypeInvariant, PTL DEF Spec

LEMMA StepForward ==
  ASSUME TypeInv, PendingInv, LaunchInv, Step
  PROVE  Precedes(Place, Place')
<1> USE DEF TypeInv, TypeOK, Positions
<1>1. CASE Launch
  BY <1>1, Forward DEF Launch, LaunchInv
<1>2. CASE Begin \/ Build \/ Complete \/ Accept
  <2>1. /\ crashes' = crashes /\ iter' = iter /\ stage' = stage
        /\ attempt' = attempt /\ retries' = retries
        /\ Stride < Stride'
    BY <1>2 DEF Begin, Build, Complete, Accept, process, Stride
  <2> QED
    BY <2>1, Forward DEF Prompt
<1>3. CASE CallAgent \/ AcceptAccess \/ Archive \/ RecordDiff
  <2>1. /\ crashes' = crashes /\ iter' = iter /\ stage' = stage
        /\ attempt' = attempt /\ retries' = retries
    BY <1>3 DEF CallAgent, AcceptAccess, Judged, Archive, RecordDiff, process
  <2>2. \/ pc = "call" /\ pc' \in {"wait", "judge"}
        \/ pc = "judge" /\ pc' = "archive"
        \/ pc = "archive" /\ pc' = "diff"
        \/ pc = "diff" /\ pc' = "decide"
    BY <1>3 DEF CallAgent, AcceptAccess, Judged, Archive, RecordDiff
  <2>3. Stride < Stride'
    BY <2>2 DEF Stride
  <2> QED
    BY <2>1, <2>3, Forward DEF Prompt
<1>4. CASE AwaitReset
  <2>1. /\ crashes' = crashes /\ iter' = iter /\ stage' = stage
        /\ attempt' = attempt /\ retries < retries'
    BY <1>4 DEF AwaitReset
  <2> QED
    BY <2>1, Forward DEF Prompt
<1>5. CASE RetryAfterViolation
  <2>1. /\ crashes' = crashes /\ iter' = iter /\ stage' = stage
        /\ attempt < attempt'
    BY <1>5 DEF RetryAfterViolation, Judged
  <2> QED
    BY <2>1, Forward DEF Prompt
<1>6. CASE RejectAfterViolation \/ ProposerFailed \/ Evaluate
  <2>1. crashes' = crashes /\ iter < iter'
    BY <1>6
    DEF RejectAfterViolation, Judged, ProposerFailed, Evaluate, NextIteration
  <2> QED
    BY <2>1, Forward
<1>7. CASE RepairMissing \/ RepairInvalid
  <2>1. crashes' = crashes /\ iter' = iter
    BY <1>7 DEF RepairMissing, RepairInvalid, Repair
  <2>2. Prompt < Prompt'
    BY <1>7
    DEF RepairMissing, RepairInvalid, MayRepairInvalid, Repair, Prompt, Stages
  <2> QED
    BY <2>1, <2>2, Forward
<1> QED
  BY <1>1, <1>2, <1>3, <1>4, <1>5, <1>6, <1>7 DEF Step

(* Whatever the agent returns and wherever the process dies, every step     *)
(* takes the run past all it did before, and no run gets past the last of   *)
(* finitely many places.                                                    *)
THEOREM CallsMoveOn == Spec => MovesOn
<1>1. TypeInv /\ LaunchInv => Place \in Places
  BY Coordinates DEF LaunchInv, Place, Places
<1>2. TypeInv /\ PendingInv /\ LaunchInv /\ [Next]_vars
        => [Precedes(Place, Place')]_vars
  <2> SUFFICES ASSUME TypeInv, PendingInv, LaunchInv, Next
               PROVE  [Precedes(Place, Place')]_vars
    OBVIOUS
  <2>1. CASE Step
    BY <2>1, StepForward
  <2>2. CASE Crash
    <3>1. crashes < crashes'
      BY <2>2 DEF Crash, TypeInv, TypeOK
    <3> QED
      BY <3>1, Forward
  <2>3. CASE Finished
    BY <2>3 DEF Finished
  <2> QED
    BY <2>1, <2>2, <2>3 DEF Next
<1> QED
  BY <1>1, <1>2, TypeInvariant, PendingInvariant, LaunchInvariant, PTL
  DEF Spec, MovesOn
=============================================================================
