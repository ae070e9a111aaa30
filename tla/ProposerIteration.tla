-------------------------- MODULE ProposerIteration --------------------------
(***************************************************************************)
(* What OptimizerRun calls Propose: the calls of the coding agent that one *)
(* iteration makes (_run_progressive_proposer_iteration), from the fresh   *)
(* workspace to the proposal that is handed to the evaluator, with the     *)
(* retry after an access violation, the repair calls for a missing or an   *)
(* unreadable pending_eval.json, the waits for a usage limit, and crashes. *)
(*                                                                         *)
(* The agent is an external program: a call leaves any files behind and    *)
(* ends in any way.  A source is the set of files in which it differs from *)
(* the original the workspace was built with.                              *)
(***************************************************************************)
EXTENDS Integers, Lexicographic

CONSTANTS
  Iterations,    \* config.iterations
  MaxAttempts,   \* max_attempts
  MaxRetries,    \* config.rate_limit_max_retries
  Files,         \* source files an agent may change
  MaxCrashes,    \* bound: crashes of one behaviour
  None           \* nothing there

ASSUME LoopAssumption  == Iterations \in Nat /\ MaxAttempts \in Nat \ {0}
ASSUME RetryAssumption == MaxRetries \in Nat /\ MaxCrashes \in Nat

VARIABLES
  (* the run directory *)
  pendingEval,    \* pending_eval.json of the run
  archive,        \* proposer_calls/iter_NNN/source_snapshot
  diffRows,       \* diff_summary.jsonl, by iteration
  modifications,  \* RunStore modifications, the files of diff_text
  modifiedFiles,  \* RunStore modified_files
  callRow,        \* RunStore proposer_calls
  scored,         \* iterations with a file in candidate_results/
  workspace,      \* proposer_calls/iter_NNN/workspace
  (* the process *)
  pc, iter,
  attempt,
  stage,          \* which prompt the agent is given
  retries,        \* usage-limit retries of this prompt
  result,         \* what the last call returned
  calls,          \* prompts whose result was looked at, this iteration
  crashes

store   == <<modifications, modifiedFiles, callRow>>
disk    == <<pendingEval, archive, diffRows, scored, store>>
process == <<iter, attempt, stage, retries, result, calls>>
vars    == <<disk, workspace, pc, process, crashes>>

Steps == {"down", "begin", "build", "call", "wait", "judge", "archive",
          "diff", "decide", "evaluate", "done"}

Stages == {"main", "missing", "invalid"}

(* What json.loads and _pending_candidates make of the file: "empty" is     *)
(* valid JSON without a candidate; further candidates are dropped.          *)
Contents == {"absent", "invalid", "empty", "candidate"}

(* foul: an access violation was reported for the call, or an earlier one   *)
(* in the same workspace.                                                   *)
Workspaces == [changed : SUBSET Files, pending : Contents, foul : BOOLEAN]

Result == [ok : BOOLEAN, violation : BOOLEAN, limited : BOOLEAN]

(* What the RunStore keeps of a result: a usage limit has no column. *)
CallRow == [ok : BOOLEAN, violation : BOOLEAN]

CallRowOf(r) == [ok |-> r.ok, violation |-> r.violation]

Pending ==
  [content : Contents, iter : 0 .. Iterations, launch : Nat, foul : BOOLEAN]

(* The diff of a source against its original. *)
Diff == [files : SUBSET Files]

Snapshot == [files : SUBSET Files, foul : BOOLEAN]

ASSUME NoneAssumption == None \notin Diff \cup Snapshot \cup CallRow

TypeOK ==
  /\ pendingEval \in Pending
  /\ archive \in [1 .. Iterations -> Snapshot \cup {None}]
  /\ diffRows \in [1 .. Iterations -> Diff \cup {None}]
  /\ modifications \in [1 .. Iterations -> Diff \cup {None}]
  /\ modifiedFiles \in [1 .. Iterations -> SUBSET Files]
  /\ callRow \in [1 .. Iterations -> CallRow \cup {None}]
  /\ scored \subseteq 1 .. Iterations
  /\ workspace \in Workspaces
  /\ pc \in Steps
  /\ iter \in 0 .. Iterations + 1
  /\ attempt \in 1 .. MaxAttempts
  /\ stage \in Stages
  /\ retries \in 0 .. MaxRetries
  /\ result \in Result
  /\ calls \in Nat
  /\ crashes \in Nat

-----------------------------------------------------------------------------
NoPending == [content |-> "absent", iter |-> 0, launch |-> 0, foul |-> FALSE]

FreshWorkspace == [changed |-> {}, pending |-> "absent", foul |-> FALSE]

NoResult == [ok |-> FALSE, violation |-> FALSE, limited |-> FALSE]

Init ==
  /\ pendingEval = NoPending
  /\ archive = [i \in 1 .. Iterations |-> None]
  /\ diffRows = [i \in 1 .. Iterations |-> None]
  /\ modifications = [i \in 1 .. Iterations |-> None]
  /\ modifiedFiles = [i \in 1 .. Iterations |-> {}]
  /\ callRow = [i \in 1 .. Iterations |-> None]
  /\ scored = {}
  /\ workspace = FreshWorkspace
  /\ pc = "down"
  /\ iter = 0
  /\ attempt = 1
  /\ stage = "main"
  /\ retries = 0
  /\ result = NoResult
  /\ calls = 0
  /\ crashes = 0

(* The values process variables have between two iterations. *)
Idle ==
  /\ attempt' = 1
  /\ stage' = "main"
  /\ retries' = 0
  /\ result' = NoResult
  /\ calls' = 0

NextIteration ==
  /\ iter' = iter + 1
  /\ Idle
  /\ workspace' = FreshWorkspace
  /\ pc' = "begin"

-----------------------------------------------------------------------------
(* Seeded faults: slips of the code below that the properties must notice.  *)
(* No action uses them.                                                     *)

(* The pending_eval.json of the run is left where it is. *)
FaultBegin ==
  /\ pc = "begin"
  /\ iter <= Iterations
  /\ pc' = "build"
  /\ UNCHANGED <<disk, workspace, process, crashes>>

(* A resumption that leaves what a lost attempt archived. *)
FaultLaunch ==
  /\ pc = "down"
  /\ \E s \in 1 .. Iterations + 1 :
       /\ \A i \in scored : i < s
       /\ s = 1 \/ s - 1 \in scored
       /\ iter' = s
       /\ diffRows' = [i \in 1 .. Iterations |->
                         IF i < s THEN diffRows[i] ELSE None]
  /\ pc' = "begin"
  /\ UNCHANGED <<pendingEval, archive, scored, store, workspace, attempt, stage,
                 retries, result, calls, crashes>>

(* A workspace that is only created when there is none. *)
FaultBuild ==
  /\ pc = "build"
  /\ pc' = "call"
  /\ UNCHANGED <<disk, workspace, process, crashes>>

(* Repairs without an end. *)
FaultMayRepairInvalid == result.ok /\ pendingEval.content = "invalid"

(* An archived source is not replaced. *)
FaultArchive ==
  /\ pc = "archive"
  /\ pendingEval' = IF workspace.pending = "absent" THEN pendingEval
                    ELSE [content |-> workspace.pending, iter |-> iter,
                          launch |-> crashes, foul |-> workspace.foul]
  /\ archive' = IF archive[iter] # None THEN archive
                ELSE [archive EXCEPT ![iter] = [files |-> workspace.changed,
                                                foul  |-> workspace.foul]]
  /\ pc' = "diff"
  /\ UNCHANGED <<diffRows, scored, store, workspace, process, crashes>>

(* The first diff of an iteration stays in the store. *)
FaultRecordDiff ==
  /\ pc = "diff"
  /\ LET diff == [files |-> archive[iter].files]
     IN  /\ modifications' = IF modifications[iter] # None THEN modifications
                             ELSE [modifications EXCEPT ![iter] = diff]
         /\ diffRows' = [diffRows EXCEPT ![iter] = diff]
  /\ modifiedFiles' = [modifiedFiles EXCEPT ![iter] =
                         @ \cup archive[iter].files]
  /\ pc' = "decide"
  /\ UNCHANGED <<pendingEval, archive, scored, callRow, workspace, process,
                 crashes>>

-----------------------------------------------------------------------------
(* max(completed) + 1, and _clean_stale_iteration_artifacts on a resume:    *)
(* the RunStore and the run's own pending_eval.json stay.                   *)
Launch ==
  /\ pc = "down"
  /\ \E s \in 1 .. Iterations + 1 :
       /\ \A i \in scored : i < s
       /\ s = 1 \/ s - 1 \in scored
       /\ iter' = s
       /\ archive' = [i \in 1 .. Iterations |->
                        IF i < s THEN archive[i] ELSE None]
       /\ diffRows' = [i \in 1 .. Iterations |->
                         IF i < s THEN diffRows[i] ELSE None]
  /\ pc' = "begin"
  /\ UNCHANGED <<pendingEval, scored, store, workspace, attempt, stage,
                 retries, result, calls, crashes>>

-----------------------------------------------------------------------------
(* One iteration *)

Begin ==
  /\ pc = "begin"
  /\ iter <= Iterations
  /\ pendingEval' = NoPending
  /\ pc' = "build"
  /\ UNCHANGED <<archive, diffRows, scored, store, workspace, process, crashes>>

(* _build_progressive_workspace: whatever was there is removed. *)
Build ==
  /\ pc = "build"
  /\ workspace' = FreshWorkspace
  /\ pc' = "call"
  /\ UNCHANGED <<disk, process, crashes>>

(* run_code_agent_prompt, in the workspace as the last call left it. *)
CallAgent ==
  /\ pc = "call"
  /\ \E changed \in SUBSET Files, pending \in Contents :
       workspace' = [workspace EXCEPT !.changed = changed,
                                      !.pending = pending]
  /\ result' \in Result
  /\ pc' = IF result'.limited /\ retries < MaxRetries THEN "wait" ELSE "judge"
  /\ UNCHANGED <<disk, iter, attempt, stage, retries, calls, crashes>>

(* The usage limit is waited out; the result of that call is not looked at. *)
AwaitReset ==
  /\ pc = "wait"
  /\ retries' = retries + 1
  /\ pc' = "call"
  /\ UNCHANGED <<disk, workspace, iter, attempt, stage, result, calls, crashes>>

(* _append_proposer_result_event and _proposer_access_violations. *)
Judged ==
  /\ pc = "judge"
  /\ callRow' = [callRow EXCEPT ![iter] = CallRowOf(result)]
  /\ UNCHANGED <<pendingEval, archive, diffRows, scored, modifications,
                 modifiedFiles, crashes>>

AcceptAccess ==
  /\ Judged
  /\ ~result.violation
  /\ calls' = calls + 1
  /\ pc' = "archive"
  /\ UNCHANGED <<workspace, iter, attempt, stage, retries, result>>

MayRetry == stage = "main" /\ attempt < MaxAttempts

RetryAfterViolation ==
  /\ Judged
  /\ result.violation
  /\ MayRetry
  /\ workspace' = [workspace EXCEPT !.foul = TRUE]
  /\ attempt' = attempt + 1
  /\ calls' = calls + 1
  /\ retries' = 0
  /\ pc' = "build"
  /\ UNCHANGED <<iter, stage, result>>

RejectAfterViolation ==
  /\ Judged
  /\ result.violation
  /\ ~MayRetry
  /\ NextIteration

(* _archive_workspace_outputs: the proposal, when there is one, and the     *)
(* source ...                                                               *)
Archive ==
  /\ pc = "archive"
  /\ pendingEval' = IF workspace.pending = "absent" THEN pendingEval
                    ELSE [content |-> workspace.pending, iter |-> iter,
                          launch |-> crashes, foul |-> workspace.foul]
  /\ archive' = [archive EXCEPT ![iter] = [files |-> workspace.changed,
                                           foul  |-> workspace.foul]]
  /\ pc' = "diff"
  /\ UNCHANGED <<diffRows, scored, store, workspace, process, crashes>>

(* ... and its diff, to the RunStore and to diff_summary.jsonl. *)
RecordDiff ==
  /\ pc = "diff"
  /\ LET diff == [files |-> archive[iter].files]
     IN  /\ modifications' = [modifications EXCEPT ![iter] = diff]
         /\ diffRows' = [diffRows EXCEPT ![iter] = diff]
  /\ modifiedFiles' = [modifiedFiles EXCEPT ![iter] =
                         @ \cup archive[iter].files]
  /\ pc' = "decide"
  /\ UNCHANGED <<pendingEval, archive, scored, callRow, workspace, process,
                 crashes>>

(* A further prompt in the same workspace. *)
Repair(s) ==
  /\ stage' = s
  /\ retries' = 0
  /\ pc' = "call"
  /\ UNCHANGED <<disk, workspace, iter, attempt, result, calls, crashes>>

RepairMissing ==
  /\ pc = "decide"
  /\ stage = "main" /\ result.ok /\ pendingEval.content = "absent"
  /\ Repair("missing")

MayRepairInvalid ==
  stage # "invalid" /\ result.ok /\ pendingEval.content = "invalid"

RepairInvalid ==
  /\ pc = "decide"
  /\ MayRepairInvalid
  /\ Repair("invalid")

ProposerFailed ==
  /\ pc = "decide"
  /\ \/ ~result.ok
     \/ pendingEval.content = "absent" /\ stage # "main"
     \/ pendingEval.content = "invalid" /\ stage = "invalid"
  /\ NextIteration
  /\ UNCHANGED <<disk, crashes>>

Accept ==
  /\ pc = "decide"
  /\ result.ok /\ pendingEval.content \in {"empty", "candidate"}
  /\ pc' = "evaluate"
  /\ UNCHANGED <<disk, workspace, process, crashes>>

(* _evaluate_proposed leaves a result, or rejects what it is given. *)
Evaluate ==
  /\ pc = "evaluate"
  /\ \/ pendingEval.content = "candidate" /\ scored' = scored \cup {iter}
     \/ UNCHANGED scored
  /\ NextIteration
  /\ UNCHANGED <<pendingEval, archive, diffRows, store, crashes>>

Complete ==
  /\ pc = "begin"
  /\ iter > Iterations
  /\ pc' = "done"
  /\ UNCHANGED <<disk, workspace, process, crashes>>

(* The process is gone; the workspace is not, but it is never read again.   *)
Crash ==
  /\ pc \notin {"down", "done"}
  /\ crashes < MaxCrashes
  /\ crashes' = crashes + 1
  /\ iter' = 0
  /\ Idle
  /\ pc' = "down"
  /\ UNCHANGED <<disk, workspace>>

Step ==
  \/ Launch \/ Begin \/ Build
  \/ CallAgent \/ AwaitReset
  \/ AcceptAccess \/ RetryAfterViolation \/ RejectAfterViolation
  \/ Archive \/ RecordDiff
  \/ RepairMissing \/ RepairInvalid \/ ProposerFailed \/ Accept
  \/ Evaluate \/ Complete

Finished == pc = "done" /\ UNCHANGED vars

Next == Step \/ Crash \/ Finished

(* A call ends within config.propose_timeout_s, a wait within               *)
(* config.rate_limit_max_wait_s, and an operator starts the run again.      *)
Spec == Init /\ [][Next]_vars /\ WF_vars(Step)

-----------------------------------------------------------------------------
(* Properties *)

(* The proposal that is evaluated was written in this iteration by an agent *)
(* of this launch: never one that an earlier iteration or a crashed launch  *)
(* left in the run's pending_eval.json.                                     *)
OwnProposal ==
  pc = "evaluate" => pendingEval.iter = iter /\ pendingEval.launch = crashes

(* The source that is scored and the proposal that describes it were left   *)
(* together by the last call, whichever of up to four calls that was.       *)
ScoredTogether ==
  pc = "evaluate" =>
    /\ archive[iter].files = workspace.changed
    /\ pendingEval.content = workspace.pending

(* Nothing that an agent wrote in a call that was turned down for leaving   *)
(* its workspace gets out of that workspace.                                *)
NothingFoulKept ==
  /\ ~pendingEval.foul
  /\ \A i \in 1 .. Iterations : archive[i] # None => ~archive[i].foul

(* The RunStore and diff_summary.jsonl show the source that was scored and  *)
(* the call that wrote it, over repairs and reruns of the iteration.        *)
StoreDescribesSource ==
  \A i \in scored :
    /\ archive[i] # None
    /\ modifications[i] = [files |-> archive[i].files]
    /\ diffRows[i] = modifications[i]
    /\ callRow[i] # None
    /\ callRow[i].ok /\ ~callRow[i].violation

(* An iteration asks the agent at most max_attempts times and then for each *)
(* of the two repairs once.                                                 *)
CallsBounded == calls <= MaxAttempts + 2

(* A retried iteration overwrites itself cleanly: the changed files the     *)
(* store lists are those of the diff it shows.                              *)
ChangedFilesMatchDiff ==
  \A i \in scored : modifiedFiles[i] = modifications[i].files

(* Where the run stands, from what a step may not take back to what it may. *)
Prompt == CASE stage = "main" -> 0 [] stage = "missing" -> 1 [] OTHER -> 2

Stride ==
  CASE pc = "down" -> 0 [] pc = "begin"   -> 1 [] pc = "build" -> 2
    [] pc = "call" -> 3 [] pc = "wait"    -> 4 [] pc = "judge" -> 5
    [] pc = "archive"  -> 6 [] pc = "diff" -> 7 [] pc = "decide" -> 8
    [] pc = "evaluate" -> 9 [] OTHER -> 10

Place == <<crashes, iter, Prompt, attempt, retries, Stride>>

Places ==
  (0 .. MaxCrashes) \X (0 .. Iterations + 1) \X (0 .. 2)
    \X (1 .. MaxAttempts) \X (0 .. MaxRetries) \X (0 .. 10)

(* No call, wait, retry, repair, crash or relaunch sets the run back to     *)
(* where it was, so there is a last one: what the agent returns and where   *)
(* the process dies decides how many there are, never whether they end.     *)
MovesOn == [][Precedes(Place, Place')]_vars /\ [](Place \in Places)

(* However the calls end, the run only moves on, and through to its end. *)
Ends == MovesOn /\ <>(pc = "done")

(* The calls of an iteration keep the promise of SourceLedger, as the one   *)
(* step does that OptimizerRun takes for them: retries, repairs and lost    *)
(* attempts leave the source of every result as it was scored.              *)
Phase ==
  CASE pc \in {"down", "begin", "done"} -> "idle"
    [] pc = "evaluate" -> "evaluate"
    [] OTHER -> "propose"

Sourced == INSTANCE SourceLedger
             WITH Last <- Iterations, Snapshots <- Snapshot, Nothing <- None,
                  source <- archive, phase <- Phase,
                  at <- IF Phase = "idle" THEN 0 ELSE iter

KeepsSources == Sourced!SourceSpec
=============================================================================
