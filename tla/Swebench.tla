------------------------------ MODULE Swebench ------------------------------
(***************************************************************************)
(* A SWE-bench run: in each iteration a proposer edits a snapshot of       *)
(* mini-SWE-agent, which may start from that of an earlier iteration, and  *)
(* the candidate is run and graded on the instances, several at a time.    *)
(*                                                                         *)
(* Two things outlive an attempt at an iteration. The snapshot holds a     *)
(* copy of the script that grades ("the gate"), which is compared with the *)
(* trusted one after the evaluation and put right. The directory of an     *)
(* instance holds the patch, which is what is graded. The run may crash    *)
(* anywhere and is resumed; the command of the agent is external.          *)
(***************************************************************************)
EXTENDS Integers

CONSTANTS Instances, Iterations, MaxCrashes

VARIABLES pc, iteration,
          writes,     \* does the agent command write the patch file itself?
          base,       \* iteration the snapshot starts from, 0 for upstream
          gate,       \* the gate in the archived snapshot of an iteration; 0: upstream
          source,     \* iteration whose snapshot the proposal names, or 0
          attempt,    \* counts the attempts at iterations
          patch,      \* iteration, instance -> attempt that made the patch file, 0: none
          runs,       \* instance -> what became of it in this evaluation
          stored,     \* candidate_results: iteration -> the graded patches, or NotStored
          flag,       \* candidates in memory: is reward_hack_attempt set?
          edited,     \* history: iterations whose candidate has a gate that was touched
          crashes

vars == <<pc, iteration, writes, base, gate, source, attempt, patch, runs, stored, flag,
          edited, crashes>>

Steps == 1..Iterations
Sources == 0..Iterations
NotStored == [i \in Instances |-> -1]   \* no candidate_results file
NotRun == [state |-> "waiting", passed |-> FALSE, graded |-> 0]
Completed == {n \in Steps : stored[n] # NotStored}

Init ==
  /\ pc = "snapshot" /\ iteration = 1 /\ writes \in BOOLEAN /\ base = 0
  /\ gate = [n \in Sources |-> "missing"] /\ source = 0 /\ attempt = 1
  /\ patch = [n \in Steps |-> [i \in Instances |-> 0]]
  /\ runs = [i \in Instances |-> NotRun]
  /\ stored = [n \in Steps |-> NotStored]
  /\ flag = [n \in Steps |-> FALSE] /\ edited = {} /\ crashes = 0

-----------------------------------------------------------------------------
(* The snapshot of a base keeps the gate that was archived with it. *)
FaultMirrored(parent) == IF parent = 0 THEN "trusted" ELSE gate[parent]

(* _mirror_eval_script_into_candidate, which follows each copy. *)
Mirrored(parent) == "trusted"

(* _build_source_snapshot_workspace *)
BuildSnapshot ==
  /\ pc = "snapshot" /\ iteration <= Iterations
  /\ base' \in {0} \cup Completed
  /\ gate' = [gate EXCEPT ![iteration] = Mirrored(base')]
  /\ pc' = "proposing"
  /\ UNCHANGED <<iteration, writes, source, attempt, patch, runs, stored, flag, edited, crashes>>

(* External: the proposer edits or removes the gate, or leaves it, and      *)
(* names its snapshot as the source of the candidate. If it does not,       *)
(* _normalize_candidate_source_project_path names upstream.                 *)
Edit ==
  /\ pc = "proposing"
  /\ source' \in {0, iteration}
  /\ \E g \in {"trusted", "edited", "missing"} :
       /\ gate' = [gate EXCEPT ![iteration] = g]
       /\ edited' = IF g # "trusted" /\ source' = iteration THEN edited \cup {iteration}
                    ELSE edited
  /\ runs' = [i \in Instances |-> NotRun]
  /\ pc' = "evaluate"
  /\ UNCHANGED <<iteration, writes, base, attempt, patch, stored, flag, crashes>>

(* _candidate_code_policy_violations: the gate itself is not scanned. A     *)
(* candidate that is rejected here, or whose source is not found, leaves no *)
(* result.                                                                  *)
Reject ==
  /\ pc = "evaluate" /\ \A i \in Instances : runs[i] = NotRun
  /\ pc' = "snapshot" /\ iteration' = iteration + 1 /\ attempt' = attempt + 1
  /\ UNCHANGED <<writes, base, gate, source, patch, runs, stored, flag, edited, crashes>>

-----------------------------------------------------------------------------
(* _run_agent, first the command of the agent. Its patch is the file it     *)
(* writes, which it may not come to if it fails, or what it prints if there *)
(* is no such file.                                                         *)
RunAgent ==
  /\ pc = "evaluate"
  /\ \E i \in Instances, ok \in BOOLEAN :
       /\ runs[i].state = "waiting"
       /\ patch' = [patch EXCEPT ![iteration][i] =
                      IF (writes /\ ok) \/ @ = 0 THEN attempt ELSE @]
       /\ runs' = [runs EXCEPT ![i].state = IF ok THEN "ok" ELSE "failed"]
  /\ UNCHANGED <<pc, iteration, writes, base, gate, source, attempt, stored, flag, edited, crashes>>

(* The command is killed at the limit of time: an empty patch file unless   *)
(* there is one, and the instance is not graded.                            *)
TimeOut ==
  /\ pc = "evaluate"
  /\ \E i \in Instances :
       /\ runs[i].state = "waiting"
       /\ patch' = [patch EXCEPT ![iteration][i] = IF @ = 0 THEN attempt ELSE @]
       /\ runs' = [runs EXCEPT ![i].state = "graded"]
  /\ UNCHANGED <<pc, iteration, writes, base, gate, source, attempt, stored, flag, edited, crashes>>

(* Whether it passed: both commands must succeed. *)
IsPassed(state, resolved) == state = "ok" /\ resolved

(* The command that grades, by the trusted script (_rewrite_eval_entry_     *)
(* to_abs), whatever the gate; it may fail or run out of time.              *)
Grade ==
  /\ pc = "evaluate"
  /\ \E i \in Instances, resolved \in BOOLEAN :
       /\ runs[i].state \in {"ok", "failed"}
       /\ runs' = [runs EXCEPT ![i] =
                     [state |-> "graded", passed |-> IsPassed(@.state, resolved),
                      graded |-> patch[iteration][i]]]
  /\ UNCHANGED <<pc, iteration, writes, base, gate, source, attempt, patch, stored, flag, edited, crashes>>

(* evaluate_candidate: the result is stored when every instance is done. *)
StoreResult ==
  /\ pc = "evaluate" /\ \A i \in Instances : runs[i].state = "graded"
  /\ stored' = [stored EXCEPT ![iteration] =
                  [i \in Instances |-> IF runs[i].passed THEN runs[i].graded ELSE 0]]
  /\ pc' = "tag"
  /\ UNCHANGED <<iteration, writes, base, gate, source, attempt, patch, runs, flag, edited, crashes>>

(* detect_eval_script_tampering *)
Tampered == gate[source] # "trusted"

(* _tag_reward_hack_attempt: the flag is kept with the candidate in memory, *)
(* and the copy is put right unless that fails.                             *)
Tag ==
  /\ pc = "tag"
  /\ flag' = [flag EXCEPT ![iteration] = Tampered]
  /\ gate' \in {gate, [gate EXCEPT ![source] = "trusted"]}
  /\ pc' = "snapshot" /\ iteration' = iteration + 1 /\ attempt' = attempt + 1
  /\ UNCHANGED <<writes, base, source, patch, runs, stored, edited, crashes>>

-----------------------------------------------------------------------------
(* A crash and --resume: the candidates are loaded from their results, as   *)
(* they were stored, and the snapshots of the iterations to come removed.   *)
(* The directories of the instances stay.                                   *)
Relaunch ==
  /\ crashes < MaxCrashes
  /\ crashes' = crashes + 1 /\ attempt' = attempt + 1
  /\ iteration' \in 1..Iterations + 1
  /\ iteration' - 1 \in Completed \cup {0} /\ \A m \in Completed : m < iteration'
  /\ gate' = [n \in Sources |-> IF n < iteration' THEN gate[n] ELSE "missing"]
  /\ flag' = [n \in Steps |-> FALSE]
  /\ edited' = {n \in edited : n < iteration'}
  /\ pc' = "snapshot"
  /\ UNCHANGED <<writes, base, source, patch, runs, stored>>

Complete == pc = "snapshot" /\ iteration > Iterations /\ UNCHANGED vars

Next == \/ BuildSnapshot \/ Edit \/ Reject \/ RunAgent \/ TimeOut \/ Grade
        \/ StoreResult \/ Tag \/ Relaunch \/ Complete

Spec == Init /\ [][Next]_vars

-----------------------------------------------------------------------------
(* A proposer always starts from the trusted gate, also on the snapshot of  *)
(* an iteration whose proposer edited it and where a crash or an error kept *)
(* it from being put right.                                                 *)
StartsTrusted == pc = "proposing" => gate[iteration] = "trusted"

(* What is stored for a passed instance was graded on a patch of this very  *)
(* attempt at the iteration; only where the agent prints its patch can that *)
(* of an attempt that a crash cut short be graded again.                    *)
PassedOwnPatch ==
  pc = "tag" => \A i \in Instances :
     stored[iteration][i] \in {0, attempt} \/ (~writes /\ crashes > 0)

(* Without a crash a candidate that names its snapshot carries the flag     *)
(* exactly if its proposer touched the gate there.                          *)
FlagsTrue ==
  crashes = 0 /\ pc = "snapshot" /\ source = iteration - 1 /\ source \in Completed =>
     (flag[source] <=> source \in edited)

(* Edits of the copy are flagged in the score table, which is written from  *)
(* the candidates in memory.                                                *)
EditsFlagged == \A n \in Completed \cap edited : n < iteration => flag[n]
=============================================================================
