------------------------------ MODULE Terminus ------------------------------
(***************************************************************************)
(* One iteration of a Terminal-Bench run: Harbor runs an agent scaffold on *)
(* every task a number of times, in one job that leaves a directory per    *)
(* trial; the result of the candidate is read from those directories when  *)
(* the job has ended. A run that crashes before the result is stored does  *)
(* the iteration again: another proposer writes other code, often under    *)
(* the same name. Harbor is external; what it does with the trials of an   *)
(* earlier job of the same name is left open.                              *)
(***************************************************************************)
EXTENDS Naturals, FiniteSets

CONSTANTS Tasks, Trials,  \* --rollout-trials
          Launches        \* bound on the launches of the run

VARIABLES pc,        \* where the evaluation is
          force,     \* --force
          version,   \* of the candidate's code, new at every launch
          foul,      \* does a file under agents/ name what it must not?
          trials,    \* the directories of the job
          jobs,      \* versions of the code that a job was started for
          result     \* candidate_results/<id>.json

vars == <<pc, force, version, foul, trials, jobs, result>>

NoResult == [version |-> 0, passed |-> 0, total |-> 0, count |-> 0]
Instances == Tasks \X (1..Trials)

Init ==
  /\ pc = "propose" /\ force \in BOOLEAN /\ version = 1
  /\ foul = FALSE /\ trials = <<>> /\ jobs = {} /\ result = NoResult

(* External: the proposer. *)
Propose ==
  /\ pc = "propose"
  /\ foul' \in BOOLEAN
  /\ pc' = "evaluate"
  /\ UNCHANGED <<force, version, trials, jobs, result>>

(* _candidate_code_policy_violations *)
PolicyViolated == foul

(* _evaluate_proposed *)
Reject ==
  /\ pc = "evaluate" /\ PolicyViolated
  /\ pc' = "rejected"
  /\ UNCHANGED <<force, version, foul, trials, jobs, result>>

(* With --force what an earlier job left is removed. *)
Kept == IF force THEN <<>> ELSE trials

(* _run_harbor *)
RunHarbor ==
  /\ pc = "evaluate" /\ ~PolicyViolated
  /\ trials' \in {Kept, <<>>}
  /\ jobs' = jobs \cup {version}
  /\ pc' = "job"
  /\ UNCHANGED <<force, version, foul, result>>

(* External: Harbor starts and ends trials in any order, several at a time. *)
(* The result of a trial may have no reward.                                *)
StartTrial ==
  /\ pc = "job"
  /\ \E t \in Instances \ DOMAIN trials :
       trials' = [u \in DOMAIN trials \cup {t} |->
                    IF u = t THEN [version |-> version, reward |-> "none"] ELSE trials[u]]
  /\ UNCHANGED <<pc, force, version, foul, jobs, result>>

EndTrial ==
  /\ pc = "job"
  /\ \E t \in DOMAIN trials, reward \in {"zero", "positive"} :
       /\ trials[t] = [version |-> version, reward |-> "none"]
       /\ trials' = [trials EXCEPT ![t] = [version |-> version, reward |-> reward]]
  /\ UNCHANGED <<pc, force, version, foul, jobs, result>>

(* Harbor ends, perhaps with an error, or is killed at the limit of time.   *)
(* Its exit status is written to a log and not looked at.                   *)
EndJob ==
  /\ pc = "job"
  /\ pc' = "parse"
  /\ UNCHANGED <<force, version, foul, trials, jobs, result>>

(* parse_terminus_job_dir: a directory without a reward did not pass. *)
Passed == {t \in DOMAIN trials : trials[t].reward = "positive"}

(* _finalize: the rates are over the directories, the count is of tasks. *)
Finalized ==
  [version |-> version, passed |-> Cardinality(Passed),
   total |-> Cardinality(DOMAIN trials),
   count |-> Cardinality({t[1] : t \in DOMAIN trials})]

(* evaluate_candidate *)
EvaluateCandidate ==
  /\ pc = "parse"
  /\ result' = Finalized
  /\ pc' = "done"
  /\ UNCHANGED <<force, version, foul, trials, jobs>>

(* A crash and --resume: without a stored result the iteration runs again.  *)
Relaunch ==
  /\ pc # "done" /\ version < Launches
  /\ version' = version + 1 /\ pc' = "propose"
  /\ UNCHANGED <<force, foul, trials, jobs, result>>

Done == pc \in {"done", "rejected"} /\ UNCHANGED vars

Next == \/ Propose \/ Reject \/ RunHarbor \/ StartTrial \/ EndTrial \/ EndJob
        \/ EvaluateCandidate \/ Relaunch \/ Done

Spec == Init /\ [][Next]_vars

-----------------------------------------------------------------------------
(* With --force, and in a run that was never interrupted, every trial a     *)
(* result is made of ran the code that the result is stored for: what an    *)
(* aborted attempt at the iteration left is not counted.                    *)
OwnTrialsOnly ==
  pc = "done" /\ (force \/ jobs = {version}) =>
    \A t \in DOMAIN trials : trials[t].version = result.version

(* The count of a stored result is the size of the evaluation set.          *)
CountIsExamples == pc = "done" => result.count = Cardinality(Tasks)
=============================================================================
