---------------------------- MODULE SourceLedger ----------------------------
(***************************************************************************)
(* What a run directory promises about the sources it archives: an         *)
(* iteration begins behind all scored ones and without anything an earlier *)
(* attempt at it left, its source is archived by its own proposer before   *)
(* it is scored, and from then on stays for ever what was scored.          *)
(*                                                                         *)
(* OptimizerRun, for which a proposer call is one step, and                *)
(* ProposerIteration, which takes the call apart, both implement it: the   *)
(* one step stands for no more than the calls of the other can do.         *)
(***************************************************************************)
EXTENDS Integers

CONSTANTS
  Last,        \* the iterations are 1 .. Last
  Snapshots,   \* what may be archived
  Nothing      \* no archived source

VARIABLES
  source,   \* the archived source of each iteration
  scored,   \* the iterations that have a result
  phase,    \* "propose", "evaluate", or "idle" between iterations
  at        \* the running iteration, 0 when idle

SourceInit ==
  /\ source = [i \in 1 .. Last |-> Nothing]
  /\ scored = {}
  /\ phase = "idle"
  /\ at = 0

Begin(i) ==
  /\ phase = "idle"
  /\ \A j \in scored : j < i
  /\ source[i] = Nothing
  /\ phase' = "propose"
  /\ at' = i
  /\ UNCHANGED <<source, scored>>

(* Once for each call of the agent that is accepted. *)
Keep(s) ==
  /\ phase = "propose"
  /\ source' = [source EXCEPT ![at] = s]
  /\ UNCHANGED <<scored, phase, at>>

(* The proposal goes to the evaluator, with a source in the archive. *)
Offer ==
  /\ phase = "propose"
  /\ \E s \in Snapshots : source' = [source EXCEPT ![at] = s]
  /\ phase' = "evaluate"
  /\ UNCHANGED <<scored, at>>

Ended == phase' = "idle" /\ at' = 0

Score ==
  /\ phase = "evaluate"
  /\ scored' = scored \cup {at}
  /\ Ended
  /\ UNCHANGED source

(* No proposal, one that is turned down, or a crash. *)
GiveUp ==
  /\ phase # "idle"
  /\ \/ UNCHANGED source
     \/ phase = "propose" /\ \E s \in Snapshots : source' = [source EXCEPT ![at] = s]
  /\ Ended
  /\ UNCHANGED scored

(* A resumption drops what lies behind the last scored iteration, and may   *)
(* itself be cut short.                                                     *)
Clean ==
  /\ phase = "idle"
  /\ \E dropped \in SUBSET {i \in 1 .. Last : \A j \in scored : j < i} :
       source' = [i \in 1 .. Last |-> IF i \in dropped THEN Nothing ELSE source[i]]
  /\ UNCHANGED <<scored, phase, at>>

SourceNext ==
  \/ \E i \in 1 .. Last : Begin(i)
  \/ \E s \in Snapshots : Keep(s)
  \/ Offer \/ Score \/ GiveUp \/ Clean

SourceSpec == SourceInit /\ [][SourceNext]_<<source, scored, phase, at>>
=============================================================================
