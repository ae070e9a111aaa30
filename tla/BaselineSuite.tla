---------------------------- MODULE BaselineSuite ----------------------------
(***************************************************************************)
(* The baseline command measures every seed scaffold several times, each   *)
(* time in a directory of its own, and uses again what it finds there; an  *)
(* optimization takes its seeds from such a suite.  The suite may crash    *)
(* and may be started again with another request in the same place.        *)
(*                                                                         *)
(* A measurement stands for its request: the number of examples and the    *)
(* model.  One split; the scaffolds have one configuration each.           *)
(***************************************************************************)
EXTENDS Integers, Functions

CONSTANTS
  Scaffolds, Models,
  Limits,        \* numbers of examples, --limit
  Repeats,       \* --repeats
  MaxLaunches,   \* bound on the launches
  None, Torn     \* no file, and a file that a crash cut short

VARIABLES
  pc,
  request,    \* of this launch: [limit, model, scaffolds, force]
  repeat,
  forced,     \* the force of this repeat
  taken,      \* of this repeat: scaffold -> its measurement
  results,    \* repeat -> scaffold -> candidate_results/<id>.json
  summaries,  \* repeat -> run_summary.json
  suite,      \* is there a baseline_summary.json?
  launches,
  lost,       \* requests of the launches that crashed
  seeds       \* what an optimization loaded: [settled, from]

vars == <<pc, request, repeat, forced, taken, results, summaries, suite, launches, lost, seeds>>

Requests ==
  [limit : Limits, model : Models, scaffolds : (SUBSET Scaffolds) \ {{}}, force : BOOLEAN]

Measured(r) == [limit |-> r.limit, model |-> r.model]
Written(x) == x \notin {None, Torn}

Init ==
  /\ pc = "idle" /\ request \in {r \in Requests : r.scaffolds = Scaffolds /\ ~r.force}
  /\ repeat = 1 /\ forced = FALSE /\ taken = <<>>
  /\ results = [r \in 1..Repeats |-> [s \in Scaffolds |-> None]]
  /\ summaries = [r \in 1..Repeats |-> None]
  /\ suite = FALSE /\ launches = 0 /\ lost = {}
  /\ seeds = None

-----------------------------------------------------------------------------
(* run_baseline_suite *)

Launch ==
  /\ pc \in {"idle", "done"} /\ launches < MaxLaunches
  /\ request' \in Requests
  /\ launches' = launches + 1 /\ repeat' = 1 /\ pc' = "repeat"
  /\ UNCHANGED <<forced, taken, results, summaries, suite, lost, seeds>>

(* The request is compared without the model. *)
FaultMatches(summary) ==
  summary.limit = request.limit /\ DOMAIN summary.candidates = request.scaffolds

(* _summary_matches_request; the files it asks for are never removed.       *)
Matches(summary) ==
  /\ summary.limit = request.limit /\ summary.model = request.model
  /\ DOMAIN summary.candidates = request.scaffolds

(* A repeat that was done for this request is skipped. *)
ReuseRepeat ==
  /\ pc = "repeat" /\ repeat \in 1..Repeats
  /\ ~request.force /\ Written(summaries[repeat]) /\ Matches(summaries[repeat])
  /\ repeat' = repeat + 1
  /\ UNCHANGED <<pc, request, forced, taken, results, summaries, suite, launches, lost, seeds>>

(* One that was done for another request is measured anew, one that was not *)
(* done only where it must.                                                 *)
StartRepeat ==
  /\ pc = "repeat" /\ repeat \in 1..Repeats
  /\ \/ request.force \/ summaries[repeat] = None
     \/ Written(summaries[repeat]) /\ ~Matches(summaries[repeat])
  /\ forced' = (request.force \/ summaries[repeat] # None)
  /\ taken' = <<>> /\ pc' = "evaluate"
  /\ UNCHANGED <<request, repeat, results, summaries, suite, launches, lost, seeds>>

(* A summary that cannot be parsed ends the launch. *)
Raise ==
  /\ pc = "repeat" /\ repeat \in 1..Repeats /\ ~request.force
  /\ summaries[repeat] = Torn
  /\ pc' = "idle"
  /\ UNCHANGED <<request, repeat, forced, taken, results, summaries, suite, launches, lost, seeds>>

(* evaluate_scaffold: a stored result is taken by its id and configuration. *)
Evaluate(s) ==
  LET found == results[repeat][s] IN
  /\ pc = "evaluate" /\ s \in request.scaffolds \ DOMAIN taken
  /\ results' = [results EXCEPT ![repeat][s] =
                   IF ~forced /\ Written(found) THEN found ELSE Measured(request)]
  /\ taken' = [t \in DOMAIN taken \cup {s} |-> results'[repeat][t]]
  /\ UNCHANGED <<pc, request, repeat, forced, summaries, suite, launches, lost, seeds>>

(* run_initial_frontier, its end. *)
FinishRepeat ==
  /\ pc = "evaluate" /\ DOMAIN taken = request.scaffolds
  /\ summaries' = [summaries EXCEPT ![repeat] =
                     [limit |-> request.limit, model |-> request.model, candidates |-> taken]]
  /\ repeat' = repeat + 1 /\ pc' = "repeat"
  /\ UNCHANGED <<request, forced, taken, results, suite, launches, lost, seeds>>

FinishSuite ==
  /\ pc = "repeat" /\ repeat > Repeats
  /\ suite' = TRUE /\ pc' = "done"
  /\ UNCHANGED <<request, repeat, forced, taken, results, summaries, launches, lost, seeds>>

-----------------------------------------------------------------------------
ProcessLost ==
  /\ pc' = "idle" /\ lost' = lost \cup {Measured(request)}
  /\ UNCHANGED <<request, repeat, forced, taken, suite, launches, seeds>>

Crash == pc \in {"repeat", "evaluate"} /\ ProcessLost /\ UNCHANGED <<results, summaries>>

CrashInResult ==
  /\ pc = "evaluate"
  /\ \E s \in request.scaffolds \ DOMAIN taken :
       /\ forced \/ ~Written(results[repeat][s])
       /\ results' = [results EXCEPT ![repeat][s] = Torn]
  /\ ProcessLost /\ UNCHANGED summaries

CrashInSummary ==
  /\ pc = "evaluate" /\ DOMAIN taken = request.scaffolds
  /\ summaries' = [summaries EXCEPT ![repeat] = Torn]
  /\ ProcessLost /\ UNCHANGED results

-----------------------------------------------------------------------------
(* optimize --baseline-dir *)

Candidates(r) == IF summaries[r] = None THEN {}
                 ELSE {<<r, s>> : s \in DOMAIN summaries[r].candidates}
Candidate(c) == summaries[c[1]].candidates[c[2]]

(* load_baseline_candidates: of a suite the first repeat of each scaffold,  *)
(* of a directory without one all there is.                                 *)
Loaded ==
  LET all == UNION {Candidates(r) : r \in 1..Repeats}
  IN  IF suite THEN {c \in all : \A d \in all : d[2] = c[2] => c[1] <= d[1]} ELSE all

(* run: the number of examples of each candidate is compared. *)
Counted(limit) == \A c \in Loaded : Candidate(c).limit = limit

(* No launch has crashed but such as asked for the same. *)
Settled == pc = "done" /\ lost \subseteq {Measured(request)}

Load ==
  /\ pc \in {"idle", "done"} /\ seeds = None
  /\ Torn \notin {summaries[r] : r \in 1..Repeats}
  /\ Loaded # {}
  /\ \E limit \in Limits : Counted(limit)
  /\ seeds' = [settled |-> Settled,
               from |-> {[scaffold |-> c[2], repeat |-> c[1], measured |-> Candidate(c)] :
                           c \in Loaded}]
  /\ UNCHANGED <<pc, request, repeat, forced, taken, results, summaries, suite, launches, lost>>

Next == \/ Launch \/ ReuseRepeat \/ StartRepeat \/ Raise
        \/ \E s \in Scaffolds : Evaluate(s)
        \/ FinishRepeat \/ FinishSuite \/ Crash \/ CrashInResult \/ CrashInSummary \/ Load

Spec == Init /\ [][Next]_vars

-----------------------------------------------------------------------------
(* A suite that has ended holds what this request asks for, in all repeats, *)
(* measured with its model on its examples, whatever was measured there     *)
(* before and wherever launches crashed, as long as these asked for the     *)
(* same.                                                                    *)
SuiteIsRequested ==
  Settled => \A r \in 1..Repeats :
    summaries[r].candidates = [s \in request.scaffolds |-> Measured(request)]

(* The same after the crash of a launch that asked for something else.      *)
SuiteIsAlwaysRequested ==
  pc = "done" =>
    \A r \in 1..Repeats :
      summaries[r].candidates = [s \in request.scaffolds |-> Measured(request)]

(* An optimization that takes its seeds from such a suite gets every        *)
(* scaffold once, all of them measured alike.                               *)
SeedsSound ==
  seeds # None /\ seeds.settled =>
    /\ \A e, f \in seeds.from : e.scaffold = f.scaffold => e = f
    /\ \E e \in seeds.from : \A f \in seeds.from : f.measured = e.measured
=============================================================================
