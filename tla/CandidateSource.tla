--------------------------- MODULE CandidateSource ---------------------------
(***************************************************************************)
(* From what the agent leaves in its workspace to the code that is         *)
(* measured: generated modules are copied into the one directory the run   *)
(* keeps for them, the project source into the iteration's archive, paths  *)
(* of the proposal are rewritten to both, the code is scanned, and loaded  *)
(* into the process of the optimizer: on the train split at once, on the   *)
(* test split at the end of the run.                                       *)
(*                                                                         *)
(* The content of a file is the number of the proposal that wrote it.      *)
(* Generated modules lie at the top of their directory or in a package of  *)
(* it: all are copied and can be imported, not all are scanned.            *)
(***************************************************************************)
EXTENDS Integers, FiniteSetsExt

CONSTANTS
  Iterations,   \* number of iterations
  Modules,      \* names of modules an agent generates
  Nested,       \* those in a package below the top of generated/
  MaxProposals, \* bound on the proposals, those of lost iterations included
  None, Host    \* no content; the optimizer's own package

VARIABLES
  sandbox,      \* "none" or "docker"
  iteration, pc,
  proposals,    \* number of proposals so far
  foul,         \* content and place of every file with a forbidden marker
  generated,    \* run directory: module -> content
  archive,      \* iteration -> content of project_source, None
  base,         \* iteration whose project_source the workspace started from
  candidate,    \* the proposal at hand
  spec,         \* iteration -> the accepted proposal, None
  cached,       \* sys.modules: module -> content, None
  trained, tested  \* iteration -> the code that was measured, None

vars == <<sandbox, iteration, pc, proposals, foul, generated, archive, base,
          candidate, spec, cached, trained, tested>>

Iters == 1..Iterations

(* How a proposal names its code: a scaffold by its name, a module by its   *)
(* name or by a path; a path is relative, absolute on the host, or absolute *)
(* in the container. "package": the name of a nested module that does not   *)
(* spell its file, as that of a package does or one that begins with        *)
(* optimizer1.generated. The helper is a module that the code imports.      *)
(* project: does it name its project_source?                                *)
Proposal ==
  [kind : {"scaffold", "module", "package", "path"}, main : Modules,
   helper : Modules \cup {None}, project : BOOLEAN,
   form : {"relative", "host", "container"}]

OwnCode(c) == IF c.kind = "scaffold" THEN {} ELSE {c.main} \cup ({c.helper} \ {None})

(* _map_container_workspace_path, _resolve_workspace_path and the           *)
(* rewriting to the archive: does the path name a file on the host?         *)
Resolved(c) == c.form = "container" => sandbox = "docker"

(* A candidate that names no project runs in the optimizer's package. *)
Package(c, i) == IF c.project THEN archive[i] ELSE Host

-----------------------------------------------------------------------------
(* The code policy *)

Project == "project_source"

(* The file that module_path or module spells. *)
NamedFile(c) == IF c.kind \in {"module", "path"} THEN {c.main} ELSE {}

(* Only the module the proposal names is scanned. *)
FaultScanned(c, i) == {<<generated[m], m>> : m \in NamedFile(c)}

(* _candidate_policy_scan_paths: the module the proposal names, every       *)
(* module at the top of the run's directory, whoever wrote it, and the      *)
(* lines in which the project differs from the original.                    *)
Scanned(c, i) ==
  {<<generated[m], m>> : m \in NamedFile(c) \cup (Modules \ Nested)}
    \cup (IF c.project /\ Resolved(c) THEN {<<archive[i], Project>>} ELSE {})

PolicyViolated(c, i) == Scanned(c, i) \cap foul # {}

-----------------------------------------------------------------------------
(* Loading *)

(* A helper is imported by its name, from sys.modules if it is there. *)
Imported(m) == IF cached[m] # None THEN cached[m] ELSE generated[m]

(* The module at a path is executed afresh; one named by its name is first  *)
(* dropped from sys.modules and reloaded.                                   *)
FaultMain(c) == Imported(c.main)

Main(c) == generated[c.main]

(* What fails before anything is imported: a path that names no file. *)
Found(c, i) ==
  /\ c.kind = "path" \/ c.project => Resolved(c)
  /\ c.project => archive[i] # None

Loadable(c, i) ==
  /\ Found(c, i)
  /\ c.kind # "scaffold" => Main(c) # None
  /\ c.kind # "scaffold" /\ c.helper # None => Imported(c.helper) # None

(* load_candidate_scaffold *)
Code(c, i) ==
  [main    |-> IF c.kind = "scaffold" THEN None ELSE Main(c),
   helper  |-> IF c.kind = "scaffold" \/ c.helper = None THEN None
               ELSE Imported(c.helper),
   package |-> Package(c, i)]

Failed == [main |-> None, helper |-> None, package |-> None]

(* What stays in sys.modules: the package of a project is taken out again.  *)
CachedAfter(c) ==
  [m \in Modules |->
     IF c.kind \in {"module", "package"} /\ m = c.main THEN Main(c)
     ELSE IF c.kind # "scaffold" /\ m = c.helper THEN Imported(m)
     ELSE cached[m]]

(* ... and when the code raises: what it imported until then, and a module  *)
(* named by its name is dropped, or stays if it was imported once.          *)
CachedAfterRaise(c) ==
  {left \in [Modules -> {None} \cup {cached[m] : m \in Modules} \cup {generated[m] : m \in Modules}] :
     \A m \in Modules :
       left[m] \in IF c.kind \in {"module", "package"} /\ m = c.main THEN {None, Main(c)}
                  ELSE IF c.kind # "scaffold" /\ m = c.helper THEN {cached[m], Imported(m)}
                  ELSE {cached[m]}}

(* _candidate_test_spec: a candidate that names a project is loaded as the  *)
(* built-in scaffold of that project.                                       *)
TestSpec(c) == IF c.project THEN [c EXCEPT !.kind = "scaffold"] ELSE c

-----------------------------------------------------------------------------
Init ==
  /\ sandbox \in {"none", "docker"}
  /\ iteration = 1 /\ pc = "propose"
  /\ proposals = 0
  /\ foul = {}
  /\ generated = [m \in Modules |-> None]
  /\ archive = [i \in Iters |-> None]
  /\ base = 0
  /\ candidate = None
  /\ spec = [i \in Iters |-> None]
  /\ cached = [m \in Modules |-> None]
  /\ trained = [i \in Iters |-> None]
  /\ tested = [i \in Iters |-> None]

(* _build_source_snapshot_workspace: project_source starts from the archive *)
(* of the patch base, or from the optimizer's own source.                   *)
Start(b) == IF b \in Iters /\ archive[b] # None THEN archive[b] ELSE Host

(* _archive_workspace_outputs *)
Archive(i, content) == [archive EXCEPT ![i] = content]

(* _sync_workspace_outputs: a module overwrites the one of that name which  *)
(* an earlier iteration generated.                                          *)
Synced(written, n) == [m \in Modules |-> IF m \in written THEN n ELSE generated[m]]

(* The agent's call and what is kept of its workspace. The proposal writes  *)
(* its module; the helper it imports it writes, too, or it relies on one an *)
(* earlier proposal wrote.                                                  *)
Propose ==
  /\ pc = "propose" /\ proposals < MaxProposals
  /\ proposals' = proposals + 1
  /\ \E c \in Proposal, b \in {0} \cup {j \in Iters : trained[j] # None}, edited \in BOOLEAN :
       \E written \in {OwnCode(c), OwnCode(c) \ {c.helper}} :
       \E marked \in SUBSET (written \cup (IF edited THEN {Project} ELSE {})) :
         /\ c.helper # c.main
         /\ c.kind = "scaffold" => c.helper = None /\ c.main = CHOOSE m \in Modules : TRUE
         /\ c.kind = "package" => c.main \in Nested
         /\ c.kind # "path" /\ ~c.project => c.form = "relative"
         /\ base' = b
         /\ generated' = Synced(written, proposals')
         /\ archive' = Archive(iteration, IF edited THEN proposals' ELSE Start(b))
         /\ foul' = foul \cup {<<proposals', place>> : place \in marked}
         /\ candidate' = c
  /\ pc' = "load"
  /\ UNCHANGED <<sandbox, iteration, spec, cached, trained, tested>>

Finish ==
  /\ iteration' = iteration + 1
  /\ pc' = IF iteration = Iterations THEN "test" ELSE "propose"
  /\ candidate' = None

(* A marker is found or a path names no file: nothing is imported. *)
Reject ==
  /\ pc = "load"
  /\ PolicyViolated(candidate, iteration) \/ ~Found(candidate, iteration)
  /\ Finish
  /\ UNCHANGED <<sandbox, proposals, foul, generated, archive, base, spec, cached,
                 trained, tested>>

(* The code raises, or imports what is not there. *)
LoadFails ==
  /\ pc = "load"
  /\ ~PolicyViolated(candidate, iteration) /\ Found(candidate, iteration)
  /\ cached' \in CachedAfterRaise(candidate)
  /\ Finish
  /\ UNCHANGED <<sandbox, proposals, foul, generated, archive, base, spec,
                 trained, tested>>

(* load_candidate_scaffold and evaluate_scaffold. *)
Train ==
  /\ pc = "load"
  /\ ~PolicyViolated(candidate, iteration) /\ Loadable(candidate, iteration)
  /\ trained' = [trained EXCEPT ![iteration] = Code(candidate, iteration)]
  /\ spec' = [spec EXCEPT ![iteration] = candidate]
  /\ cached' = CachedAfter(candidate)
  /\ Finish
  /\ UNCHANGED <<sandbox, proposals, foul, generated, archive, base, tested>>

(* _run_test_frontier: the members of the frontier one by one. tested is    *)
(* the code that ran, whether it gave a score or raised; a failure is       *)
(* recorded and the others go on.                                           *)
Test ==
  /\ pc = "test"
  /\ \E i \in Iters :
       /\ spec[i] # None /\ tested[i] = None
       /\ LET c == TestSpec(spec[i]) IN
            /\ tested' = [tested EXCEPT ![i] = IF Loadable(c, i) THEN Code(c, i) ELSE Failed]
            /\ cached' \in CachedAfterRaise(c)
  /\ UNCHANGED <<sandbox, iteration, pc, proposals, foul, generated, archive, base,
                 candidate, spec, trained>>

(* A crash and a launch with --resume: the iterations after the last one    *)
(* with a result start again; the modules they generated stay. A run        *)
(* without iterations left tests again.                                     *)
ResumeStart == Max({0} \cup {i \in Iters : trained[i] # None}) + 1

Crash ==
  /\ pc # "done"
  /\ cached' = [m \in Modules |-> None]
  /\ tested' = [i \in Iters |-> None]
  /\ candidate' = None
  /\ iteration' = ResumeStart
  /\ pc' = IF ResumeStart > Iterations THEN "test" ELSE "propose"
  /\ UNCHANGED <<sandbox, proposals, foul, generated, archive, base, spec,
                 trained>>

Complete ==
  /\ pc = "test"
  /\ \A i \in Iters : spec[i] # None => tested[i] # None
  /\ pc' = "done"
  /\ UNCHANGED <<sandbox, iteration, proposals, foul, generated, archive, base,
                 candidate, spec, cached, trained, tested>>

Next == Propose \/ Reject \/ LoadFails \/ Train \/ Test \/ Crash \/ Complete

Spec == Init /\ [][Next]_vars

-----------------------------------------------------------------------------
(* Properties *)

OfProposal(code) ==
  /\ code.main \in {None, proposals}
  /\ candidate.project => code.package \in {proposals, Start(base)}

(* The module and the package that an iteration measures are those of the   *)
(* proposal at hand, whatever earlier iterations left in the directory and  *)
(* in the process. (A helper may come from sys.modules and be older.)       *)
MeasuresProposal == [][trained' # trained => OfProposal(trained'[iteration])]_vars

FoulParts(c, code) ==
  {<<code.main, c.main>>, <<code.helper, c.helper>>, <<code.package, Project>>} \cap foul

(* The modules a candidate loads that its scan does not see. *)
Unseen(c) == (OwnCode(c) \cap Nested) \ NamedFile(c)

(* The modules of an accepted candidate as later proposals replaced them. *)
Replaced(i) ==
  {<<generated[m], m>> : m \in {k \in OwnCode(spec[i]) : generated[k] > trained[i].main}}

(* Code with a forbidden marker is measured only where the scan does not    *)
(* look: on the train split in a nested module whose file the proposal does *)
(* not name, and on the test split also in a module that a later proposal,  *)
(* itself refused perhaps, has replaced. What an earlier or a lost proposal *)
(* left at the top of the directory or in sys.modules, and what was         *)
(* inherited with a base, is not measured.                                  *)
FoulOnlyUnseen ==
  \A i \in Iters :
    /\ trained[i] # None =>
         \A part \in FoulParts(spec[i], trained[i]) : part[2] \in Unseen(spec[i])
    /\ tested[i] # None =>
         \A part \in FoulParts(spec[i], tested[i]) :
           part[2] \in Unseen(spec[i]) \/ part \in Replaced(i)

(* "Historical candidates may import earlier run-local parent modules. Scan *)
(* that workspace so contaminated parent modules remain visible to the      *)
(* policy check." (the comment at _candidate_policy_scan_paths): a module   *)
(* with a marker that an accepted candidate imported is no earlier one's.   *)
ParentsVisible ==
  \A i \in Iters :
    trained[i] # None /\ <<trained[i].helper, spec[i].helper>> \in foul
      => trained[i].helper = trained[i].main

Overwritten(i) ==
  \E m \in OwnCode(spec[i]) : generated[m] \notin {trained[i].main, trained[i].helper}

(* At any later time, and also in another process, a candidate is tested    *)
(* with the module and the package its train result measured, unless its    *)
(* modules were overwritten or it names a project beside a module.          *)
TestedAsTrained ==
  \A i \in Iters :
    tested[i] # None /\ (spec[i].kind # "scaffold" => ~spec[i].project /\ ~Overwritten(i))
    => /\ tested[i].main = trained[i].main
       /\ tested[i].package = trained[i].package

(* The final test measures the code of the frontier's candidates.           *)
FrontierIsTested ==
  \A i \in Iters : tested[i] \notin {None, Failed} => tested[i].main = trained[i].main
=============================================================================
