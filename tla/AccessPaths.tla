---------------------------- MODULE AccessPaths ----------------------------
(***************************************************************************)
(* Where a path that the agent names lies, as the code finds it out: for   *)
(* the check that the agent stays in its workspace, for the ledger of the  *)
(* bandit, and for the evidence counts. A path is absolute or relative and *)
(* is a sequence of names; there are no symbolic links, and the command    *)
(* does not change its directory.                                          *)
(***************************************************************************)
EXTENDS SequencesExt

(* The directories of a workspace, and other names. *)
Roots == {"source_snapshot", "summaries", "reference_iterations", "traces"}
Names == Roots \cup {"..", "run", "workspace", "f"}
Paths(n) == [absolute : BOOLEAN, parts : BoundedSeq(Names, n)]

(* The workspace of a call, on the host and where a container mounts it.    *)
HostWorkspace == <<"run", "workspace">>
ContainerWorkspace == <<"workspace">>

(* _agent_visible_cwd *)
VisibleCwd(sandbox) == IF sandbox = "docker" THEN ContainerWorkspace ELSE HostWorkspace

(* The place a sequence of names leads to from the root, name by name. *)
Walk(at, name) ==
  IF name # ".." THEN Append(at, name) ELSE IF at = <<>> THEN at ELSE Front(at)

Normal(parts) == FoldLeft(Walk, <<>>, parts)

Below(at, dir) == SubSeq(at, Len(dir) + 1, Len(at))

(* _make_relative *)
MakeRelative(p, cwd) ==
  IF p.absolute /\ IsPrefix(cwd, Normal(p.parts))
  THEN [absolute |-> FALSE, parts |-> Below(Normal(p.parts), cwd)] ELSE p

(* What the report of a call holds. *)
Reported(p, sandbox) == MakeRelative(p, VisibleCwd(sandbox))

-----------------------------------------------------------------------------
(* The check of the workspace's boundary *)

(* _map_container_workspace_path *)
Mapped(p, sandbox) ==
  IF sandbox = "docker" /\ p.absolute /\ IsPrefix(ContainerWorkspace, p.parts)
  THEN [p EXCEPT !.parts = HostWorkspace \o Below(p.parts, ContainerWorkspace)] ELSE p

(* A relative path is taken as it is written. *)
FaultNormalized(p, sandbox) ==
  IF p.absolute THEN Normal(Mapped(p, sandbox).parts) ELSE HostWorkspace \o p.parts

(* _normalize_agent_access_path *)
Normalized(p, sandbox) ==
  LET q == Mapped(p, sandbox)
  IN  Normal(IF q.absolute THEN q.parts ELSE HostWorkspace \o q.parts)

(* _proposer_access_violations: in a container everything is allowed. *)
Violation(p, sandbox) ==
  sandbox # "docker" /\ ~IsPrefix(HostWorkspace, Normalized(p, sandbox))

-----------------------------------------------------------------------------
(* The ledger of the bandit and the evidence counts *)

(* What follows the first place where a name occurs between two others, the *)
(* path itself if it does not occur.                                        *)
Occurs(name, p) ==
  {i \in DOMAIN p.parts : p.parts[i] = name /\ i < Len(p.parts) /\ (p.absolute \/ i > 1)}
After(name, p) ==
  IF Occurs(name, p) = {} THEN p.parts
  ELSE SubSeq(p.parts, Min(Occurs(name, p)) + 1, Len(p.parts))

Cut(p) == [absolute |-> p.absolute /\ Occurs("workspace", p) = {},
           parts    |-> After("workspace", p)]

Markers == <<"source_snapshot", "summaries", "reference_iterations">>

(* _bandit_normalize_access_path: the first marker that occurs anywhere but *)
(* at the beginning becomes the beginning.                                  *)
Charged(p) ==
  LET q == Cut(p)
      found == {k \in DOMAIN Markers : Occurs(Markers[k], q) # {}}
  IN  IF found = {} THEN q.parts
      ELSE <<Markers[Min(found)]>> \o After(Markers[Min(found)], q)

(* _bandit_is_trackable_path *)
Tracked(charged) ==
  charged # <<>> /\ charged[1] \in {"source_snapshot", "summaries", "reference_iterations"}

Buckets == <<"traces", "reference_iterations", "summaries">>

(* _evidence_path_bucket: the first of them that occurs, also at the        *)
(* beginning; "none" for no evidence.                                       *)
Bucket(p) ==
  LET parts == Cut([p EXCEPT !.absolute = FALSE]).parts
      found == {k \in DOMAIN Buckets :
                  \E i \in 1..Len(parts) - 1 : parts[i] = Buckets[k]}
  IN  IF found = {} THEN "none" ELSE Buckets[Min(found)]

-----------------------------------------------------------------------------
(* Reference: the place the agent touched, seen from the host *)

InWorkspace(p, sandbox) ==
  LET at == Normal(IF p.absolute THEN p.parts ELSE VisibleCwd(sandbox) \o p.parts)
  IN  IsPrefix(VisibleCwd(sandbox), at)
Touched(p, sandbox) ==
  Below(Normal(IF p.absolute THEN p.parts ELSE VisibleCwd(sandbox) \o p.parts),
        VisibleCwd(sandbox))

(* On the host a call is refused exactly if it touched something outside of *)
(* its workspace, however the path was written.                             *)
BoundaryJudged(p, sandbox) ==
  sandbox # "docker" => (Violation(Reported(p, sandbox), sandbox) <=> ~InWorkspace(p, sandbox))

(* The ledger and the evidence counts name the file that was touched, unless *)
(* the path climbs, repeats the name of the workspace, or has the name of a  *)
(* directory of the workspace further down.                                  *)
Plain(p, sandbox) ==
  /\ InWorkspace(p, sandbox)
  /\ \A i \in DOMAIN p.parts : p.parts[i] # ".."
  /\ LET at == Touched(p, sandbox)
     IN  /\ Len(at) > 1
         /\ \A i \in DOMAIN at : at[i] # "workspace" /\ (at[i] \in Roots => i = 1)
ChargedAsTouched(p, sandbox) ==
  LET report == Reported(p, sandbox)
      at == Touched(p, sandbox)
  IN  Plain(p, sandbox) =>
        /\ at[1] \in Roots \ {"traces"} => Charged(report) = at /\ Tracked(Charged(report))
        /\ Bucket(report) = IF at[1] \in ToSet(Buckets) THEN at[1] ELSE "none"
=============================================================================
