----------------------------- MODULE MCOperators -----------------------------
(***************************************************************************)
(* The pure parts of the agent runners over bounded inputs, one state for  *)
(* each input: shell commands, configurations of a launch, and paths.      *)
(***************************************************************************)
EXTENDS Naturals, Sequences

CONSTANTS MaxTokens, MaxParts

ASSUME BoundsAssumption == MaxTokens \in Nat /\ MaxParts \in Nat

VARIABLES kind, input

S == INSTANCE ShellAccess
A == INSTANCE AgentCommand
P == INSTANCE AccessPaths

Init == kind = "start" /\ input = <<>>

ChooseTokens ==
  /\ kind' = "shell"
  /\ \E tokens \in S!BoundedSeq(S!Tokens, MaxTokens) : \E lines \in SUBSET DOMAIN tokens :
       input' = [tokens |-> tokens, lines |-> lines]
ChooseConfig == kind' = "launch" /\ input' \in A!Configs
ChoosePath ==
  /\ kind' = "path"
  /\ input' \in [sandbox : {"none", "docker"}, path : P!Paths(MaxParts)]

Next == kind = "start" /\ (ChooseTokens \/ ChooseConfig \/ ChoosePath)

Spec == Init /\ [][Next]_<<kind, input>>

-----------------------------------------------------------------------------
(* Every file that a command prints or writes is in the report of the call, *)
(* but for what the parser is known to miss.                                *)
AccessReported == kind = "shell" => S!AccessReported(input.tokens, input.lines)

(* The agent runs with the login it was configured for, and Codex is given  *)
(* the RunStore exactly if it is told of it.                                *)
Equipped == kind = "launch" => A!RightLogin(input) /\ A!CodexReachesStore(input)

(* The agent can use the RunStore tools that it is told of.                *)
ToolsReachStore == kind = "launch" => A!ToolsReachStore(input)

(* A call is refused exactly if it left its workspace, and what it read is  *)
(* charged to the file it read.                                             *)
PathsJudged ==
  kind = "path" => /\ P!BoundaryJudged(input.path, input.sandbox)
                   /\ P!ChargedAsTouched(input.path, input.sandbox)
=============================================================================
