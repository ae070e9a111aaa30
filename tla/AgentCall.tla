------------------------------ MODULE AgentCall ------------------------------
(***************************************************************************)
(* A call of the coding agent: _run_proposer_agent, which repeats an       *)
(* attempt that hit the usage limit, and run_claude_prompt and             *)
(* run_codex_prompt, which make one attempt. The agent is a child process, *)
(* or a container that a docker client runs; it works in the workspace and *)
(* reports what it does as a stream of events. The runner waits for its    *)
(* end or for the timeout and then recovers from the stream which files    *)
(* were used, which evidence was looked at and whether the account's usage *)
(* limit was hit.                                                          *)
(*                                                                         *)
(* Claude reports a tool use before it runs, Codex when it is completed.   *)
(***************************************************************************)
EXTENDS Lexicographic, FiniteSetsExt, Sequences, TLC

CONSTANTS
  Files,        \* files an agent may touch
  Evidence,     \* those under traces/, reference_iterations/ or summaries/
  MaxEvents,    \* bound on the events of an attempt
  MaxRotations, \* bound on the changes of the host's credentials
  ResetTimes,   \* times at which a usage window may reset, 0 for not given
  MaxRetries, Buffer, DefaultWait, MaxWait,   \* rate_limit_* of the config
  NoResult, NoOp

ASSUME EvidenceAssumption == Evidence \subseteq Files
ASSUME BoundAssumption ==
  /\ {MaxEvents, MaxRotations, MaxRetries, Buffer, DefaultWait, MaxWait} \subseteq Nat
  /\ ResetTimes \subseteq Nat /\ 0 \in ResetTimes

VARIABLES
  config,     \* agent, sandbox, native (is a home with credentials staged?),
              \* installed (are the command line tools on the PATH?), wait
  pc,
  retries, now,
  host, stage,  \* versions of the host's credentials and of the staged copy
  refreshed,  \* did the last refresh go through?
  stream,     \* events the runner can read
  doing,      \* the tool use that is under way
  acted,      \* history: tool uses that may have had an effect
  limited,    \* history: the service turned the agent down
  child,      \* "none", "running" or "gone"
  orphan,     \* does a container of an attempt that timed out still run?
  result

auth == <<host, stage, refreshed>>
work == <<stream, doing, acted, limited>>
vars == <<config, pc, retries, now, auth, work, child, orphan, result>>

-----------------------------------------------------------------------------
(* Tool uses: a read, an edit, a search, a shell command that names files   *)
(* which ShellAccess finds in it, a call of the RunStore's MCP server.      *)

ToolUses ==
  [tool : {"Read", "Edit", "Grep"}, reads : {{}}, writes : {{}}, file : Files]
    \cup [tool : {"Bash"}, reads : SUBSET Files, writes : SUBSET Files,
          file : {"none"}]
    \cup [tool : {"fact_trace", "fact_proposal", "fact_search"}, reads : {{}},
          writes : {{}}, file : {"none"}]

ASSUME NoOpAssumption == NoOp \notin ToolUses

Reads(u) == IF u.tool = "Read" THEN {u.file} ELSE u.reads

Writes(u) == IF u.tool = "Edit" THEN {u.file} ELSE u.writes

(* Codex has no tools of its own to read and search: it uses the shell. *)
Offered ==
  IF config.agent = "codex" THEN {u \in ToolUses : u.tool \notin {"Read", "Grep"}}
  ELSE ToolUses

Use(u) == [type |-> "use", use |-> u]

(* The events that tell of the service: a window's state, and the end.      *)
Window ==
  [type : {"window"}, status : {"allowed", "rejected"},
   overage : {"allowed", "rejected"}, resets : ResetTimes]

Failure == [type : {"failure"}, limit : BOOLEAN, resets : ResetTimes]

-----------------------------------------------------------------------------
(* Parsing *)

Uses(s) == {i \in DOMAIN s : s[i].type = "use"}
Count(s, P(_)) == Cardinality({i \in Uses(s) : P(s[i].use)})

(* _extract_claude_tool_access *)
ClaudeToolAccess(s) ==
  [files_read    |-> [f \in Files |-> Count(s, LAMBDA u : f \in Reads(u))],
   files_written |-> [f \in Files |-> Count(s, LAMBDA u : f \in Writes(u))],
   greps         |-> {s[i].use.file : i \in {j \in Uses(s) : s[j].use.tool = "Grep"}},
   tool_uses     |-> Cardinality(Uses(s))]

(* _extract_codex_tool_access: a file is read by a shell command only, and  *)
(* changed by a command or a file change.                                   *)
CodexToolAccess(s) ==
  [files_read    |-> [f \in Files |-> Count(s, LAMBDA u : u.tool = "Bash" /\ f \in u.reads)],
   files_written |-> [f \in Files |-> Count(s, LAMBDA u :
                        \/ u.tool = "Bash" /\ f \in u.writes
                        \/ u.tool = "Edit" /\ f = u.file)],
   greps         |-> {},
   tool_uses     |-> Cardinality(Uses(s))]

ToolAccess(s) == IF config.agent = "claude" THEN ClaudeToolAccess(s) ELSE CodexToolAccess(s)

IsRunStoreTool(t) == t \in {"fact_trace", "fact_proposal", "fact_search"}
IsTraceTool(t) == t = "fact_trace"
IsModTool(t) == t = "fact_proposal"

Calls(s, P(_)) == Count(s, LAMBDA u : P(u.tool))

RawReads(reads) == MapThenSumSet(LAMBDA f : reads[f], Evidence)

(* _summarize_evidence_usage *)
ClaudeEvidenceUsage(s) ==
  [runstore |-> Calls(s, IsRunStoreTool), traces |-> Calls(s, IsTraceTool),
   mods |-> Calls(s, IsModTool), raw |-> RawReads(ClaudeToolAccess(s).files_read)]

(* _summarize_codex_evidence_usage *)
CodexEvidenceUsage(s) ==
  [runstore |-> Calls(s, IsRunStoreTool), traces |-> Calls(s, IsTraceTool),
   mods |-> Calls(s, IsModTool), raw |-> RawReads(CodexToolAccess(s).files_read)]

EvidenceUsage(s) ==
  IF config.agent = "claude" THEN ClaudeEvidenceUsage(s) ELSE CodexEvidenceUsage(s)

(* _extract_rate_limit *)
ClaudeLimited(s) ==
  \E i \in DOMAIN s :
    \/ s[i].type = "failure" /\ s[i].limit
    \/ s[i].type = "window" /\ "rejected" \in {s[i].status, s[i].overage}

(* _extract_codex_rate_limit *)
CodexLimited(s) == \E i \in DOMAIN s : s[i].type = "failure" /\ s[i].limit

(* The limit is looked for in the last event alone. *)
FaultRateLimited(s) ==
  s # <<>> /\ LET e == s[Len(s)] IN e.type = "window" /\ e.status = "rejected"

RateLimited(s) ==
  IF config.agent = "claude" THEN ClaudeLimited(s) ELSE CodexLimited(s)

(* The latest reset time the stream names: in windows for Claude, in the    *)
(* message of a limit for Codex.                                            *)
Resets(s) ==
  LET named == {s[i].resets : i \in {j \in DOMAIN s :
                  IF config.agent = "claude" THEN s[j].type = "window"
                  ELSE s[j].type = "failure" /\ s[j].limit}}
  IN  Max(named \cup {0})

NoCode == -1

Parsed(returncode, timedOut, s) ==
  [returncode |-> returncode, timedOut |-> timedOut,
   access |-> ToolAccess(s), evidence |-> EvidenceUsage(s),
   rateLimited |-> RateLimited(s), resets |-> Resets(s)]

-----------------------------------------------------------------------------
Init ==
  /\ config \in [agent : {"claude", "codex"}, sandbox : {"none", "docker"},
                 native : BOOLEAN, installed : BOOLEAN, wait : BOOLEAN]
  /\ config.native => config.agent = "claude" /\ config.sandbox = "docker"
  /\ pc = "prepare"
  /\ retries = 0 /\ now = 1
  /\ host \in {0, 1} /\ stage = host    \* 0: the host has none
  /\ refreshed = TRUE
  /\ stream = <<>> /\ doing = NoOp /\ acted = {} /\ limited = FALSE
  /\ child = "none" /\ orphan = FALSE
  /\ result = NoResult

(* The token is renewed by another session of the host. *)
HostRotates ==
  /\ config.native /\ host \in 1..MaxRotations
  /\ host' = host + 1
  /\ UNCHANGED <<config, pc, retries, now, stage, refreshed, work, child, orphan, result>>

(* The copy is made once, before the first attempt. *)
FaultRefreshCredentials ==
  IF config.native /\ host # 0 /\ retries = 0
  THEN stage' = host /\ refreshed' = TRUE
  ELSE UNCHANGED <<stage, refreshed>>

(* _native_auth_stage_home and _refresh_native_auth_credentials: an error   *)
(* of the copy is logged and the attempt goes on.                           *)
RefreshCredentials ==
  IF config.native /\ host # 0 /\ stage # host
  THEN \/ stage' = host /\ refreshed' = TRUE
       \/ stage' = stage /\ refreshed' = FALSE
  ELSE stage' = stage /\ refreshed' = TRUE

(* _prepare_agent_command and the search for the command line tool: an      *)
(* error is a result, not an exception.                                     *)
PrepareFails ==
  /\ pc = "prepare" /\ ~config.installed
  /\ RefreshCredentials
  /\ result' = Parsed(NoCode, FALSE, <<>>)
  /\ pc' = "returned"
  /\ UNCHANGED <<config, retries, now, host, work, child, orphan>>

Launch ==
  /\ pc = "prepare" /\ config.installed
  /\ RefreshCredentials
  /\ child' = "running"
  /\ pc' = "wait"
  /\ UNCHANGED <<config, retries, now, host, work, orphan, result>>

(* The agent. *)

BeginUse ==
  /\ child = "running" /\ doing = NoOp
  /\ Len(stream) < MaxEvents
  /\ \E u \in Offered :
       /\ doing' = u
       /\ acted' = acted \cup {u}
       /\ stream' = IF config.agent = "claude" THEN Append(stream, Use(u)) ELSE stream
  /\ UNCHANGED <<config, pc, retries, now, auth, limited, child, orphan, result>>

FinishUse ==
  /\ child = "running" /\ doing # NoOp
  /\ doing' = NoOp
  /\ stream' = IF config.agent = "codex" THEN Append(stream, Use(doing)) ELSE stream
  /\ UNCHANGED <<config, pc, retries, now, auth, acted, limited, child, orphan, result>>

(* Claude tells the state of its usage window now and then. *)
TellWindow ==
  /\ child = "running" /\ config.agent = "claude" /\ Len(stream) < MaxEvents
  /\ \E e \in Window :
       stream' = Append(stream, e) /\ limited' = (limited \/ e.status = "rejected")
  /\ UNCHANGED <<config, pc, retries, now, auth, doing, acted, child, orphan, result>>

TellFailure ==
  /\ child = "running" /\ doing = NoOp /\ Len(stream) < MaxEvents
  /\ \E e \in Failure :
       stream' = Append(stream, e) /\ limited' = (limited \/ e.limit)
  /\ UNCHANGED <<config, pc, retries, now, auth, doing, acted, child, orphan, result>>

Exit ==
  /\ child = "running" /\ doing = NoOp
  /\ child' = "gone"
  /\ UNCHANGED <<config, pc, retries, now, auth, work, orphan, result>>

(* The container of an earlier attempt comes to its end. *)
OrphanEnds ==
  /\ orphan
  /\ orphan' = FALSE
  /\ UNCHANGED <<config, pc, retries, now, auth, work, child, result>>

(* Once the result is parsed nobody looks at the stream again. *)
Forget == stream' = <<>> /\ doing' = NoOp /\ acted' = {} /\ limited' = limited

(* subprocess.run returns. *)
Completed ==
  /\ pc = "wait" /\ child = "gone"
  /\ \E returncode \in {0, 1} : result' = Parsed(returncode, FALSE, stream)
  /\ Forget
  /\ pc' = "returned"
  /\ UNCHANGED <<config, retries, now, auth, child, orphan>>

(* What was used is read only from the stream of a child that ended itself. *)
FaultTimedOut ==
  [Parsed(NoCode, TRUE, stream) EXCEPT !.access = ToolAccess(<<>>)]

TimedOut == Parsed(NoCode, TRUE, stream)

(* The timeout applies only between two tool uses. *)
FaultMayTimeOut == pc = "wait" /\ doing = NoOp

MayTimeOut == pc = "wait"

(* subprocess.TimeoutExpired: the child is killed. In a sandbox that is the *)
(* docker client, and the container works on.                               *)
Timeout ==
  /\ MayTimeOut
  /\ child' = "gone"
  /\ orphan' = (orphan \/ (config.sandbox = "docker" /\ child = "running"))
  /\ result' = TimedOut
  /\ Forget
  /\ pc' = "returned"
  /\ UNCHANGED <<config, retries, now, auth>>

(* _wait_for_rate_limit_reset *)
WaitFor(resets) ==
  Max({1, Min({MaxWait, IF resets > now THEN (resets - now) + Buffer ELSE DefaultWait})})

Again == config.wait /\ result.rateLimited /\ retries < MaxRetries

AwaitReset ==
  /\ pc = "returned" /\ Again
  /\ retries' = retries + 1
  /\ now' = now + WaitFor(result.resets)
  /\ limited' = FALSE /\ result' = NoResult
  /\ pc' = "prepare"
  /\ UNCHANGED <<config, auth, stream, doing, acted, child, orphan>>

Return ==
  /\ pc = "returned" /\ ~Again
  /\ pc' = "done"
  /\ UNCHANGED <<config, retries, now, auth, work, child, orphan, result>>

Agent == BeginUse \/ FinishUse \/ TellWindow \/ TellFailure \/ Exit \/ OrphanEnds

Runner == PrepareFails \/ Launch \/ Completed \/ Timeout \/ AwaitReset \/ Return

Next == Agent \/ Runner \/ HostRotates

(* The runner goes on and its timeout comes; an agent may hang. *)
Spec == Init /\ [][Next]_vars /\ WF_vars(Runner)

-----------------------------------------------------------------------------
(* Properties *)

(* Whatever ends an attempt, every file a Claude agent touched before that  *)
(* is in the result, the use that was cut off included; a Codex agent's are *)
(* if it ended by itself. The access check and the bandit counts read       *)
(* nothing else. What an orphan does later is in nobody's result.           *)
NothingUnseen ==
  [][pc # "returned" /\ pc' = "returned" /\ (config.agent = "claude" \/ ~result'.timedOut)
     => \A u \in acted :
          /\ \A f \in Reads(u) : result'.access.files_read[f] > 0
          /\ \A f \in Writes(u) : result'.access.files_written[f] > 0]_vars

(* An attempt the service turned down is marked, also when it then hung     *)
(* until the timeout: the loop waits for the reset and does not count it.   *)
LimitNoticed == pc = "returned" /\ limited => result.rateLimited

(* Every attempt starts with the host's present credentials, also after a   *)
(* wait in which they were renewed; if not, the copy failed just before.    *)
CredentialsFresh ==
  [][pc = "prepare" /\ pc' = "wait" /\ config.native /\ host # 0
     => stage' = host \/ ~refreshed']_vars

(* After a limit with a known reset the next attempt comes after the reset, *)
(* unless the longest wait the configuration allows was spent.              *)
ResumesAfterReset ==
  [][retries' > retries => now' > result.resets \/ now' - now >= MaxWait]_vars

(* So an attempt after a limit is neither early nor refused for an old token.*)
RetriesReady == CredentialsFresh /\ ResumesAfterReset

(* Where the runner stands. *)
Stride ==
  CASE pc = "prepare" -> 0 [] pc = "wait" -> 1 [] pc = "returned" -> 2
    [] pc = "done" -> 3

Place == <<retries, Stride>>

(* Every step of the runner takes the call forward, to an end that is a     *)
(* bounded number of attempts away, and no agent, of this attempt or of one *)
(* that timed out, takes it anywhere.                                       *)
RunnerMovesOn ==
  /\ [][IF Runner THEN Precedes(Place, Place') ELSE Place' = Place]_vars
  /\ [](Place \in (0 .. MaxRetries) \X (0 .. 3))

(* So the call ends, although every agent may hang in the middle of a use.  *)
CallEnds == RunnerMovesOn /\ <>(pc = "done")

(* The usage limit is reported only when the service rejected something.    *)
LimitIsReal == pc = "returned" /\ result.rateLimited => limited
=============================================================================
