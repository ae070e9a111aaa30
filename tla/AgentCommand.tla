---------------------------- MODULE AgentCommand ----------------------------
(***************************************************************************)
(* What the coding agent is given: the environment variables that reach    *)
(* it, on the host or in a container, and the RunStore server it can call. *)
(* Pure operators on a configuration of the launch.                        *)
(***************************************************************************)
EXTENDS FiniteSets

(* Names of variables; "FLAGS" for the CLAUDE_CODE_* settings.              *)
Overrides == {"BASE_URL", "AUTH_TOKEN", "API_KEY", "MODEL"}
Tokens == {"AUTH_TOKEN", "DEEPSEEK_KEY", "API_KEY"}
HostVariables == {"AUTH_TOKEN", "API_KEY", "DEEPSEEK_KEY", "OPENAI_KEY", "OTHER"}

(* DEFAULT_DOCKER_ENV_VARS *)
DefaultDockerEnv == Overrides \cup {"DEEPSEEK_KEY", "OPENAI_KEY"}

Configs ==
  [agent : {"claude", "codex"}, sandbox : {"none", "docker", "other"},
   image : BOOLEAN, docker_cli : BOOLEAN, cli : BOOLEAN,
   native : BOOLEAN, token : BOOLEAN, model : BOOLEAN,
   host : SUBSET HostVariables, docker_env : SUBSET {"OTHER", "API_KEY"},
   section : BOOLEAN, run_dir : {"relative", "absolute"}]

-----------------------------------------------------------------------------
(* Without the native login some token is put in the place of the CLI's own *)
(* login.                                                                   *)
FaultClaudeEnv(c) ==
  c.host \cup {"BASE_URL", "FLAGS"}
    \cup (IF c.token \/ c.host \cap Tokens # {} THEN {"AUTH_TOKEN"} ELSE {})

(* _claude_env *)
ClaudeEnv(c) ==
  IF c.native THEN (c.host \ Overrides) \cup {"FLAGS"}
  ELSE c.host \cup {"BASE_URL", "FLAGS"}
         \cup (IF c.token \/ c.host \cap Tokens # {} THEN {"AUTH_TOKEN"} ELSE {})
         \cup (IF c.model THEN {"MODEL"} ELSE {})

(* _codex_env *)
CodexEnv(c) == c.host \ {"OPENAI_KEY"}

Env(c) == IF c.agent = "claude" THEN ClaudeEnv(c) ELSE CodexEnv(c)

(* _prepare_agent_command: a reason not to start, "" for none. *)
PrepareError(c) ==
  IF c.sandbox = "none" THEN ""
  ELSE IF c.sandbox # "docker" THEN "unsupported"
  ELSE IF ~c.image THEN "image"
  ELSE IF ~c.docker_cli THEN "docker" ELSE ""

(* The tool itself is searched for on the host only if it is to run there.  *)
Starts(c) == PrepareError(c) = "" /\ (c.sandbox = "docker" \/ c.cli)

(* The variables the agent sees: a container gets those it is told of.      *)
Reaches(c) ==
  IF c.sandbox = "docker" THEN Env(c) \cap (DefaultDockerEnv \cup c.docker_env)
  ELSE Env(c)

(* The place a path names for the server, whose working directory is the    *)
(* workspace: the run's database, a mount of it, or a file of the workspace *)
(* that does not exist.                                                     *)
Place(c, resolved) ==
  IF c.sandbox = "docker" THEN "mount"
  ELSE IF resolved \/ c.run_dir = "absolute" THEN "database" ELSE "nothing"

(* _write_proposer_agent_config: the path is passed as it is. *)
ClaudeServer(c) == IF c.section THEN Place(c, FALSE) ELSE "none"

(* _codex_mcp_servers: the path is resolved. *)
CodexServer(c) == IF c.section THEN Place(c, TRUE) ELSE "none"

Server(c) == IF c.agent = "claude" THEN ClaudeServer(c) ELSE CodexServer(c)

-----------------------------------------------------------------------------
(* With its own login Claude sees no variable that would override it, on    *)
(* the host and in a container, whatever the environment holds and whatever *)
(* the container is told to forward; Codex never sees an API key. Without   *)
(* it a token that exists anywhere reaches Claude, also in a container.     *)
RightLogin(c) ==
  Starts(c) =>
    /\ c.agent = "claude" /\ c.native => Reaches(c) \cap Overrides = {}
    /\ c.agent = "claude" /\ ~c.native /\ (c.token \/ c.host \cap Tokens # {})
         => "AUTH_TOKEN" \in Reaches(c)
    /\ c.agent = "codex" => "OPENAI_KEY" \notin Reaches(c)

(* The RunStore tools are offered if and only if the section is shown, and  *)
(* those of Codex open the database of the run from any directory.          *)
CodexReachesStore(c) ==
  c.agent = "codex" /\ Starts(c) =>
    IF c.section THEN Server(c) \in {"database", "mount"} ELSE Server(c) = "none"

(* So do those of Claude. *)
ToolsReachStore(c) ==
  Starts(c) /\ c.section => Server(c) \in {"database", "mount"}
=============================================================================
