# Optimizer1: TLA+ specifications, model checking and proofs

Optimizer1 (`src/src/optimizer1/`) is a proposer/evaluate loop. In each
iteration a coding agent edits the source of a scaffold in a workspace, the
edited scaffold is scored on a benchmark split, and the result joins a ranked
list from which the context budget and the patch base of the next iteration
are chosen. A run takes hours or days and is expected to crash and to be
continued with `--resume`, from the files it left. The repository has no tests
for any of this. The specifications here are about that loop and about what it
rests on: what is written in which order, what a crash, a timeout or an earlier
attempt leaves behind, and what is made of it later.

Line numbers below are those of `src/src/optimizer1/optimizer.py` unless
another file is named.

## 1. The system

### Components

| component | state it keeps | operations | what makes it correct | modules |
|---|---|---|---|---|
| Run loop (`run`, 221-447) | the list `candidates`, the loop variable; nothing else in memory survives an iteration | seeds, baseline or resume, one iteration after another, the final summary | a relaunch continues where results end; the list is what the disk holds | `OptimizerRun`, `RunLedger`, `SourceLedger` |
| Result files and cache (`evaluation.py`) | `candidate_results/*.json` | evaluate, reuse by id and config | one result per iteration, measured on the archived source | `OptimizerRun` |
| Frontier (`pareto.py`, 3739-3780) | `best_candidates.json` | rank, cut to the top K, publish | the published frontier is that of all stored results | `Frontier`, `OptimizerRun` |
| Budget ladder and patch base (2319-2458, 2979-3111) | `progressive_state.json` | update, rebuild on resume, choose a base | the streak is the true one; the base beats every seed and is the scored source | `OptimizerRun` |
| Context policies (2460-2976, 3113-3200) | `bandit_state.json` | rank files, choose references, budget and state base; count an iteration | only final iterations are shown; hot files were read; a crash loses one count | `ContextPolicy` |
| Proposer iteration (463-893) | `pending_eval.json`, `proposer_calls/iter_NNN/` | build workspace, call, retry, repair, archive, hand over | what is evaluated belongs to this iteration and to the accepted call | `ProposerIteration`, `SourceLedger` |
| Agent runners (`claude_runner.py`, `codex_runner.py`, 1600-1850) | the stream of a child, a staged login | launch, time out, parse, wait for a limit; find files in commands and paths | nothing the agent did is lost, a limit is noticed, the call ends | `AgentCall`, `AgentCommand`, `ShellAccess`, `AccessPaths` |
| Candidate source and loading (`dynamic.py`, `pathing.py`, 1852-2316) | `generated/`, archives, `sys.modules` | sync, archive, scan, import, test | what is measured is what was proposed; what carries a forbidden marker runs only where no scan looks; what is tested is what was trained | `CandidateSource` |
| RunStore and its tools (`run_store.py`, `run_store_mcp_server.py`) | SQLite tables | begin, record, commit, refresh; state, explain, chain, artifact | rows follow results; what an agent is told agrees with itself | `OptimizerRun`, `ProposerIteration`, `EvidenceStore`, `StoreTables` |
| Trace harness and index (`traces/`) | `traces/`, `index.db` | index an iteration, mirror the frontier and the advance | flags and links agree with the results | `EvidenceStore` |
| SWE-bench (`swebench*.py`) | snapshots, instance directories | snapshot with the trusted script, run, grade, tag | grades are of own patches, by the trusted script | `Swebench`, `FrontierTest` |
| Terminal-Bench (`terminus*.py`) | job directories of Harbor | run a job, parse its trials | trials counted ran the candidate's code | `Terminus`, `FrontierTest` |
| Graph colouring (`graph_colouring*.py`) | trees, workspaces, csv files | overlay, compile, run, parse, rank | rows scored are own, edits survive the overlay | `GraphColouring` |
| Baseline suite (`baseline.py`) | one directory per repeat, two summaries | measure or reuse, load as seeds | the suite holds what was asked for | `BaselineSuite` |
| LongMemEval and LoCoMo tasks | data | download, split, judge | | not modelled |
| Command line, prompts, configuration | none | text | | not modelled |
| Scaffolds, model client | none the loop depends on | HTTP, the programs under optimisation | | not modelled |
| Trace queries, post-evaluation reports | none | read-only | | not modelled |

### How they interact

Everything that keeps state runs in one process and one thread; thread pools
only map a function over examples, tasks or graphs. The components meet through
the run directory: the loop writes files in a fixed order, and a later launch,
the next agent or the final test reads some of them. The agent, Harbor, the
commands that grade and the compiled programs are child processes or
containers: they work while the loop waits, may outlive the wait, and the loop
looks at what they left afterwards.

### What is hard

* No write is atomic and no two writes are one: result file, store status,
  store row, summary row, frontier, progressive state are six steps.
* `--resume` derives everything from one of those files (the results), and
  must agree with the others after any crash, also a crash in the cleanup that
  a resume starts with.
* An iteration can end in many ways without a result; such iterations count
  for the streak but leave nothing to rebuild it from.
* What an attempt leaves outlives it: `pending_eval.json`, archives, generated
  modules, patches, trials, csv rows, containers. The next attempt at the same
  iteration has the same paths.
* What the next agent is told comes from two databases that are filled in
  several steps, with COALESCE on some columns, and read at one moment.
* Retries nest: usage-limit waits inside an attempt, two attempts, two repairs.

`PROJECT.json` lists these and more, each at its line, under `hazards`.

## 2. The modules

    Frontier            candidates, ranking, top-K                 (pure operators)
      OptimizerRun      the run loop, its files, crashes, relaunch
        MCOptimizerRun        constants for TLC
        OptimizerRunProofs    type, results, relaunches of every kind; with --resume
                              the two ledgers, frontier, base, indexes, streak, budget
        EvidenceStore     the run loop with the trace index and derived tables
          MCEvidenceStore
          EvidenceStoreProofs what an agent is told (with OptimizerRunProofs)
    RunLedger           what a run directory promises of results (abstract,
                        INSTANCEd by OptimizerRun)
    SourceLedger        what it promises of sources (abstract, INSTANCEd by
                        OptimizerRun and by ProposerIteration)
    Lexicographic       the order in which the runs move on (pure operator)
    ProposerIteration   the agent calls of an iteration
      MCProposerIteration
      ProposerIterationProofs
    AgentCall           one call: attempts, stream, timeout, usage limit
      MCAgentCall
      AgentCallProofs
    AgentCommand, ShellAccess, AccessPaths      (pure operators)
      MCOperators             one state for each input
      OperatorProofs
    ContextPolicy       what the agent is shown; the bandit's ledger
      MCContextPolicy
      ContextPolicyProofs
    StoreTables         rows of runstore.db and the answers of its tools
      StoreTablesProofs
    CandidateSource     from the workspace to the code that is measured
    Terminus, Swebench, GraphColouring    the other ways to evaluate
    FrontierTest        the final test of Terminus and SWE-bench runs
    BaselineSuite       the baseline command and the seeds taken from it
      Evaluators              the six modules above side by side (INSTANCE)
        MCEvaluators
        EvaluatorProofs

The nesting of the system is the nesting of the modules' steps. One step
`Propose` (or `ProposerRejected`, `ProposerFailed`) of `OptimizerRun` is the
whole of `ProposerIteration`; one `CallAgent` there is the whole of
`AgentCall`, and what the operators of `ShellAccess` and `AccessPaths` say of
its events is the choice "violation or not". One `EvaluateCandidate` is
`CandidateSource`, `Terminus`, `Swebench` or `GraphColouring`.

### Frontier

A candidate is a record of the iteration that proposed it (0 for a seed), a
name, the source it was made of and a passrate. The program identifies it by
the string `iter<NNN>_<name>_top<k>`; seeds have no such prefix, so whether
their ids sort before or after is the constant `SeedIdsLast`. A passrate is a
number of passed tasks, since all candidates of a run are scored on the same
examples. `QualityFrontier` is `pareto_frontier`: the top K by passrate, equal
passrates by descending id. Despite its name and README.md:15-17 it does not
look at the token axis; see section 4.

### OptimizerRun

The first seven variables are files and survive a crash: `stored`
(`candidate_results/`, those that parse), `archive`
(`proposer_calls/iter_NNN/source_snapshot`), `rows` (candidate rows of
`evolution_summary.jsonl`), `best`, `prog`, and the two RunStore tables
`rsStatus` and `rsCands`. The others are the process: `pc` and the locals of
`run` and `_run_progressive_proposer_iteration`.

| action | code |
|---|---|
| `LaunchFresh`, `LaunchBaseline`, `LaunchResume` | the three branches at 226-281; the baseline branch wins over `--resume` |
| `EvaluateSeed`, `RecordSeed`, `CommitSeeds` | `run_initial_frontier`, `_append_summary` of each seed, 308-324 |
| `Resume` | 288-306: start iteration, cleanup, rebuilt progressive state |
| `SaveBest` | 326-327 |
| `StartIteration` | budget 333-351, base 488-514, `begin_iteration` 521-526 |
| `ProposerRejected`, `ProposerFailed`, `Propose` | every way the agent calls can end, which `ProposerIteration` details: before the archive, after it, with a proposal |
| `RejectCandidate`, `ReuseResult`, `EvaluateCandidate` | `_evaluate_proposed` and `evaluate_scaffold`: code policy, import or evaluation fails; the cached result; a new result |
| `RecordCandidate`, `AppendRow`, `CommitIteration` | the store rows, the summary row, 872-893 |
| `FinishIteration`, `UpdateState` | 371-387 and 388-413 |
| `Complete` | 423-447 |
| `Crash`, `CrashInResultWrite`, `CrashInBestWrite`, `CrashInRecord`, `CrashInStateWrite`, `CrashInCleanup` | the process is killed between two steps, or within the named write, which leaves a torn file, one of two transactions, or a partial cleanup |

Choices of data: a proposal is a name and a source; `random.choice` of the base
is a choice; average score and tokens, which order equal passrates in the
curaii pool, are not modelled and any such order is allowed. The policies
`progressive` and `curai` behave alike here; `default` differs from them in
that it keeps no state.

### RunLedger

The abstract specification: a ledger of scored candidates that only grows, one
candidate for an iteration and iterations in order, and a published frontier
that is always the frontier of the whole ledger at the time it was published,
or unreadable. `OptimizerRun` implements it with `ledger <- stored` and
`published <- best` (`KeepsLedger`), in runs that are relaunched with
`--resume`.

### SourceLedger

The other half of that promise, about `proposer_calls/iter_NNN/source_snapshot`:
an iteration begins behind all scored ones and with nothing archived, its own
proposer archives a source before it is scored, and the source of a scored
iteration stays for ever. Two modules implement it (`KeepsSources` in each).
`OptimizerRun` takes the calls of an iteration for one step; `ProposerIteration`
takes them apart into up to four calls with retries, repairs and waits. That
both keep one contract is what makes the one step a fair summary of the many.
In `OptimizerRun` it needs relaunches with `--resume`.

### ProposerIteration

What `OptimizerRun` does in one step between `StartIteration` and
`EvaluateCandidate`: `Begin` (unlink the run's `pending_eval.json`), `Build`
(a fresh workspace), `CallAgent` and `AwaitReset` (`_run_proposer_agent`, the
usage limit), `AcceptAccess` / `RetryAfterViolation` / `RejectAfterViolation`,
`Archive` and `RecordDiff` (`_archive_workspace_outputs`), `RepairMissing`,
`RepairInvalid`, `ProposerFailed`, `Accept`, `Evaluate`. The agent may leave
any files and end in any way (exit code or timeout, violation, usage limit).
A source is the set of files in which it differs from its original, which is
what the diff shows. Of a result the RunStore keeps what it has columns for
(`CallRowOf`), which a usage limit has not. `foul` in a workspace is a history value: an agent wrote
there in a call that was turned down.

The results of calls that hit the usage limit are dropped by the code without
a look at their accesses (1742-1751); `foul` marks only calls it judges. In a
container the code judges no accesses at all.

### EvidenceStore

`EvidenceStore` extends `OptimizerRun`: each of its actions is an action of the
run loop together with what the same code does to `traces/index.db` (`hasIndex`,
`traced`, and `index`, the rows of `iteration_meta`) and to the derived part of
`runstore.db` (`storeMeta` and `storeBase`, columns of `iterations`; `evals`,
`linked`, `outcomes`). So every behaviour of `ESpec` is, without its own
variables, one of the run loop.

| action | writes besides the run loop's |
|---|---|
| `EPlain` | nothing |
| `ERefreshing` | a refresh: proposer call or candidate rows were recorded (3832, 3870) |
| `ECommitSeeds` | traces, meta row and eval rows of the seeds, a refresh (317-324) |
| `ESaveBest` | the frontier flags (3780), without a refresh |
| `EStartIteration` | `base_iteration` (521), and the refresh before the workspace is built (1233) |
| `ERejectCandidate` | the index exists from here on (`ensure_manifest`), a refresh |
| `EScore` | `madeFrom`, a history of the base that was really patched |
| `ECommitIteration` | traces, meta row with base, eval rows, a refresh (880-891) |
| `EFinishIteration` | the frontier flags, the same rows once more without a base, a refresh (379-387) |
| `EUpdateState` | the advance flag (409-413), after the last refresh |
| `ECrash`, `CrashInCommit` | a crash, also between traces, meta row and eval rows |

`Refresh` is `RunStore.refresh` over the tables as the step leaves them: meta
rows are imported, eval rows get their trace, outcomes are computed anew. It is
taken to succeed (1277-1290 logs a failure and goes on; the next refresh
imports all again). `config.organized` is taken to be off, where the base
without a choice is none. Traces of one candidate are one element, so their
tasks and diffs are not seen; `StoreTables` has the tasks.

### StoreTables

The same database from the other side: the rows of `eval_results`, `artifacts`,
`frontier_members`, `proposal_outcomes` and `links` per task, and the tools that
read them (`StateFrontier`, `Explained`, `TaskChain`, `ArtifactGet`). `Begin`,
`Archive` (once more after a repair), `Fail`, `Score`, `Record`, `Commit`,
`SaveFrontier` are the steps of an iteration, `Relaunch` a crash anywhere
followed by `--resume`. The store is never cleaned, also not by the cleanup of a
resume: a rerun writes over what it finds. Each step refreshes where the code
does, with outcomes built before links.

### AgentCall

A call: up to `1 + MaxRetries` attempts. The agent (`BeginUse`, `FinishUse`,
`TellWindow`, `TellFailure`, `Exit`) writes to a stream while the runner waits
(`pc = "wait"`); `Completed` and `Timeout` parse it, `AwaitReset` waits and
starts over, `Return` ends the call. Claude reports a tool use before it runs,
Codex when it is completed. A timeout kills the child, in a sandbox only the
docker client, and the container (`orphan`) works on. `RefreshCredentials`
copies the host's login again before each attempt; `HostRotates` renews it on
the host. `acted` and `limited` are histories: tool uses that may have had an
effect, and whether the service turned the agent down. `ToolAccess`,
`EvidenceUsage`, `RateLimited` and `Resets` are the parsers. The contents of log
files and token counts are left out.

### AgentCommand, ShellAccess, AccessPaths

Pure operators, translated beside a reference of what they are about:

* `AgentCommand`: which variables of the environment reach the agent
  (`_claude_env`, `_codex_env`, the forwarding into a container), whether it
  starts, and which database the RunStore server of its configuration opens.
* `ShellAccess`: `_parse_shell_command_access` (`claude_runner.py:999-1201`) on
  token classes, against what a shell does with the same tokens. The reference
  has its own rules: `Start` ends a command also at `&` and at a line break,
  `Leads` and `Runs` find the name behind assignments, wrappers with their
  options and arguments, and redirections, `Values` says which options of *this*
  command take a value, `Prints` that a file behind `<` is printed and that the
  first operand of `sed` and `jq` is none unless `-f` gave the script.
* `AccessPaths`: the normalisation of a path for the boundary check, for the
  bandit's ledger and for the evidence counts, against the place it names.

What the parser of shell commands misses is a part of the statement
`AccessReported`, as two predicates that stand as its exceptions:

* `Hidden`: the name of the command, if anything but assignments and one wrapper
  stands before it in its part. So it misses `x & cat f`, a second line (the
  lexer drops the line break, 1060-1066), `sudo timeout cat f`, `timeout 5 cat f`
  (the number is taken for the command), `sudo -n cat f`, `> o cat f`.
* `Swallowed`: a file behind an option of `options_with_values` (1102-1116),
  which is one list for `cat`, `sed`, `head`, `tail`, `nl`, `wc` and `tee`, or
  behind `<`. So it misses the file in `cat -n f`, `cat -e f`, `wc -m f`,
  `sed -n f` and `cat < f`. `jq` has a parser of its own and is not affected.

Outside of these two every file that is printed or written is reported. Further
limits: a command that is none of those in 1021-1027 (`awk`, `less`, `cp`) is not
looked at, and the model calls them `other`; searching commands report their
files as grep requests, of which no property speaks; a file of `jq` is reported
also where the filter looks like a path, a `sed` script likewise
(`ReportedAreFiles`, section 4). Left out are the command inside `bash -c`
(1039-1057), the ways in which a tool hands over commands (980-996), Python
one-liners (1204-1230), and a redirection written without a blank. A `cd` inside
a command is not followed, and a file
`reference_iterations/iter_N/source_snapshot/...` is charged to
`source_snapshot`.

### ContextPolicy

One step for what is chosen for an iteration (`ChoosePolicy` and `WritePolicy`
for the bandit, `ChooseReferences` otherwise), one for the iteration
(`RunIteration`, in which the agent reads some of what it is shown and stores a
candidate or none), `UpdateBandit` (404-414 and 2830-2976), `Crash` and
`Resume`. `ledger` is `bandit_state.json`; a crash while it is written leaves a
file that cannot be parsed, and `_load_bandit_state` starts from an empty
ledger. Scores of files are left out: among files that have one the ranking is
arbitrary, which every scoring formula refines. `counted` (the iterations that
are in the ledger), `seen` (what the proposers have read) and `lost` (a torn
ledger was replaced by an empty one) are histories.

### CandidateSource

The content of a file is the number of the proposal that wrote it. `Propose`
leaves modules in the run's one `generated/` directory, where names may clash,
and a project in the archive of the iteration, started from that of a base. The
modules of `Nested` lie in a package below the top of that directory: the copy
takes the whole tree (3519), so they can be imported. The code policy
(`PolicyViolated`) scans the modules at the top, whoever wrote them, the file
that the proposal spells, and the changed lines of its project
(`Scanned`, 2183-2215). A nested module is scanned only if the proposal spells
its file; the kind `package` of a proposal is the one that does not.
`Reject` is a marker found or a path that names no file, `LoadFails` a load that
raises, after which `sys.modules` keeps whatever it had imported by then
(`CachedAfterRaise`), `Train` imports the module (by path afresh, by name after
dropping it from `sys.modules`, helpers from `sys.modules`), `Test` does so again
at the end, without a scan. `foul` holds the files with a forbidden marker, as
pairs of content and place. `Crash` also stands for a launch that begins with an
empty `sys.modules`.

### Terminus, Swebench, GraphColouring, FrontierTest

All four are about what an evaluation finds in a directory that an earlier
attempt has used.

* `Terminus`: a Harbor job starts and ends trials in any order (external) and
  may be killed at its limit; the result is made of all trial directories.
  `--force` clears the job directory first.
* `Swebench`: the snapshot of an iteration is copied from upstream or from an
  earlier one and the trusted script is mirrored into it; the proposer may edit
  that copy; the agent command leaves a patch file or prints a patch; grading
  uses the trusted script; `Tag` compares and puts the copy right.
* `GraphColouring`: overlay of the tree, copy and build in a workspace, one run
  for a graph, whose program appends a csv row and may outlive its harness
  (`orphans`); `Rank` publishes the frontier. `LexFirst` is
  `lex_pareto_frontier`, which the loop does not use.
* `FrontierTest`: train results and test results are two directories with the
  same ids; a stored result of the same id and config is taken unless `--force`.

`Evaluators` puts these modules and `BaselineSuite` side by side: `kind`, the
task of the run, is chosen at the start, and the others stand still. It states
what the six promise as five invariants and an action property, each a
conjunction of those of its parts.

### BaselineSuite

`Launch` with a request (examples, model, scaffolds, force), then for every
repeat `ReuseRepeat`, `StartRepeat` or `Raise`, `Evaluate`, `FinishRepeat` and
`FinishSuite`; crashes between and within writes; `Load` is
`load_baseline_candidates` together with the count check of `run`.

## 3. Runs

| run | question | bounds | distinct states |
|---|---|---|---|
| `pareto_resume` | do results, archives, indexes, frontier and streak stay consistent over crashes and resumes? | 3 iterations, 2 names, 2 sources, passrates 0..2, top 2, 2 crashes | 5.9 million |
| `curaii_resume` | is the base sound when it comes from all results; are streak and budget right; are `RunLedger` and `SourceLedger` implemented? | 4 iterations, warm-up 1, top 1, 1 crash | 1.7 million |
| `fresh_relaunch` | what holds when the directory is started again without `--resume`, or with `--baseline-dir`? does the run move on to its end? | 2 iterations, 2 seeds, 1 crash, any relaunch | 0.39 million |
| `proposer_calls` | is the evaluated proposal the right one, over retries, repairs, waits and a crash; do the calls end, and keep `SourceLedger`? | 2 iterations, 2 attempts, 1 usage-limit retry, 1 file, 1 crash | 0.51 million |
| `evidence_store` | is what an agent is told of earlier iterations right, over crashes and resumes? | 3 iterations, 1 name, 1 source, passrates 0..2, top 2, 2 crashes | 0.97 million |
| `store_tables` | do the answers of the store's tools agree with each other and with the results? | 3 iterations, 2 tasks, lists of 1 task, top 1, 4 attempts | 0.10 million |
| `agent_call` | is every use and every limit noticed, and does the call end? | 2 events, 1 file, 1 change of the host's login, resets at 0, 3, 9, 1 retry | 0.20 million |
| `context_policy` | what is an agent shown, and what does the bandit's ledger lose? | six policies, forced budget or not, 3 iterations, 2 crashes | 2.7 million |
| `evaluators` | is what is scored and tested what was proposed, scanned and run? | each of the six modules with two tasks or modules, 2 iterations (1 for Terminus), 1 crash or 2 launches, 2 repeats of a suite | 5.3 million |
| `operators` | do the pure parts of the runners agree with shell, container and file system? | all commands up to 4 tokens with line breaks anywhere, all configurations, all paths up to 4 names | 4.8 million |

`claude_tools` and `lex_frontier` expect a violation: section 4.

Why the bounds are enough. Three iterations are needed for a base that is not
the latest result, for a crash after a completed iteration that is followed by
an empty one, and for an iteration that falls out of a top-2 frontier. Two
crashes let a crash hit the recovery from another crash. Two names let the
rerun of an iteration choose another name than the crashed attempt, which is
what could leave two results. Four iterations with a warm-up of one take the
ladder from `low` to `high` and back. In `ProposerIteration` a workspace is
rebuilt or reused at most four times per iteration, and stale files of a second
iteration or launch need two iterations and one crash. Sources and files are
symmetric and only compared; symmetry is used in runs without liveness. In
`evidence_store` an iteration is identified by its number in all tables, so one
name and one source are enough.

`agent_call`: two events are enough for a rejection followed by something else
and for a use cut off by the timeout; the reset times are none, before the cap
of the wait and after it. `context_policy`: the windows and caps are chosen so
that each of them binds within three iterations. `store_tables`: two tasks give
a breakthrough together with a regression, or two breakthroughs, of which lists
of one task (`max_examples`, 20 in the tool) hold one; four attempts give a
repair, a rerun and still two committed iterations. `evaluators` is a disjoint union: the variable
`kind` chooses the module at the start, so each of the six is explored in full
at the bounds of the configuration. `SmallSpec` of `MCEvaluators` fixes the
options of the five tasks that the run is not of, which no step reads, and what
the first launch of a baseline suite asks for: the second asks for anything.
`SmallProposal` keeps the proposals of scaffolds few: at most one marked file
each, no absolute path of the host, and no helper beside a project, a path in the
container or a name that does not spell its file. One of the two modules is
nested.
`operators`: four tokens hold a separator, a wrapper, a command and an operand,
four names a path out of the workspace and back.

Every bound is a constant: `MaxCrashes`, `Launches`, `MaxLaunches`, `Attempts`,
`MaxProposals`, `MaxEvents` and `MaxRotations` stand in guards and are not the
program's; `Iterations`, `TopK`, `MaxRetries` and the like are its own
configuration. Deadlock is checked where the modelled process always goes on;
`agent_call`, `evaluators`, `operators` and `claude_tools` switch it off, since
a call, an evaluation or an input is at some point over.

### Properties

* `SourceMatchesResult`: the cleanup and the result files agree.
* `StagnationExact`: under `pareto` the count stepped live and the count
  rebuilt by replay are the same function of the stored results.
* `PublishedFrontier`, `IndexesFollowResults`: `best_candidates.json` and the
  two indexes follow the results.
* `BaseSound`: the base the agent patches is an earlier completed iteration
  that strictly beats all seeds on disk, and the archived source is the scored
  one.
* `StreakIsTrue`, `BudgetFollowsStreak`: the ladder, up to the first crash.
* `KeepsLedger`, `KeepsSources`: refinement of `RunLedger` and `SourceLedger`;
  the second says among other things that no completed iteration runs again
  (`NeverRerunCompleted`).
* `RelaunchSound`: a relaunch from scratch in an old directory leaves the seeds
  that were scored (`SeedsKept`) and ranks only what is on disk
  (`RankedResultsOnDisk`).
* `OwnProposal`, `ScoredTogether`, `NothingFoulKept`, `StoreDescribesSource`:
  the agent calls.
* `EvidenceReachable`: at the moment the agent starts, the store is not behind
  the index (`AgentSeesIndex`), every eval row leads to its traces
  (`EvalRowsReachTraces`), and no iteration is committed without traces and rows
  (`CommittedHasEvidence`).
* `BasesTrue`: the base in the store is the one that was patched, over reruns
  that choose another (`BaseIsRecorded`), and outcomes compare with it
  (`OutcomesCompareBase`).
* `FrontierFlagsTrue`, `AdvancesTrue`: the flags an agent reads are those of the
  results, and what the index calls an advance was one.
* `ExplainAgrees`: the tasks a proposal won and lost, listed from the rows, are
  as many as its outcome counts where these do not exceed `max_examples`, and
  else the list is full: `runstore_link_explain_proposal` cuts both lists
  (`run_store_mcp_server.py:576-581`). Each task that is listed is rightly in its
  list. `HistoryStable`: the frontier as of an earlier
  iteration never changes afterwards. `ChainComplete`: links lead from a
  proposal to its candidate, its tasks and their traces.
* `LimitNoticed`, `NothingUnseen`: what the stream told before an attempt ended
  is in its result. `RetriesReady`: an attempt after a limit has the present
  login (`CredentialsFresh`) and is not early (`ResumesAfterReset`). `CallEnds`:
  every step of the runner brings the call nearer to its end (`RunnerMovesOn`),
  which it reaches.
* `ReferencesFinal`: an agent is shown only iterations that no resume will do
  again. `HotWasRead`: a file is hot because it was read. `LostToCrashes`: what
  the bandit forgets.
* `OwnEvidence`: a score is made of this attempt's trials, patches and rows
  (`Terminus!OwnTrialsOnly`, `Swebench!PassedOwnPatch`,
  `GraphColouring!RowsOwn`).
* `WorkspaceSound`: edits are compiled and inherited, the grading script of a
  workspace is trusted, the tag is right (`EditsKept`, `StartsTrusted`,
  `FlagsTrue`).
* `BaselineSound`: a finished suite holds what was asked for, and so do the
  seeds taken from it (`SuiteIsRequested`, `SeedsSound`).
* `FoulOnlyUnseen`: code with a forbidden marker is measured only in two places
  that no scan looks at: a nested module whose file the proposal does not spell
  (train and test), and, in the final test, a module that a later proposal has
  replaced, be that one refused. Markers at the top of the directory, in
  `sys.modules`, in an inherited project or left by a rejected or lost iteration
  are never measured. `MeasuresProposal`: what is measured is the proposal at
  hand. `TestedAsTrained`: the final test measures the code of the
  train result (`CandidateSource!TestedAsTrained`,
  `FrontierTest!TestMatchesTrain`).
* `AccessReported`, `Equipped`, `PathsJudged`: the pure operators.
* `Ends`, of `OptimizerRun` and of `ProposerIteration`: `MovesOn` and
  `<>(pc = "done")`. `MovesOn` is the safety core of termination. It orders the
  states by a tuple of numbers (`Place`: crashes, iteration, prompt, attempt,
  retries, step; or crashes, stretch of the launch, iteration, step, seeds done)
  and says that every step goes forward in it, and that the tuple stays within
  finitely many. No loop of agent results, empty iterations, crashes and
  relaunches can then go on for ever; that a run does not stop on the way is
  what fairness adds.

Each property has a mutant in `PROJECT.json`: a changed form of a definition
that models code (the `Fault...` operators and a few others of the modules),
with which TLC finds the property violated.

### Fairness

`OptimizerRun` assumes weak fairness of `Launch \/ Step`, `ProposerIteration`
of `Step` and `AgentCall` of `Runner`: a process that is alive goes on, and
somebody starts an interrupted run again. The first is the straight-line Python
process, in which every external wait has a limit: an attempt ends by
`config.propose_timeout_s` (the action `Timeout`, always enabled while the
runner waits), usage-limit waits by `config.rate_limit_max_wait_s` and
`config.rate_limit_max_retries`. The second is the operator, whom `--resume` is
made for. Nothing is assumed of the agent, which may hang in the middle of a
tool use, nor of how an evaluation ends, and `Crash` is not fair.

## 4. Where the code and its documentation disagree

Two runs expect a violation of a property that states what a docstring says:

* `claude_tools` (`ToolsReachStore`): `_write_proposer_agent_config` gives
  Claude's RunStore server the relative `RUNSTORE_DB` and `PYTHONPATH`
  (1129-1139), although the agent starts it in the workspace. The docstring of
  `_codex_mcp_servers` (992, 997-1002) calls the two functions mirrors of each
  other and explains why the paths have to be made absolute. Without a container
  and with a relative `--out` Claude's tools have no store.
* `lex_frontier` (`FrontierIsLex`): graph colouring candidates are ranked by
  `pareto_frontier` (3744), that is by passrate and id. `pareto.py:102-107` and
  121-125 say that the evaluation rule of this benchmark needs the lexicographic
  frontier, which nothing in the loop calls.

The modules keep a few statements of the documentation, or of what one would
like to hold, that fail. Each can be seen to fail by adding it as an `INVARIANT`
to the configuration named; those of `CandidateSource`, `Terminus`, `Swebench`,
`BaselineSuite` (instances `C`, `T`, `S`, `B` of `MCEvaluators`) and
`ShellAccess` (`S` of `MCOperators`) need a definition in the MC module that
names them, for instance `Flagged == kind = "swebench" => S!EditsFlagged`.

| statement | where it is made | configuration | how it fails |
|---|---|---|---|
| `NeverRerunCompleted` | comment at 284 | `fresh_relaunch.cfg`, `RelaunchModes = {"resume"}` | `--baseline-dir` given together with `--resume` wins (227): completed iterations run again |
| `EveryResultRecorded` | `README.md:153-154` | `pareto_resume.cfg` | a result whose rows were not written when the process died counts as completed and never gets them |
| `StreakIsTrue` without `crashes = 0` | 303, "the true streak" | `pareto_resume.cfg`, `Policy = "progressive"` | the rebuilt streak asks for a strictly better passrate, the live one for a place in the frontier |
| `NotPenalised` | docstring 2322-2324 | the same | `next_budget` survives the rebuild, so the climb of the empty iterations is not forgotten |
| `StallsTrue` | 407-408, "a single source of truth" | `evidence_store.cfg` | an iteration ended empty and was marked stalled; it runs again and improves, and a crash hits before the mark is renewed |
| `ChangedFilesMatchDiff` | `docs/UNIFIED_RUN_STORE.md:189-191` | `proposer_calls.cfg` | `modified_files` keeps files of an earlier diff of the iteration |
| `ArtifactIsCurrent` | | `store_tables.cfg` | every content an artifact had stays, the largest is served |
| `LimitIsReal` | | `agent_call.cfg` | a window still open whose overage is `rejected` counts as the limit (`claude_runner.py:792-795`) |
| `FrontierIsTested` | | `evaluators.cfg` | the final test imports the shared `generated/` directory after later proposals wrote to it |
| `ParentsVisible` | comment at 2205-2207 | `evaluators.cfg` | a marked module that an earlier iteration left in a package of `generated/` is imported by a later candidate: the scan takes `root.glob("*.py")` (2208), the copy the whole tree (3519) |
| `CountIsExamples` | | `evaluators.cfg` | a Harbor job that is killed leaves fewer trials, and the count is that of the trials |
| `EditsFlagged` | | `evaluators.cfg` | a flag is lost with the process: the tag is not in the stored result |
| `SuiteIsAlwaysRequested` | | `evaluators.cfg` | after a crash in a launch with another request the reused repeats are of both |
| `ReportedAreFiles` | | `operators.cfg` | words of a command that are not files are reported as files read |

## 5. Proofs

Eight modules hold proofs, for every value of the constants that satisfies the
named assumptions. `ResumeOnly` says that an interrupted run is started again
with `--resume` and without `--baseline-dir`. It is needed: the first row above
refutes the statements without it, and a fresh relaunch in an old directory runs
iterations again by design.

| theorem | states | assumes |
|---|---|---|
| `OptimizerRunProofs!TypeCorrect` | `Spec => []TypeOK` | |
| `RelaunchIsSound` | `Spec => RelaunchSound` | |
| `RunMovesOn` | `Spec => MovesOn` | |
| `ResultsMatchSources` | `Spec => []SourceMatchesResult` | `ResumeOnly` |
| `OneResultPerIteration` | `Spec => []OnePerIteration` | `ResumeOnly` |
| `ResumeContinues` | `Spec => [](NeverRerunCompleted /\ MemoryIsDisk)` | `ResumeOnly` |
| `RunKeepsLedger` | `Spec => KeepsLedger` | `ResumeOnly` |
| `RunKeepsSources` | `Spec => KeepsSources` | `ResumeOnly` |
| `FrontierIsPublished` | `Spec => []PublishedFrontier` | `ResumeOnly` |
| `BaseIsSound` | `Spec => []BaseSound` | `ResumeOnly` |
| `IndexesAreSound` | `Spec => []IndexesFollowResults` | `ResumeOnly` |
| `StagnationIsExact` | `Spec => []StagnationExact` | `ResumeOnly`, policy `pareto` |
| `StreakCountsJoins` | `Spec => []StreakIsTrue` | `ResumeOnly`, policy `progressive` or `curaii` |
| `BudgetIsEarned` | `Spec => []BudgetFollowsStreak` | the same |
| `EvidenceTypeCorrect` (`EvidenceStoreProofs`) | `ESpec => []EvidenceTypeOK` | |
| `EvidenceRunKeeps` | `ESpec => KeepsLedger /\ KeepsSources` | `ResumeOnly` |
| `EvidenceIsReachable` | `ESpec => []EvidenceReachable` | `ResumeOnly` |
| `FlagsAreTrue` | `ESpec => []FrontierFlagsTrue` | `ResumeOnly` |
| `AdvancesAreTrue` | `ESpec => []AdvancesTrue` | `ResumeOnly`, policy `pareto` |
| `BasesAreTrue` | `ESpec => []BasesTrue` | `ResumeOnly` |
| `ProposerIterationProofs!TypeCorrect` | `Spec => []TypeOK` | |
| `ProposalIsOwn` | `Spec => []OwnProposal` | |
| `SourceAndProposalTogether` | `Spec => []ScoredTogether` | |
| `NothingFoulLeaves` | `Spec => []NothingFoulKept` | |
| `StoreIsTrue` | `Spec => []StoreDescribesSource` | |
| `CallsAreBounded` | `Spec => []CallsBounded` | |
| `CallsKeepSources` | `Spec => KeepsSources` | |
| `CallsMoveOn` | `Spec => MovesOn` | |
| `LimitIsNoticed` (`AgentCallProofs`) | `Spec => []LimitNoticed` | |
| `UsesAreSeen` | `Spec => NothingUnseen` | |
| `RetriesAreReady` | `Spec => RetriesReady` | `Buffer > 0` |
| `RunnerGoesOn` | `Spec => RunnerMovesOn` | |
| `ReferencesAreFinal` (`ContextPolicyProofs`) | `Spec => []ReferencesFinal` | |
| `HotWereRead` | `Spec => []HotWasRead` | |
| `LossIsBounded` | `Spec => []LostToCrashes` | |
| `ChainsAreComplete` (`StoreTablesProofs`) | `Spec => []ChainComplete` | |
| `ExplanationsAgree` | `Spec => []ExplainAgrees` | |
| `HistoryIsStable` | `Spec => []HistoryStable` | |
| `ScoresAreOwn` (`EvaluatorProofs`) | `Spec => []OwnEvidence` | |
| `WorkspaceIsSound` | `Spec => []WorkspaceSound` | |
| `BaselineIsSound` | `Spec => []BaselineSound` | |
| `ForbiddenOnlyUnseen` | `Spec => []FoulOnlyUnseen` | |
| `TestIsOfTrained` | `Spec => []TestedAsTrained` | |
| `ResultIsOfProposal` | `Spec => MeasuresProposal` | |
| `AccessSafety` (`OperatorProofs`) | `Spec => []AccessReported` | |
| `EquippedSafety` | `Spec => []Equipped` | |
| `PathsSafety` | `Spec => []PathsJudged` | |

All of them rest on the `ASSUME`s of the modules, which TLC evaluates in every
run: configured numbers are numbers (`TopK` is at least 1 in `Frontier`, where
`FRONTIER_TOP_K` is 3), sets of tasks are finite where they are counted, values
for "absent" are none of the values they stand beside. `Buffer > 0` says that
`rate_limit_buffer_s` (97, by default 120) is not configured away: with 0 a retry
may start in the very second of the reset. `Baseline` and `SeedNames` are finite,
which `RunMovesOn` counts on. `OnePerIteration`, `MemoryIsDisk`,
`NeverRerunCompleted`, `CallsBounded` and the types are proved only; TLC checked
them while the proofs were written, and no run repeats it. `RunMovesOn`,
`CallsMoveOn` and `RunnerGoesOn` are about `MovesOn` and `RunnerMovesOn`, which
the runs check as parts of `Ends` and `CallEnds`.

### The run directory

`TypeInv` adds to the types which positions of `pc` go with which values of the
locals. `ResultInv` is the inductive invariant behind the result theorems:
besides the properties it says at which positions the running iteration may
already have a result, that this result is `evaluated`, that nothing above it is
stored, and that the list in memory is the disk minus that one result.
`SourceMatchesResult` alone is not inductive, because `Resume` clears archives
from the start iteration on, and only the order of iterations says that no
result is up there. `BaseInv`, `PublishInv` and `IndexInv` are the
strengthenings for base, frontier and indexes, each proved relative to
`ResultInv`. `RunKeepsLedger` maps every step to a step of `RunLedger` or to a
stutter: `EvaluateSeed` and `EvaluateCandidate` are `Score`, `SaveBest` and
`FinishIteration` are `Publish`, `CrashInBestWrite` is `Lose`.

`RunKeepsSources` maps the same steps to `SourceLedger`: `StartIteration` is
`Begin`, `Propose` is `Offer`, a failed or rejected proposer and a crash are
`GiveUp`, `Resume` and `CrashInCleanup` are `Clean`. What `Begin` asks is
`AheadInv`: nothing is archived at or above the iteration that starts. The
delicate case is a crash before the first result. Such a run is started from
scratch, which cleans nothing, so the archive must be empty by itself until the
seeds are through. `EvidenceRunKeeps` carries both refinements over to the run
loop with its databases, of which every step is one of the run loop.

`RunMovesOn` also does without `ResumeOnly`. Each action gets a step that says
which place of the tuple it raises; `SeedInv` bounds the seeds that are left by
`SeedNames` and the names of the baseline. `NeverBack` (in
`ProposerIterationProofs`) says why this is worth having: what moves forward in
the lexicographic order is never back where it was. `CallsMoveOn` needs
`PendingInv` (between two iterations the stage is the first one) and
`LaunchInv` (a launch counts from nothing).

`RelaunchIsSound` does without `ResumeOnly`. `RankInv` says where the process
may rank something and where an iteration may have returned something, and
`WritesAreOwn` that a result disappears only when the running iteration scores
over it or crashes doing so.

`StagnationIsExact` needs two facts about the state file: nothing has touched it
before the first result (`Untouched`), and afterwards it holds the streak of the
list the running iteration started from (`Streaks`); once `UpdateState` has run,
that of the list with its result. `ImprovedNow` carries it: the live rule (the
best passrate of the list rose) and the replayed one (better than every result
of an earlier iteration) agree on the running iteration; `ImprovedEarlier` says
that later results do not change the answer for an earlier one.

`StreakCountsJoins` and `BudgetIsEarned` share `Climbs`: until the first crash
the state file holds the streak and the budget of the list the iteration started
from (`LadderOf`). `JoinedOf` shows that a later result does not change who had
joined the frontier of its time, `AdvancedNow` that the live rule is that of
joining, and `NextRung` counts the idle iterations after the warm-up, one rung
for each.

### What the next agent is told

`EvidenceTypeCorrect` holds for every kind of relaunch. Its proof corrected the
model: eval rows that a cut-short commit replaces by id lose their link, also
those of a candidate with the same id and another score (`CrashInCommit`).
`EvidenceStoreProofs` first shows that a step of `ESpec` is a step of the run
loop, so all of the above holds there too. `IndexShown` says that rows are never
taken away and that what has no row is blank in both databases; then an import
makes the store equal to the index, and the refresh of `EStartIteration` is the
last write before the agent. `EvidenceRows` says that eval rows belong to stored
results and are linked or have traces to be linked to; its step needs that the
two commits hand over all results of their iteration (`OwnResults`), so that
replacing rows loses none, wherever `CrashInCommit` cuts. `FlagInv` ties the
frontier flags to the list in memory, with a flag nowhere before the first
result or index. `AdvancesTrue` is inductive together with `Streaks`, and
`ImprovedStays` keeps an advance true when results are added.

`BasesAreTrue` is about a column that is written with COALESCE: an iteration
that had a base, crashed and runs again without one would keep the old value.
It cannot happen, because a choice of bases, once there, does not go away
(`Worth`, `BasesStay`, `WorthStays`): results are only added, more results leave
some candidate that beats the seeds in the frontier, and its archive is never
cleaned. So `BaseRows` can say that throughout an iteration the store names the
base at hand, that a stored result has the base it was made from, and that
outcomes belong to stored results.

`ExplanationsAgree` holds for any `MaxExamples`: a set that does not fit has a
subset of that size (`SubsetOfSize`, `CutIsFull`), and counts and lists are read
from the same rows.

`TablesInv` of `StoreTablesProofs` has three parts. `EvalsTraced`: a row of a
result has its candidate and its traces, and while an agent works the store is
`Fresh`, its links and outcomes being those of its rows (`RefreshedIsFresh`).
`RowsStable`: the rows of an iteration's frontier are the frontier of the
results up to it, without the seed. It holds over `Score`, since a frontier
changes only with the results that it is of (`FrontierStable`), and over a
relaunch, which saves the frontier again. `StateFrontier` takes the last
iteration that has rows; if the iteration asked for has none, it would fall back
to an earlier one. That the earlier ones have none either (`SeedAloneBefore`:
once only the seed is on the frontier, it always was) is the heart of
`HistoryIsStable`. Its proof takes the best of the proposals (`BestExists`):
only the seed can be better than it, so the frontier has one place, and then the
seed is better than every proposal.

### The agent and the evaluators

* `ProposerIterationProofs`: `PendingInv` says that from `Begin` to the
  evaluation `pending_eval.json` is absent or of this iteration and launch, that
  its content goes with the stage of the repairs, and that the archive and the
  run's copy come from the same workspace. `FoulInv` says that a workspace an
  agent may still be called in, or that is being archived, is not foul.
  `StoreInv` says that scored iterations lie behind the running one and that its
  rows are written in the order of its steps. `CallsInv` counts calls by attempt
  and repair stage.
* `AgentCallProofs`: `CallInv` is `Shape`, `LimitTold` (a rejection is in the
  stream, or in the result that was parsed from it) and `UsesTold` (a use that
  may have had an effect is in the stream, except a use of Codex that is still
  under way).
* `RetriesAreReady` rests on `Clock` (times are numbers, `ResetsIsTime`) and on
  `WaitReaches`: the wait passes the reset by the buffer, or is the longest.
* `ContextPolicyProofs`: `PolicyInv` is inductive. `Latest` says that the
  iteration at hand is later than all that have a candidate; `ReferencesKnown`
  that what is shown, what was just read and what the ledger remembers are
  iterations with a candidate, so that a resume does none of them again;
  `ReadsSeen` that a file with reads in the ledger was read; `CountedInv` that
  the candidates the ledger does not count, except that of the iteration about
  to be counted, are as many as the crashes. That `Filled` and the other choices
  take from what is available are lemmas on `Selections`.
* `EvaluatorProofs` proves an invariant for each of the six modules and puts them
  together in `EvaluatorsInv`; `StepsApart` says that a step of the run is a step
  of one of them and a stutter of the others.
  * Terminus (`TrialInv`): versions of a candidate's code are fresh, and a job
    directory that was cleared, or whose jobs were all finished, holds trials of
    the running version only.
  * SWE-bench (`SnapshotInv`, `FlagInv`): attempts are numbered, so a patch in a
    directory is of an earlier attempt or of this one; the trusted script is
    followed from the snapshot to the tag; from the edit to the tag the copy in
    the snapshot shows whether the proposer touched it.
  * Graph colouring (`ColouringInv`): a row that a score was taken from is of
    this attempt or of a program left running; the tree that was measured is, but
    for the slot the overlay fills, the one its iteration left and hands on.
  * `CandidateSource` (`CleanInv`, `SourceInv`, `FoulInv`): all contents were
    proposed already (`ContentsKnown`), so the next proposal's number is on none
    of them; while the run proposes, `sys.modules` holds of the top of the
    directory only what was scanned (`CacheClean`), also after a load that raised;
    and so what was trained carries a marker only out of the scan's sight
    (`TrainedSeen`). The archive of an iteration with a result is as it was
    measured, and so is its module, or a later proposal has overwritten it
    (`Kept`). `FoulIsLater` carries the scan to the final test: a marker now in a
    module that was scanned for a result was put there later.
  * `FrontierTest` (`FinalInv`): as long as a directory is one run's, a result is
    of its iteration's archive as it still is, and tests are of that version.
  * `BaselineSuite` (`SuiteInv`): a summary says how it was asked for, and its
    measurements are that or were left by a launch that crashed; the repeats
    before the one at hand match the request.

### The pure operators

`OperatorProofs` is about commands of any number of tokens and paths of any
number of names, so it needs induction over their length, and the library's
induction theorems take an operator, which the provers cannot instantiate. It is
done on sets of numbers instead: a set of numbers has a least element
(`LeastNumber`), so a set with 0 and with `n + 1` for each of its `n` holds them
all (`Induction`). The operators are folds, which are functions chosen by an
equation over the places of a sequence. `FoldExists` shows once that there is
such a function, and then the equation says what it is at each place:

* Paths: `IsWay` is where a path is after each of its names. A plain path is its
  own normal form (`PlainIsNormal`), `PrefixAndRest` takes what lies below the
  workspace off, and `BoundaryIsJudged`, `ReportIsTouched` and `ChargeIsTouched`
  are the three parts of `PathsJudged`.
* Commands: `SplitAtSeparators` finds every command between two separators among
  the parts of `Segments`, `CommandOf` what is left of it behind assignments and
  one wrapper. The command of the shell begins no earlier than its part
  (`StartOf`) and its name stands before its operands (`NameIsBefore`). If the
  name is not `Hidden`, the operand stands among the arguments that the code looks
  at, behind the same token (`OperandIsArgument`), and unless it is `Swallowed`
  it is found there (`ArgumentIsFound`). A redirection is reported wherever it
  is (`RedirectIsReported`).
* `Equipped` is a case analysis over configurations (`LoginIsRight`,
  `CodexFindsStore`).

### Only model-checked

That a run does not stop before its end, the other half of both `Ends` and of
`CallEnds`, is liveness under fairness, which like `ENABLED` is out of the
prover's reach. The two properties that are expected to fail have
counterexamples, not proofs. Every other property of a run is the statement of a
theorem.

## 6. Not modelled, and what is left

Not modelled at all: the LongMemEval and LoCoMo tasks (download, splits, a judge
and prompts; they inherit the run loop), the command line, prompts and
configuration (text), the scaffolds and the model client (the programs under
optimisation and HTTP), trace queries and reports (read-only, derived, never
read by the loop). A judge or solver that is out of order is stored as a score
of 0 (`evaluation.py:282`) and looks like any other result.

Left out of what is modelled: `--skip-scaffold-eval` and `force_budget` of
the run loop; the build cache, which its empty list of families
(`BUILD_CACHE_SOURCE_FAMILIES`) switches off; average score and tokens; the
contents of prompts, skills, summaries, log files, traces and diffs; the search
of Python one-liners and the flags of the agents' command lines; `tool_accesses`,
organized payloads and the text search of the RunStore; a refresh of the store
that raises; symbols and factories of candidate modules; data sets, Harbor's
options, input graphs and the seed sweep. In a container the code does not judge
accesses, so neither does the model.

Known, and not shown by a run:

* `README.md:15-17` and the docstring at 3075-3083 speak of a Pareto frontier of
  passrate and tokens; `pareto_frontier` ranks by passrate alone.
* A resume after a crash during seeding never evaluates the missing seeds, and
  until an iteration has an index the frontier flags stay NULL (3789-3792).
* A fresh relaunch may take a stored score of the same name and config for other
  source code (`ReuseResult`); the RunStore is not cleaned then either.
* A `bandit_state.json` that is cut short loses the whole ledger.
* An iteration that started from the clean source has no base, and its outcome
  is computed against the latest earlier iteration (`run_store.py` 1499-1509).

What is left, in this order: `tool_accesses` and organized payloads, which are
filled with COALESCE over the calls of an iteration; a refresh that fails while
the loop goes on; the text search of the store.
