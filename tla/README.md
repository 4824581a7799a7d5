# A verification project for remote-observer-mcp

TLA+ models of remote-observer-mcp, the TLC runs that check them on small
instances, and TLAPS proofs of the properties that should hold for every size.
All source paths below are relative to the repository; `PROJECT.json` maps every
definition to the lines it models.

## 1. The system

remote-observer-mcp is an MCP server with two lanes.

* **Observation.** An agent calls one of 54 read-only tools. A tool looks up a
  registered host or workspace, runs fixed commands on it through a transport
  (the gateway itself, or ssh), parses the bounded and redacted output, and
  leaves one audit event.
* **Execution.** A request document is committed, a workflow run is dispatched
  for its ID, preflight validates it, a person approves it, and a self-hosted
  runner starts the executor, which runs the command on its target and prints
  evidence.

### 1.1 Inventory

| component | state it keeps | operations | works with | what is hard | what makes it correct |
|---|---|---|---|---|---|
| `transports/base.py` | one child, two pipes, two reader tasks, a deadline | `run_process`, `_read_bounded` | asyncio, `policy.py`; called by every tool | callbacks in any order, deadline against exit, descendants holding pipes, cancellation | nothing lost or invented in a result, no child left, no writer blocked, deadline enforced |
| `transports/local.py`, `ssh.py` | none | `run`, `build_argv` | `run_process` | exit code 255 stands for ssh and for the command | errors named for what happened |
| `policy.py` | none | `sanitize_streams` | `run_process`, executor | two budgets from one limit, characters of several bytes, cut before or after redaction | within the limit, as long as possible, honest flags |
| `audit.py` | the event log (stderr) | `run_observed_tool` | every tool | interleaved calls, errors, cancellation | one event per answer, with its outcome and flags |
| `backends/` | none | `resolve_backend` | tools, transport | probes over the network, one missing after the other | first available in catalog order, unsupported only if none is |
| `observers/*`, `server.py` | none | 54 tools | registry, transport, audit | missing commands, tolerated failures, limits | right host, honest flags, fallbacks |
| `config.py` | hosts, workspaces, resources (immutable, while the file may be edited) | `load_config`, lookups | everything | rules between fields, checked once and relied on far away; a file that changes under a running server | what was listed stays valid; no tool meets a host it cannot reach |
| `workspace.py` | none | path checks | workspace tools | many spellings of one file, and two ways between relative and absolute paths | one answer per file however it is spelled; what is listed can be read |
| `execution/model.py`, `secrets.py` | none | `from_json_bytes` | validator, executor | a rule per field and between fields; quoting for the shell of the target | both users accept the same documents, and what runs is what was approved |
| workflow, validator, `executor.py` | runs, attempts, approvals, groups; one command per executor | dispatch, preflight, approve, execute, report | GitHub, runners, ssh, targets | re-runs, a moving branch, concurrency groups, timeouts, runners that die | runs only what was approved, once, with evidence |
| `tmux_helper.py`, `CrossUserTmuxTransport` | none | translate and run | sudo, tmux | two translations that must agree | same command on both sides |

Calls of tools are asyncio tasks in one process: they share nothing but the log
and the immutable registry, and interleave at the awaits on commands. The two
lanes share `sanitize_streams`, the registry format and the shape of
`run_process`. The list of hazards, each with its line and its properties, is in
`PROJECT.json`.

### 1.2 Plan, and where it stands

The order is by how much can go wrong that a unit test would not reach.

1. `StreamBudgets`, `ProcessRunner` with `BoundedRun`, proofs: **done**.
2. `SanitizeStreams`, proofs: **done**.
3. `ExecutionBridge` with `ApprovedExecution`, proofs: **done**.
4. `ObserverTools`, `ToolCall`: **done**; `AuditTrail`, which it implements, and
   proofs of all its safety properties: **done**.
5. `ExecutionRequests`: documents, the validator and the executor deciding
   alike, and what a request becomes on its target: **done**.
6. `WorkspacePaths`: **done**, and proved about through `Gateway`.
7. `Registry` over `Documents`: **done**.
8. `TmuxHelper`: **done**.
9. `Gateway`, which composes 5 to 8 with a configuration that is edited while a
   server runs, and proofs of all its properties: **done**.
10. Left: `_select` of `structured.py` over bounded documents; the command line
    of `workspace_search` and what its rows become; the columns of the other
    tools' output.

## 2. Modules

A definition named like another one with a suffix (`MayRead_StopsAtCap`) is a
seeded fault: no action uses it, and `PROJECT.json` names the property that
catches it when it takes the place of the definition after it.

### StreamBudgets, SanitizeStreams (policy.py)

`StreamBudgets` is the budget arithmetic of `sanitize_streams` on sizes alone.
`SanitizeStreams` adds texts: sequences of characters that encode to one byte or
to three, and credentials, which are two characters that a pattern recognises
only together and which are replaced by a marker. `Encode`, `Decode`, `Redact`,
`Truncate` and `Sanitize` are the functions of `policy.py`; the raw cap of the
transport may have cut an input inside a credential, and only there. What is left
out: the five regular expressions themselves.

### ProcessRunner, BoundedRun (transports/base.py)

`ProcessRunner` has the coroutine (`pc` is the await it is suspended in), the two
reader tasks, what asyncio has reported (`eof`, `returncode`, `lost`, `woken`,
`expired`) and the processes. Every `await` is a point where anything else may
happen. asyncio completes `process.wait()` at the exit of the child in some
Python releases and only after both pipes are disconnected in others; both
satisfy `requires-python = ">=3.12,<3.14"`, so `wakeAtExit` is chosen in `Init`.
The kernel pipe and asyncio's `StreamReader` are one bounded buffer. `Cancel` is
the cancellation of the MCP call: the awaited reader task is cancelled with it,
the other one and the child go on.

`BoundedRun` is what a transport promises its caller: a truthful result of a
command that ended by itself, a timeout or an error, and what it may do to the
processes. `ProcessRunner` implements it; the property is `ImplementsBoundedRun`.

### ObserverTools, ToolCall, AuditTrail (observers/, audit.py, server.py, backends/)

`ObserverTools` is the 54 tools as data, one definition each: lookup, checks,
backends in catalog order, commands in order, what each exit code leads to, how
output is read, and which facts about the output reach the flags of the answer.
`ToolCall` runs any number of calls of them: a step is what a task does between
two awaits. `Asks` says what each call may ask for. Which executables a host has
is decided when it first matters and kept from then on (`has`, `lacks`). A
command over ssh whose executable is missing ends with 127; on the gateway it
raises; on a host with a `tmux_user`, where sudo starts the helper, a missing
tmux ends the helper with 126 (`TmuxUsers`). `TransportRaises` stands for every
error of `run_process` and `SshTransport.run`.

`AuditTrail` is the promise of `run_observed_tool`: exactly one event per call
that is answered through it, at the moment of the answer and with its outcome;
none for a call that is refused before it enters or that is cancelled.
`ToolCall` implements it (`ImplementsAuditTrail`): `answer` and `log` are the
same variables, and `status` is `pc` without the difference between idle and
running.

Bounds in the table: two containers for `container_list`, and the first few
probes of the environment tools, of which all are alike.

### Documents, Registry (config.py)

`Documents` is what `tomllib` and `json` give: tagged values, so that a number, a
truth value and a string are told apart the way the checks of the code tell them
apart. `Registry` is `load_config` as the predicate `Loads`, one definition per
parser, and the `AppConfig` that a file becomes; then the lookups, the listings
and the choice of a transport with the checks that it repeats. The strings that
match a regular expression are a set. `load_config` has no side effects, so that
the order of its checks only chooses the message, and every failure is one.

### TmuxHelper (observers/tmux.py, tmux_helper.py)

The command that a tmux tool builds (`ToolArgv`), its translation into arguments
of the helper (`HelperArgs`, the function `_helper_args`), the command line of
sudo and what sudo does with it, and the command the helper builds from its
arguments (`Built`). Numbers keep their form (`Minus`, `Decimal`): the bounds of
lines are checked in three places.

### WorkspacePaths (workspace.py, observers/workspace.py)

Paths are sequences of segments with the empty ones, so that a doubled or a
trailing slash is there to be handled. `Normalized`, `Visible`, `Absolute` and
`Relative` are the functions of the code; `Printed` is what find and fd write for
a root, and `CutOff` what the output cap may leave of a line (both external).
`FileOf` is the file of a path as its names say, symbolic links aside. `Segments` is whatever may stand between two slashes. `Fnmatch` and `Undotted` are operator parameters. `Stripped`
is `lstrip("./")`, which eats dots and slashes alike.

### ExecutionRequests (execution/model.py, secrets.py, executor.py)

`Accepts` is `from_json_bytes`, `Request` the object it returns, `RequestArgv`
and `RemoteLine` what `executor.py` makes of it, with `shlex.quote` and
`shlex.join`. The shell of the target reads the line back (`ShellRuns`,
external): quoted words as they are, a bare word at the beginning possibly in its
own way, and `cd -- root && exec ...` as what it says, unless the first word after
`exec` begins with `-` (`ExecOptions`).

### Gateway

The configuration over time. `file` is `config.toml`, `config` what the running
server loaded from it; `known` and `found` are what a client has been told since
that server started (`found` is every row that a listing may have told of, with
the file its line was printed for), and `reply` is the last answer. `Edit` changes the file at
any time, `Start`, `StartFails` and `Stop` are the life of the server, and the
other actions are questions: listings, tools that need a host or a resource, the
tmux tools, `workspace_find`, `workspace_read`, and an execution, which loads the
file anew. One exchange takes place at a time (`TakeNote`): the questions of one
client do not share state, and their interleaving is `ToolCall`'s subject.

`Find` is `workspace_find` with any `max_results`, either backend, an exit code of 0
or 1, and output that was cut or not. After an exit code of 1, which
`_check_result` takes, or where the output was cut, any part of the lines may have
arrived (`Received`). The loop takes the first of them up to the limit, in an order
nobody promises (`Taken`); then the beginning of one more line may be there, which
has become a row of its own (`LastRow`). Every other exit code, and every error of
the transport, is `FindFails`.

### ExecutionBridge, ApprovedExecution (workflow, validator, executor)

Workflow runs (`phase`, `id`, `sha`, `attempt`), the process an executor started
(`client`, `code`), whether a descendant of it holds its pipes (`held`), what the
executor printed (`said`), and the commands on their targets (`running`), which
over ssh outlive their client. As in `_run_process`, a timeout has two stages:
`TimesOut` kills the client and nothing else, and `RaiseTimeout` reports the error
when both pipes are at their end; a client that has exited is reported
(`Testify`, `RaiseConnectionFailed`) after its pipes are, too. Neither wait has a
deadline. `Forks` and `LetsGo` are what descendants do. A document stands for its
bytes, hence for its digest. External: commits, approvals, re-runs, runners, the
loss of a runner, ssh. The concurrency group keeps one run in progress and one
pending, as GitHub documents it; a newer run replaces the pending one.

`ApprovedExecution` is the promise: a command is launched at most once per
approval, an approval is of one attempt and one exact document, and evidence is
of something launched. `ImplementsApprovedExecution` is the refinement, with the
same three variables.

## 3. Runs

| run | question | instance | what it shows |
|---|---|---|---|
| Process | safety, refinement and liveness of `run_process` | one descendant, both asyncio behaviours, cap 2, chunks of up to 2, pipes of 2, 4 bytes per stream; `CooperativeSpec` | passes |
| ProcessDeadline | the same without the assumption on descendants | `FairSpec` | **violated**: the timeout does not bound the call |
| Sanitize | `sanitize_streams` | all pairs of texts up to four characters, all limits up to 13 bytes | passes |
| CallTools | every tool with every outcome, interleaved with another call, and does it settle | two calls: one of any of the 54 tools for any target, the other one of `disk_usage`, or of a tool that refuses early; two hosts, one with a `tmux_user`, two workspaces, unknown and malformed names; `FairSpec` | passes |
| Gateway | files, names, paths, tmux commands and requests | 16 files that differ in one place from a good one, 11 tmux calls, 21 paths with 4 pairs of lines, listings with limits of 1, 4 and 500, whole and cut, 24 documents under 2 IDs; edits and restarts in between | passes |
| CallAudit | an event for every call | one call | **violated**: `environment.py` looks up first |
| CallLoss | truncation told | one call | **violated**: rows dropped silently |
| CallOptional | optional commands | one call | **violated** on the gateway itself |
| BridgeSafety | approval, group, evidence | two runs, two attempts, two commits, two runners, good and bad documents | passes |
| BridgeLiveness | does every run end | three runs over two IDs, one runner, a document for either transport; `CooperativeSpec` | passes |
| BridgeDuplicate | one execution per ID at a time | one run, two attempts | **violated** over ssh after a timeout |
| BridgeEvidence | evidence of every execution | one run | **violated** after a timeout |

**Why the bounds are enough.** The interesting sizes of `run_process` are below,
at and above the cap, a chunk that straddles it, a full pipe and an empty one; a
cap of two with chunks of up to two and four bytes reaches all of them, and the
proofs take every size. One descendant is enough for "somebody else holds the
pipe". Thirteen bytes leave room for every rounding of a quarter, and for a cut
in the first, second and third byte of a wide character in either stream. Two
calls are enough for a property of a call and another one that interferes. In
Gateway each rule of a parser has a file or a document that breaks this rule
alone; the paths have each spelling (empty segments, `.`, `..`, a slash at the
end, dots at the beginning) of a visible and of a hidden file; lines are asked
for at, below and above each bound; and roots end in no slash, one or two.
The tree has more visible entries than the smallest limits of listings and fewer
than the largest, so that a listing ends below, at and beyond its limit. A third
run of an ID is needed for a pending run to be replaced, and is there in
BridgeLiveness, as are two IDs whose runs wait for the same runner. Two attempts
let a re-run meet what its first attempt left.

Deadlock checking is on in Gateway, where something can always be asked. It is
off everywhere else: a call ends, and so does a run whose attempts are used up.
Where something must not stop, a liveness property says so.

**Fairness.** `LoopFairness`: asyncio runs every callback that is due, every task
that can go on, and the timer; what processes do is not assumed, not even that
the child ends. `CooperativeSpec` adds that descendants let go of the pipes in
the end, which ProcessDeadline shows to be needed. `FairSpec` of `ToolCall`:
every command comes back, which is `DeadlineEnforced` under that same
assumption. `CooperativeSpec` of `ExecutionBridge`: GitHub moves runs along and
gives up on approvals that nobody answers (30 days), and the executor runs with
its timer (`Fairness`); commands, ssh and people may do nothing at all. It adds
`HeirFairness`, the assumption on descendants again: `executor.py` has the waits of
`base.py` (151-153, and 156-157 after an exit), which ProcessDeadline shows to have
no end without it. So `EveryRunConcludes` is a promise of the lane for commands
that leave nothing behind for ever; a command that leaves a process with its
output still open keeps its run, its group and its runner until GitHub ends the
job. Under `Spec /\ Fairness` alone TLC finds that at once: launch, fork, timeout,
and the killed client's pipes are awaited for ever.

## 4. Proofs

| module | theorems |
|---|---|
| `StreamBudgets_proofs` | the budgets are in range, use the limit up, and starve neither stream |
| `SanitizeStreams_proofs` | `TypeOK`, `WithinLimit`, `LongestPrefixes`, `NoCredentialPart`, `FlagsHonest`, `NoStreamStarves` |
| `ProcessRunner_proofs` | `TypeOK`, `ReaderAccounting`, `ResultIsComplete`, `NothingLeftBehind`, `ImplementsBoundedRun` |
| `ExecutionBridge_proofs` | `TypeOK`, `OneExecutorPerRequest`, `LaunchedAsWritten`, `SuccessIsEvidence`, `ImplementsApprovedExecution` |
| `ToolCall_proofs` | `TypeOK`, `AuditMatchesAnswers`, `StaysInRegistry`, `FirstAvailable`, `ImplementsAuditTrail` |
| `ToolAnswers_proofs` | `FallbackExhausted`, `TextToolsTell`, `ListingsTell` |
| `Gateway_proofs` | `TypeOK`, `NeverMisconfigured`, `ListedResolves`, `TmuxAgrees`, `RunsAsRequested`, `SpellingIrrelevant`, `FoundIsReadable`, `ListingExact` |

These are all the invariants and refinements that the passing runs check. They
hold for every value of the constants that satisfies the named assumptions in the
modules, which TLC evaluates in every run: sizes are naturals, the names that
stand for "none" are not among the things themselves, registries are functions.
Two say more. `KindsAssumption`: the two characters of a credential are neither
each other nor one of the other kinds. `SegmentAssumption` and `PathAssumption`
say what is a path: a root begins with a slash and goes on after it
(`_SAFE_PATH_RE` of config.py), `split("/")` gives one segment at least, what find
lists below a root is not called `""`, `.` or `..`, and a dot is no control
character.

*ProcessRunner.* None of the properties is inductive: that a result is complete
depends on what the readers knew when they finished, and that on what asyncio
reports. `IInv` adds, in this order: a gone process holds no pipe and a pipe at
its end has no holder (`HoldersInv`); what the loop reports is true of the child
(`LoopInv`); what the coroutine knows at each await (`ControlInv`); a finished
reader has read everything (`ReaderInv`). The refinement maps variables by name
and uses `IInv` in the steps where the result is made. The arithmetic of
`sanitize_streams` enters through the theorems of `StreamBudgets_proofs`.

*SanitizeStreams.* The invariant (`Sanitized`) is that the answer is what
`Sanitize` gives for inputs that do not change; the work is in what `Sanitize`
is. `SequenceLemmas` has the induction: the library's induction theorems take an
operator as a parameter, which the provers cannot instantiate, so an induction
hypothesis is a set (`SetInduction`, `SequenceInduction`), and of `FlattenSeq` it
is shown that the function its definition chooses exists and is the only one.
Encoding, decoding and `PurePosixPath` are all `FlattenSeq` of one piece per element
(`Spread`), so that they distribute over concatenation. On this rests
`CutIsPrefix`: cutting the bytes of a text anywhere and decoding what is complete
gives a prefix of the text that is at most two bytes short of the cut. With the
theorems of `StreamBudgets_proofs` the six properties are arithmetic, but for
`NoCredentialPart`, which needs that redaction leaves the second half of a
credential nowhere (`NoHalfLeft`).

*ExecutionBridge.* The proofs need nothing of `held`: pipes only delay. The approvals of a run are of attempts up to the current one
and of the dispatched commit's document (`AttemptsInv`); a run that is cleared
has passed preflight and holds an approval of this attempt, and no two active
runs share an ID (`ClearedInv`); what is launched was approved, and a client
exists only after a launch in this attempt (`LaunchInv`); there is no evidence
before the executor is done, and an executor that will testify has no command
left running (`EvidenceInv`). Together with `TypeOK` they are inductive, and the
five properties follow.

*ToolCall.* The table of tools enters only through `TableAssumption`, which says
what the rows have in common and which TLC evaluates for all 54 of them. `Begun`
(a running call asks for something registered) makes `TypeOK` inductive;
`Unasked` (no command before a call begins) does so for `StaysInRegistry`. That
the first available backend runs needs `Choosing`: while a call has candidates
left, they are a tail of the catalog's list and all before it are known to be
missing; and `has` and `lacks` only grow. `AuditMatchesAnswers` is inductive by
itself: a step appends an event of its own call and leaves the others' alone.
The refinement uses the same facts, step by step.

*ToolAnswers.* What a call may answer depends on its entry in the table, so each
proof begins with what the entries of the tools concerned have in common
(`Choice`, `Listing`, `Verbatim`), read off one by one. `FallbackExhausted`, as
`Fallback`, stays true once a call has answered because what a host lacks only
grows; and it is true when the call answers because with `Choosing` nothing is left
to try by then, while a command that runs never reports that there is none
(`CommandSupported`). `TextToolsTell` and `ListingsTell` follow from `Told`:
the facts of a call are empty until its only command is read, and its flags are
computed from the facts of that command.

*Gateway.* TypeOK needs that a loaded file gives a configuration. `Sound` says
what `load_config` establishes about it (hosts have a transport with the alias it
needs, workspaces have a host that exists), and `NeverMisconfigured` follows for
every file because an answer is computed from a sound configuration.
`ListedResolves` is inductive with `KnownInv`: what is known was listed from the
very configuration that is in use, and nothing but a stop changes that.
`TmuxAgrees` is a round trip, proved tool by tool for every grammar of names and
every number of lines. `RunsAsRequested` rests on three lemmas: what the shell
reads from a quoted and joined command line is the sequence of its words
(`Join`, `Read`), with and without a directory; a request that was accepted is
what its document says; and every refusal of the executor is one of the
validator's or of the registry's.

Paths: `Named` is a `Spread`, hence distributes over concatenation, drops nothing
twice, and gives nothing for what `rstrip("/")` drops (`StemNamed`). So what a path
leads to is what its root and its names lead to, however both are spelled
(`AbsoluteLeads`), which is `SpellingIrrelevant`. For `FoundIsReadable` every line
of find or fd is the root or begins with `Base(root)`, the root without one slash
at its end; and the stem that `_relative` cuts off is a prefix of that
(`StemOfBase`), so cutting it and putting it back leads to the same file
(`RowLeadsBack`). The invariant is inductive together with `TypeOK`, as rows are
forgotten with the server whose configuration they depend on. Where the root does
not end in two slashes the stem and the base are the same, so the row of an entry
is the entry (`EntryComesBack`), and the rows of any set of lines that show up are
visible entries, all of them for all lines (`LinesComeBack`, `ShownAreSeen`). The
theorem on `ListingExact` then goes through the ways a listing ends: not marked
means below the limit and not cut, so every line that arrived was taken, and all
arrived if the exit code was 0 (`ListingIsExact`).

**Only model-checked.** All liveness (WriterNeverStalls, DeadlineEnforced,
EveryCallSettles, EveryRunConcludes): fairness and ENABLED are out of the
prover's reach. That the table of the 54 tools satisfies `TableAssumption`, and the
registries of a run their assumptions, is evaluated and not proved.

## 5. What the runs found

The disagreements between code and documents are under "findings" in
`PROJECT.json`, each with the run that shows it. Observed besides, and not shown by a
run of its own:

* `process.kill()` of a child that asyncio has dropped raises
  `ProcessLookupError`. It is not an `ObserverError`, so the tool call is logged
  as `internal_error`; in the executor it is an `OSError` and is reported as
  `request_read_failed`.
* A cancelled call leaves no audit event, and its child runs on.
* The raw cap is applied before redaction, so half a credential at the cap may
  not be recognised; the flag says that the output was cut. `NoCredentialPart`
  excepts an input that ended so. `remote-observer-mcp-design.md:289` comes close to
  a sentence against it: "Any suspected secret detection should replace the value
  with a marker rather than returning a partial token." It speaks of what was
  detected, and half a credential is not.
* `process_list` with `procs` reports no rows when the JSON it got was cut.
* Listings with exactly as many rows as the limit are flagged as truncated.
* A listing of `workspace_find` after an exit code of 1 leaves out what the command
  could not read, and does not say so; `ListingExact` promises all entries only for
  0. Where the output was cut, the last row may be the beginning of another.
* An approved argv whose first word is an assignment or a reserved word (`A=B`,
  `if`) is read by the shell of an ssh target in its own way when the request
  names no workspace; locally, and after `cd ... && exec`, it is a program's name.
  One that begins with `-` is an option of that `exec`. `RunsAsRequested` excepts
  these two cases.
* An executor whose runner is lost may go on beside the next run of its ID:
  `OneExecutorPerRequest` counts the executors of runs that GitHub takes for
  executing. What its command does then is in NoDuplicateExecution.
* A root that ends in two slashes lists nothing with find, whose lines keep both
  slashes; `ListingExact` excepts it. A root that contains a colon makes
  `workspace_search` drop every match.
* Names that begin or end with a blank are changed by the `strip()` of listings.
* On a host with a `tmux_user` a missing tmux is `command_failed` (exit code 126
  of the helper), and `unsupported_capability` elsewhere.
* `schema_version` may be `true` or `1.0`, which Python finds equal to 1.
* A `transport` in `config.toml` that is a list or a table raises `TypeError`, and
  a file that is not UTF-8 raises `UnicodeDecodeError`: neither is an
  `ObserverError`, both keep the server from starting all the same.
* A chunk of a selector has at most one index, so that nested arrays and a
  top-level array cannot be queried.
* `process_list` with `procs` cuts to the limit in the order of `procs`, while
  the `ps` backend asks for the order by CPU use.
* tmux targets such as `%1` are no logical IDs; their audit events say `<invalid>`.
* `package_info` on the gateway never asks brew when `dpkg-query` is missing.
* The last step of the budgets (policy.py:71-72) never gives anything: what
  stderr leaves is left only when stdout has all it needs.

## 6. Not modelled

Planned (see 1.2): selectors, and the command line and the rows of
`workspace_search`. Left out for good:

* the argv of the other tools, and the columns of the rows they return: formats
  of foreign programs, without control of their own;
* the regular expressions, which are sets of strings here, and `fnmatch`, which
  is a parameter;
* the environment of the tmux helper and the fixed options of ssh: constants;
* decoding of output into lines: a line is a sequence of names, see the blanks above;
* symbolic links: paths are compared by their names, as the code does, and what
  `generic-tools-execution-design.md:70` says of links is not part of `FileOf`;
* FastMCP, its schemas and stdio, GitHub, sudo, find, fd and the shells, which are
  external and modelled as far as the code relies on them;
* installation files and `smoke_stdio.py`, which keep no state of the program.
