-------------------------- MODULE ExecutionBridge --------------------------
(***************************************************************************)
(* The approval-gated execution lane: the workflow approved-execution.yml  *)
(* (dispatch, preflight, environment approval, self-hosted runners),       *)
(* scripts/validate_execution_request.py, execution/executor.py, and the   *)
(* command on its target.                                                  *)
(*                                                                         *)
(* External: GitHub (dispatch, concurrency groups, approvals, re-runs, the *)
(* runner), the branch that goes on changing, ssh, and the target.  A      *)
(* document stands for its bytes, and so for its digest.                   *)
(***************************************************************************)
EXTENDS Integers, FiniteSets

CONSTANTS
  Runs,         \* workflow runs
  Ids,          \* request IDs
  Docs,         \* documents that may be committed, see DocAssumption
  Missing,      \* no file for that ID
  Hosts,        \* config.hosts ...
  Transport,    \* ... and the transport of each
  Workspaces,   \* config.workspaces ...
  Owner,        \* ... and the host of each
  NoWorkspace,  \* target.workspace is None
  ExitCodes,    \* exit codes of commands
  Runners,      \* how many runners have the label remote-observer
  MaxCommits,   \* bound: commits of the branch
  MaxAttempts   \* bound: attempts of a run

ASSUME DocAssumption ==
  /\ Missing \notin Docs
  /\ \A d \in Docs : DOMAIN d = {"requestId", "wellFormed", "mode", "risk", "host", "workspace"}
ASSUME RegistryAssumption ==
  /\ Transport \in [Hosts -> {"local", "ssh"}]
  /\ Owner \in [Workspaces -> Hosts]
  /\ NoWorkspace \notin Workspaces
ASSUME CountAssumption ==
  Runners \in Nat \ {0} /\ MaxCommits \in Nat \ {0} /\ MaxAttempts \in Nat \ {0}
ASSUME ExitAssumption == 0 \in ExitCodes

VARIABLES
  repo,      \* repo[sha][id]: the file of that ID in that commit
  main,      \* the head of the branch
  phase,     \* phase[r]: where the run is
  id,        \* id[r]: inputs.request_id of its dispatch
  sha,       \* sha[r]: github.sha
  attempt,   \* attempt[r]: github.run_attempt
  client,    \* client[r]: the process the executor started for this attempt
  code,      \* code[r]: its exit code, until the executor is done with it
  held,      \* runs whose client left a descendant that holds its pipes
  said,      \* said[r]: what the executor printed in this attempt
  approved,  \* grants given by a reviewer
  launched,  \* grants a command was started for
  running,   \* grants whose command is running on its target
  evidence   \* execution evidence printed so far

bridge == <<phase, id, sha, attempt>>
executor == <<client, code, held, said>>
record == <<approved, launched, evidence>>
vars == <<repo, main, bridge, executor, record, running>>

Shas == 1..MaxCommits
Concluded == {"success", "failure", "cancelled"}
Active == {"preflight", "waiting", "ready", "executing"}

Document(r) == repo[sha[r]][id[r]]

Grant(r) == [run |-> r, attempt |-> attempt[r], doc |-> Document(r)]

Init ==
  /\ repo \in [Shas -> [Ids -> Docs \cup {Missing}]]
  /\ main = 1
  /\ phase = [r \in Runs |-> "none"]
  /\ id \in [Runs -> Ids]
  /\ sha = [r \in Runs |-> 1]
  /\ attempt = [r \in Runs |-> 0]
  /\ client = [r \in Runs |-> "none"]
  /\ code = [r \in Runs |-> 0]
  /\ held = {}
  /\ said = [r \in Runs |-> "nothing"]
  /\ approved = {}
  /\ launched = {}
  /\ running = {}
  /\ evidence = {}

-----------------------------------------------------------------------------
(* GitHub: the branch, dispatches and the concurrency group.               *)

Commit ==
  /\ main < MaxCommits
  /\ main' = main + 1
  /\ UNCHANGED <<repo, bridge, executor, record, running>>

(* group: remote-execution-${{ inputs.request_id }}                        *)
Group_PerCommit(r) == <<id[r], sha[r]>>
Group(r) == id[r]

(* One run of a group is in progress and one more may be pending; a newer  *)
(* one replaces that.  cancel-in-progress: false.                          *)
Taken(r, group) ==
  \E q \in Runs \ {r} : phase[q] \in Active \cup {"pending"} /\ Group(q) = group

Enter(r, group) ==
  phase' = [q \in Runs |->
    IF q = r THEN IF Taken(r, group) THEN "pending" ELSE "preflight"
    ELSE IF phase[q] = "pending" /\ Group(q) = group THEN "cancelled"
    ELSE phase[q]]

(* The coming attempt has neither client nor report.                       *)
Fresh(r) ==
  /\ attempt' = [attempt EXCEPT ![r] = @ + 1]
  /\ client' = [client EXCEPT ![r] = "none"]
  /\ said' = [said EXCEPT ![r] = "nothing"]

(* workflow_dispatch: github.sha is the head of the branch at this moment. *)
Dispatch(r) ==
  /\ phase[r] = "none"
  /\ sha' = [sha EXCEPT ![r] = main]
  /\ Enter(r, Group(r))
  /\ Fresh(r)
  /\ UNCHANGED <<repo, main, id, code, held, record, running>>

(* A person runs a concluded run again: the same commit, a new attempt.    *)
Rerun(r) ==
  /\ phase[r] \in Concluded
  /\ attempt[r] < MaxAttempts
  /\ Enter(r, Group(r))
  /\ Fresh(r)
  /\ UNCHANGED <<repo, main, id, sha, code, held, record, running>>

Moves(r, from, to) ==
  /\ phase[r] = from
  /\ phase' = [phase EXCEPT ![r] = to]

Admit(r) ==
  /\ \A q \in Runs \ {r} : Group(q) = Group(r) => phase[q] \notin Active
  /\ Moves(r, "pending", "preflight")
  /\ UNCHANGED <<repo, main, id, sha, attempt, executor, record, running>>

CancelRun(r) ==
  /\ \E from \in {"pending", "preflight", "waiting", "ready"} : Moves(r, from, "cancelled")
  /\ UNCHANGED <<repo, main, id, sha, attempt, executor, record, running>>

-----------------------------------------------------------------------------
(* The jobs.  Both check out ref: ${{ github.sha }}.                       *)

Checkout_Head(r) == repo[main][id[r]]
Checkout(r) == repo[sha[r]][id[r]]

(* ExecutionRequest.from_json_bytes, then the request_id comparison that   *)
(* both the validator and the executor make.                               *)
Parses(d) == d # Missing /\ d.wellFormed /\ (d.mode = "shell" => d.risk = "R4")

Valid_OrMissing(d, i) == Parses(d) => d.requestId = i
Valid(d, i) == Parses(d) /\ d.requestId = i

Preflight(r) ==
  /\ Moves(r, "preflight", IF Valid(Checkout(r), id[r]) THEN "waiting" ELSE "failure")
  /\ UNCHANGED <<repo, main, id, sha, attempt, executor, record, running>>

(* environment: remote-execution                                           *)
Approve(r) ==
  /\ Moves(r, "waiting", "ready")
  /\ approved' = approved \cup {Grant(r)}
  /\ UNCHANGED <<repo, main, id, sha, attempt, executor, launched, evidence, running>>

(* A reviewer rejects, or nobody answers until GitHub gives up.            *)
Reject(r) ==
  /\ Moves(r, "waiting", "failure")
  /\ UNCHANGED <<repo, main, id, sha, attempt, executor, record, running>>

(* runs-on: [self-hosted, remote-observer]: a runner has one job at a time. *)
Cleared_Preflighted == {"waiting", "ready"}
Cleared == {"ready"}

RunnerTakes(r) ==
  /\ Cardinality({q \in Runs : phase[q] = "executing"}) < Runners
  /\ \E from \in Cleared : Moves(r, from, "executing")
  /\ UNCHANGED <<repo, main, id, sha, attempt, executor, record, running>>

-----------------------------------------------------------------------------
(* executor.py.                                                            *)

(* config.host, config.workspace, and the workspace's host.                *)
Resolves_AnyOwner(d) ==
  /\ d.host \in Hosts
  /\ d.workspace \in Workspaces \cup {NoWorkspace}
Resolves(d) ==
  /\ d.host \in Hosts
  /\ d.workspace # NoWorkspace => d.workspace \in Workspaces /\ Owner[d.workspace] = d.host

Remote(r) == Transport[Checkout(r).host] = "ssh"

Forget(r) ==
  /\ client' = [client EXCEPT ![r] = "gone"]
  /\ code' = [code EXCEPT ![r] = 0]
  /\ held' = held \ {r}

(* main prints ok: false and exits with 1.                                 *)
Fail(r) ==
  /\ Moves(r, "executing", "failure")
  /\ said' = [said EXCEPT ![r] = "error"]
  /\ Forget(r)
  /\ UNCHANGED <<repo, main, id, sha, attempt, record>>

(* An error before anything is started, spawning included.                 *)
Refuse(r) ==
  /\ client[r] = "none"
  /\ Fail(r)
  /\ UNCHANGED running

(* The command is that of the document that was checked out.               *)
Execution(r) == [run |-> r, attempt |-> attempt[r], doc |-> Checkout(r)]

Launch(r) ==
  /\ phase[r] = "executing"
  /\ client[r] = "none"
  /\ Valid(Checkout(r), id[r])
  /\ Resolves(Checkout(r))
  /\ client' = [client EXCEPT ![r] = IF Remote(r) THEN "connecting" ELSE "running"]
  /\ launched' = launched \cup {Execution(r)}
  /\ running' = IF Remote(r) THEN running ELSE running \cup {Execution(r)}
  /\ UNCHANGED <<repo, main, bridge, code, held, said, approved, evidence>>

(* ssh reaches the target, which starts the command (external).            *)
RemoteStarts(r) ==
  /\ client[r] = "connecting"
  /\ client' = [client EXCEPT ![r] = "running"]
  /\ running' = running \cup {Grant(r)}
  /\ UNCHANGED <<repo, main, bridge, code, held, said, record>>

(* The command ends on its target; its client, if there still is one, ends *)
(* with the same code.                                                     *)
CommandEnds(g, c) ==
  /\ g \in running
  /\ running' = running \ {g}
  /\ IF client[g.run] = "running" /\ g = Grant(g.run)
       THEN /\ client' = [client EXCEPT ![g.run] = "exited"]
            /\ code' = [code EXCEPT ![g.run] = c]
       ELSE UNCHANGED <<client, code>>
  /\ UNCHANGED <<repo, main, bridge, held, said, record>>

(* ssh cannot connect, or loses the connection: 255.  Nothing tells the    *)
(* target to end the command.                                              *)
ConnectionFails(r) ==
  /\ client[r] \in {"connecting", "running"}
  /\ Remote(r)
  /\ client' = [client EXCEPT ![r] = "exited"]
  /\ code' = [code EXCEPT ![r] = 255]
  /\ UNCHANGED <<repo, main, bridge, held, said, record, running>>

(* The client forks, and a descendant inherits its pipes; the last one of  *)
(* them ends, or redirects its output (external).                          *)
Forks(r) ==
  /\ client[r] \in {"connecting", "running"}
  /\ held' = held \cup {r}
  /\ UNCHANGED <<repo, main, bridge, client, code, said, record, running>>

LetsGo(r) ==
  /\ r \in held
  /\ held' = held \ {r}
  /\ UNCHANGED <<repo, main, bridge, client, code, said, record, running>>

(* wait_for runs out: the client is killed, and nothing else, which ends   *)
(* neither a remote command nor descendants.  The timer may win against a  *)
(* client that has just exited, and in some releases of asyncio always     *)
(* does while its pipes are held (wakeAtExit in ProcessRunner).            *)
Expires_Never(r) == FALSE
Expires(r) == client[r] \in {"connecting", "running", "exited"}

TimesOut(r) ==
  /\ Expires(r)
  /\ client' = [client EXCEPT ![r] = "killed"]
  /\ running' = IF Remote(r) THEN running ELSE running \ {Grant(r)}
  /\ UNCHANGED <<repo, main, bridge, code, held, said, record>>

(* await stdout_task, await stderr_task: both without a deadline.          *)
OutputComplete(r) == r \notin held

RaiseTimeout(r) ==
  /\ client[r] = "killed"
  /\ OutputComplete(r)
  /\ Fail(r)
  /\ UNCHANGED running

(* Exit code 255 of ssh is taken for a connection that failed.             *)
SshFailed(r) == Remote(r) /\ code[r] = 255

RaiseConnectionFailed(r) ==
  /\ client[r] = "exited"
  /\ OutputComplete(r)
  /\ SshFailed(r)
  /\ Fail(r)
  /\ UNCHANGED running

(* main prints the evidence and exits with the command's exit code.        *)
Verdict_Printed(r) == "success"
Verdict(r) == IF code[r] = 0 THEN "success" ELSE "failure"

Testify(r) ==
  /\ client[r] = "exited"
  /\ OutputComplete(r)
  /\ ~SshFailed(r)
  /\ Moves(r, "executing", Verdict(r))
  /\ said' = [said EXCEPT ![r] = "evidence"]
  /\ Forget(r)
  /\ evidence' = evidence \cup {[grant |-> Grant(r), exitCode |-> code[r]]}
  /\ UNCHANGED <<repo, main, id, sha, attempt, approved, launched, running>>

(* The job is cancelled, its time limit passes, or the runner dies: the    *)
(* executor says nothing, and what it started may go on (external).        *)
JobKilled(r) ==
  /\ \E to \in {"failure", "cancelled"} : Moves(r, "executing", to)
  /\ Forget(r)
  /\ running' \in {running, IF client[r] = "running" /\ ~Remote(r)
                            THEN running \ {Grant(r)} ELSE running}
  /\ UNCHANGED <<repo, main, id, sha, attempt, said, record>>

-----------------------------------------------------------------------------
Executes(r) ==
  \/ Refuse(r) \/ Launch(r) \/ TimesOut(r)
  \/ RaiseTimeout(r) \/ RaiseConnectionFailed(r) \/ Testify(r)

Next ==
  \/ Commit
  \/ \E r \in Runs :
       \/ Dispatch(r) \/ Rerun(r) \/ Admit(r) \/ CancelRun(r)
       \/ Preflight(r) \/ Approve(r) \/ Reject(r) \/ RunnerTakes(r)
       \/ Executes(r) \/ RemoteStarts(r) \/ ConnectionFails(r)
       \/ Forks(r) \/ LetsGo(r) \/ JobKilled(r)
  \/ \E g \in running, c \in ExitCodes : CommandEnds(g, c)

Spec == Init /\ [][Next]_vars

(* GitHub moves runs along and gives up on an approval nobody answers; the *)
(* executor runs and its timer fires.  Commands, ssh, people and accidents *)
(* are not assumed to do anything.                                         *)
Fairness ==
  \A r \in Runs :
    /\ WF_vars(Admit(r))
    /\ WF_vars(Preflight(r))
    /\ WF_vars(Reject(r))
    /\ WF_vars(RunnerTakes(r))
    /\ WF_vars(Executes(r))

(* Every descendant sooner or later lets go of the pipes it inherited.     *)
HeirFairness == \A r \in Runs : WF_vars(LetsGo(r))

CooperativeSpec == Spec /\ Fairness /\ HeirFairness

-----------------------------------------------------------------------------
(* Properties.                                                             *)

Grants == [run : Runs, attempt : 1..MaxAttempts, doc : Docs]

Codes == ExitCodes \cup {0, 255}

TypeOK ==
  /\ repo \in [Shas -> [Ids -> Docs \cup {Missing}]]
  /\ main \in Shas
  /\ phase \in [Runs -> {"none", "pending"} \cup Active \cup Concluded]
  /\ id \in [Runs -> Ids]
  /\ sha \in [Runs -> Shas]
  /\ attempt \in [Runs -> 0..MaxAttempts]
  /\ client \in [Runs -> {"none", "connecting", "running", "exited", "killed", "gone"}]
  /\ code \in [Runs -> Codes]
  /\ held \in SUBSET Runs
  /\ said \in [Runs -> {"nothing", "error", "evidence"}]
  /\ approved \in SUBSET Grants
  /\ launched \in SUBSET Grants
  /\ running \in SUBSET Grants
  /\ evidence \in SUBSET [grant : Grants, exitCode : Codes]

(* Approval is required for every attempt, holds for exactly the document  *)
(* of the commit that was dispatched, however far the branch has moved on, *)
(* and is used at most once; evidence names such a launch, once.           *)
AE == INSTANCE ApprovedExecution WITH ExitCodes <- Codes
ImplementsApprovedExecution == AE!Spec

(* Two executors never work on the same request ID at the same time        *)
(* (approved-execution.yml:14-16).                                         *)
OneExecutorPerRequest ==
  \A q, r \in Runs :
    q # r /\ phase[q] = "executing" /\ phase[r] = "executing" => id[q] # id[r]

(* A command is launched only for a document that carries the ID that was  *)
(* asked for, and on the host that owns the workspace it names, whatever   *)
(* else is registered (executor.py:45-52, 213-215).                        *)
LaunchedAsWritten ==
  \A g \in launched :
    /\ g.doc.requestId = id[g.run]
    /\ g.doc.host \in Hosts
    /\ g.doc.workspace # NoWorkspace => Owner[g.doc.workspace] = g.doc.host
    /\ g.doc.mode = "shell" => g.doc.risk = "R4"

(* A run that is a success has shown evidence of this very attempt with    *)
(* exit code 0, and its command is over (executor.py:231-233).             *)
SuccessIsEvidence ==
  \A r \in Runs :
    phase[r] = "success" =>
      /\ [grant |-> Grant(r), exitCode |-> 0] \in evidence
      /\ Grant(r) \notin running

(* Every dispatched run is over some time, whether it is pending behind    *)
(* another, waits for an approval or a runner, or executes, also when its  *)
(* command never ends or its target cannot be reached: so later runs of    *)
(* the same ID, and those that wait for its runner, get their turn.  The   *)
(* deadline alone does not give this (executor.py:151-153, 156-157): what  *)
(* the client leaves behind has to let go of its pipes.                    *)
EveryRunConcludes ==
  \A r \in Runs : phase[r] \in {"pending"} \cup Active ~> phase[r] \in Concluded

(* "concurrency keyed by request ID to prevent duplicate simultaneous      *)
(* execution": at most one command of a request ID runs on its target.     *)
NoDuplicateExecution ==
  \A g, h \in running : g # h => id[g.run] # id[h.run]

(* "Exact request, immutable evidence": an executor that has started a     *)
(* command does not end its report without evidence of it.                 *)
EvidenceOfEveryExecution ==
  \A r \in Runs : said[r] = "error" => Grant(r) \notin launched
=============================================================================
