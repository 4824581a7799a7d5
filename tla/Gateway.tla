------------------------------ MODULE Gateway ------------------------------
(***************************************************************************)
(* The gateway and its config.toml over time.  The server loads the file   *)
(* once, when it starts, and answers out of what it loaded until it ends;  *)
(* the executor loads it anew for each request; and it may be edited at    *)
(* any time.  A client asks for what the server listed, or for anything    *)
(* else.                                                                   *)
(*                                                                         *)
(* An answer is what reaches the host: the command lines of the tools that *)
(* matter here, without the audit and the output (ToolCall).               *)
(***************************************************************************)
EXTENDS Registry, TmuxHelper, WorkspacePaths, ExecutionRequests, FiniteSets

CONSTANTS
  Files,        \* what config.toml may hold
  AskedHosts,   \* names of hosts that are asked for
  AskedResources,
  AskedWorkspaces,
  AskedPaths,
  AskedLines,   \* pairs of start_line and end_line
  AskedLimits,  \* values of max_results
  TmuxCalls,    \* calls of the tmux tools
  AskedIds,     \* request IDs that are dispatched
  Requests,     \* request documents that are committed
  Entries,      \* what lies below the root of every workspace ...
  Directories,  \* ... and which of that is a directory
  Down,         \* the server does not run
  NoReply

ASSUME AskAssumption ==
  /\ AskedLines \subseteq Int \X (Int \cup {NoEnd})
  /\ NoEnd \notin Int
  /\ AskedLimits \subseteq Int
  /\ TmuxCalls \subseteq [tool : {"tmux_sessions", "tmux_windows", "tmux_panes", "tmux_capture"},
                        session : STRING, window : STRING \cup {NoWindow}, pane : STRING, lines : Int]

(* A root begins with a slash and goes on after it, a path has a segment   *)
(* at least, and what lies below a root has a name.                        *)
ASSUME PathAssumption ==
  /\ \A p \in SafePaths : p \in Seq(Segments) /\ Len(p) > 1 /\ p[1] = ""
  /\ \A p \in AskedPaths : p \in Seq(Segments) /\ p # <<>>
  /\ \A e \in Entries : e \in Seq(Segments \ {"", ".", ".."}) /\ e # <<>>

VARIABLES
  file,    \* config.toml
  config,  \* the AppConfig of the server
  known,   \* IDs its listings have told since it started ...
  found,   \* ... and paths it may have told, with workspace and file
  reply    \* the last answer: to what, and what

vars == <<file, config, known, found, reply>>

Init ==
  /\ file \in Files
  /\ config = Down
  /\ known = {}
  /\ found = {}
  /\ reply = NoReply

-----------------------------------------------------------------------------
(* One exchange at a time: the client takes note of an answer, which is    *)
(* all it is for, before anything else happens.                            *)
Idle == reply = NoReply

TakeNote ==
  /\ ~Idle
  /\ reply' = NoReply
  /\ UNCHANGED <<file, config, known, found>>

Edit ==
  /\ Idle
  /\ file' \in Files
  /\ UNCHANGED <<config, known, found, reply>>

(* server.main                                                             *)
Start ==
  /\ Idle
  /\ config = Down
  /\ Loads(file)
  /\ config' = AppConfig(file)
  /\ UNCHANGED <<file, known, found, reply>>

StartFails ==
  /\ Idle
  /\ config = Down
  /\ ~Loads(file)
  /\ reply' = <<<<"start">>, <<"invalid_configuration">>>>
  /\ UNCHANGED <<file, config, known, found>>

(* The server ends or crashes; its client starts from nothing with it.     *)
Stop ==
  /\ Idle
  /\ config # Down
  /\ config' = Down
  /\ known' = {}
  /\ found' = {}
  /\ UNCHANGED <<file, reply>>

-----------------------------------------------------------------------------
(* The server.  create_server hands the config it was given to every tool. *)
InUse_Reloaded == IF Loads(file) THEN AppConfig(file) ELSE config
InUse == config

Serves == Idle /\ config # Down /\ UNCHANGED <<file, config>>

ListHosts ==
  /\ Serves
  /\ known' = known \cup ListedHosts(InUse)
  /\ UNCHANGED <<found, reply>>

ListWorkspaces ==
  /\ Serves
  /\ known' = known \cup ListedWorkspaces(InUse)
  /\ UNCHANGED <<found, reply>>

Answers(question, answer) ==
  /\ Serves
  /\ reply' = <<question, answer>>
  /\ UNCHANGED <<known, found>>

(* _host_call: the transport of the commands.                              *)
HostAnswer(h) ==
  IF Found(InUse.hosts, h) THEN TransportOf(InUse.hosts[h]) ELSE <<"unknown_host">>

Observe(h) == Answers(<<"observe", h>>, HostAnswer(h))

(* process_status, service_status and so on: HostConfig.process, ...       *)
ResourceAnswer(h, kind, x) ==
  IF ~Found(InUse.hosts, h) THEN <<"unknown_host">>
  ELSE IF ~Found(InUse.hosts[h][kind], x) THEN <<"unknown_resource">>
  ELSE TransportOf(InUse.hosts[h])

ObserveResource(h, kind, x) == Answers(<<"observe", h, kind, x>>, ResourceAnswer(h, kind, x))

(* The tmux tools: whose tmux gets which command.                          *)
TmuxAnswer(h, call) ==
  LET transport == TmuxTransportOf(InUse.hosts[h])
  IN  IF ~Found(InUse.hosts, h) THEN <<"unknown_host">>
      ELSE IF transport[1] \notin {"local", "ssh", "sudo"} THEN transport
      ELSE IF ~Accepted(call) THEN <<"invalid_tmux_target">>
      ELSE IF transport[1] = "sudo" THEN <<"runs", ThroughHelper(transport[2], call)>>
      ELSE <<"runs", [user |-> None, argv |-> ToolArgv(call)]>>

Tmux(h, call) == Answers(<<"tmux", h, call>>, TmuxAnswer(h, call))

(* The patterns of a workspace are a tuple in the code.                    *)
PatternsOf(w) == {InUse.workspaces[w].secret_patterns[i] :
                    i \in DOMAIN InUse.workspaces[w].secret_patterns}
RootOf(w) == InUse.workspaces[w].root

(* workspace_find without a pattern.  Of what the command prints only the  *)
(* lines that show up matter.                                              *)
Lines(w, backend) == Printed(backend, RootOf(w), Entries, Directories)
Shown(w, backend) == {l \in Lines(w, backend) : Shows(RootOf(w), PatternsOf(w), l)}

(* Which of them reach the gateway, in an order nobody promises: any, when *)
(* the command met an error and ended with 1, which _check_result takes,   *)
(* or when its output was cut (CommandResult.truncated).                   *)
Received(w, backend, code, cut) ==
  IF code = 0 /\ ~cut THEN {Shown(w, backend)} ELSE SUBSET Shown(w, backend)

MaxRows == 500
Limit(asked) == IF asked < 1 THEN 1 ELSE IF asked > MaxRows THEN MaxRows ELSE asked

(* The loop stops at the limit: it takes all lines, or the first of them.  *)
Taken(lines, limit) ==
  {t \in SUBSET lines : Cardinality(t) = limit \/ (t = lines /\ Cardinality(t) < limit)}

RowsOf(w, lines) == {Relative(RootOf(w), l) : l \in lines}

(* The row of the last line of a cut output: none, or what is left of it.  *)
LastRow(w, backend, reached) ==
  {{}} \cup {RowsOf(w, {c}) : c \in
    {c \in UNION {CutOff(l) : l \in IF reached THEN Lines(w, backend) ELSE {}} :
       Shows(RootOf(w), PatternsOf(w), c)}}

Truncated_Beyond(taken, limit, cut) == Cardinality(taken) > limit \/ cut
Truncated(taken, limit, cut) == Cardinality(taken) >= limit \/ cut

(* The rows it may have told, each with the file its line was printed for. *)
RowsFiles(w, backend) ==
  {<<w, Relative(RootOf(w), l), FileOf(l)>> : l \in Shown(w, backend)}

Find(w, backend, asked, code, cut) ==
  LET limit == Limit(asked)
  IN  /\ Serves
      /\ Found(InUse.workspaces, w)
      /\ Found(InUse.hosts, InUse.workspaces[w].host_id)
      /\ found' = found \cup RowsFiles(w, backend)
      /\ \E lines \in Received(w, backend, code, cut) : \E taken \in Taken(lines, limit) :
           \E last \in LastRow(w, backend, cut /\ Cardinality(taken) < limit) :
             reply' = <<<<"find", w, backend, code>>,
                        <<"rows", RowsOf(w, taken) \cup last, Truncated(taken, limit, cut)>>>>
      /\ UNCHANGED known

(* Any other exit code; an error of the transport ends the same way.       *)
FindFails(w) ==
  /\ config # Down
  /\ Found(InUse.workspaces, w)
  /\ Answers(<<"find", w>>, <<"command_failed">>)

Finds(w) ==
  \E backend \in {"fd", "find"}, asked \in AskedLimits, code \in {0, 1}, cut \in BOOLEAN :
    Find(w, backend, asked, code, cut)

(* workspace_read; file_info, checksum and workspace_tree check and make   *)
(* their path in the same way.                                             *)
ReadAnswer(w, p, start, end) ==
  IF ~Found(InUse.workspaces, w) THEN <<"unknown_workspace">>
  ELSE IF ~Found(InUse.hosts, InUse.workspaces[w].host_id) THEN <<"unknown_host">>
  ELSE IF ~WellFormed(p) THEN <<"invalid_path">>
  ELSE IF Sensitive(Normalized(p), PatternsOf(w)) THEN <<"sensitive_path">>
  ELSE <<"runs", [file |-> Absolute(RootOf(w), Normalized(p)),
                  first |-> First(start), last |-> WindowEnd(start, end)]>>

ReadFile(w, p, lines) == Answers(<<"read", w, p>>, ReadAnswer(w, p, lines[1], lines[2]))

-----------------------------------------------------------------------------
(* The lane for executions, which needs no server.                         *)

(* validate_execution_request.py, in preflight.                            *)
Validated(i, d) == i \in RequestIds /\ Accepts(d) /\ Request(d).request_id = i

(* executor.main up to the command: what runs where, or the error.         *)
ExecuteAnswer(i, d) ==
  LET q == Request(d)
      registry == AppConfig(file)
      cwd == IF q.workspace = None THEN None ELSE registry.workspaces[q.workspace].root
      transport == TransportOf(registry.hosts[q.host])
  IN  IF i \notin RequestIds THEN <<"invalid_execution_request">>
      ELSE IF ~Accepts(d) THEN <<Refusal(d)>>
      ELSE IF q.request_id # i THEN <<"invalid_execution_request">>
      ELSE IF ~Loads(file) THEN <<"invalid_configuration">>
      ELSE IF ~Found(registry.hosts, q.host) THEN <<"unknown_host">>
      ELSE IF q.workspace # None /\ ~Found(registry.workspaces, q.workspace)
        THEN <<"unknown_workspace">>
      ELSE IF q.workspace # None /\ registry.workspaces[q.workspace].host_id # q.host
        THEN <<"invalid_execution_target">>
      ELSE IF RequestArgv(q) = <<>> THEN <<"invalid_execution_request">>
      ELSE IF registry.hosts[q.host].transport = "ssh" /\ registry.hosts[q.host].ssh_alias = None
        THEN <<"invalid_execution_target">>
      ELSE <<"runs", transport, Runs(transport[1], RequestArgv(q), cwd)>>

Execute(i, d) ==
  /\ Idle
  /\ reply' = <<<<"execute", i, d>>, ExecuteAnswer(i, d)>>
  /\ UNCHANGED <<file, config, known, found>>

-----------------------------------------------------------------------------
Next ==
  \/ TakeNote
  \/ Edit
  \/ Start
  \/ StartFails
  \/ Stop
  \/ ListHosts
  \/ ListWorkspaces
  \/ \E h \in AskedHosts : Observe(h)
  \/ \E h \in AskedHosts, kind \in Kinds, x \in AskedResources : ObserveResource(h, kind, x)
  \/ \E h \in AskedHosts, call \in TmuxCalls : Tmux(h, call)
  \/ \E w \in AskedWorkspaces : FindFails(w) \/ Finds(w)
  \/ \E w \in AskedWorkspaces, p \in AskedPaths, lines \in AskedLines : ReadFile(w, p, lines)
  \/ \E i \in AskedIds, d \in Requests : Execute(i, d)

Spec == Init /\ [][Next]_vars
-----------------------------------------------------------------------------
(* Properties.                                                             *)

Answered(to) == reply # NoReply /\ reply[1][1] = to

Loaded == {AppConfig(f) : f \in {g \in Files : Loads(g)}}

(* The server runs with what some file said; a client knows only what a    *)
(* running server told it; and a read is of one line at least, and of no   *)
(* more than a thousand (workspace_read).                                  *)
TypeOK ==
  /\ file \in Files
  /\ config \in {Down} \cup Loaded
  /\ config = Down => known = {} /\ found = {}
  /\ Answered("read") /\ reply[2][1] = "runs" =>
       /\ reply[2][2].first \in Nat \ {0}
       /\ reply[2][2].last \in reply[2][2].first .. reply[2][2].first + MaxWindow - 1

(* What load_config accepted is enough for the code that relies on it: no  *)
(* tool meets a host without a usable transport or a tmux user behind ssh  *)
(* (the last branches of transport_for_host and transport_for_tmux_host,   *)
(* and the ValueErrors of SshTransport).                                   *)
NeverMisconfigured ==
  Answered("observe") \/ Answered("tmux") =>
    reply[2][1] \notin {"invalid_configuration", "internal_error"}

(* What list_hosts and list_workspaces told can be asked for until the     *)
(* server ends, however config.toml is edited: hosts and resources are     *)
(* found, and workspaces are on the host that was named.                   *)
ListedResolves == \A item \in known : Resolves(InUse, item)

(* The helper runs the command that tmux would have been given directly,   *)
(* as the user that is configured, for every call that the tool accepts    *)
(* (_helper_args, CrossUserTmuxTransport.run and build_tmux_command).      *)
TmuxAgrees ==
  Answered("tmux") /\ reply[2][1] \notin {"unknown_host", "invalid_tmux_target"} =>
    LET host == InUse.hosts[reply[1][2]]
        argv == ToolArgv(reply[1][3])
    IN  reply[2] = <<"runs", IF host.tmux_user = None THEN [user |-> None, argv |-> argv]
                             ELSE [user |-> host.tmux_user, argv |-> <<"/usr/bin/tmux">> \o Tail(argv)]>>

(* However a path is spelled, with empty segments or with ".", the answer  *)
(* is that for the file it names below the root: the same refusal, or a    *)
(* command on that very file (ensure_visible_relative_path, _absolute).    *)
SpellingIrrelevant ==
  Answered("read") /\ reply[2][1] \in {"sensitive_path", "runs"} =>
    LET w == reply[1][2]
        p == reply[1][3]
        plain == IF Named(p) = <<>> THEN <<".">> ELSE Named(p)
    IN  /\ reply[2][1] = "sensitive_path" <=> ~Visible(plain, PatternsOf(w))
        /\ reply[2][1] = "runs" => FileOf(reply[2][2].file) = FileOf(RootOf(w)) \o FileOf(p)

(* What workspace_find listed, the other tools of the workspace open, and  *)
(* it is the file the row was printed for (_relative against _absolute),   *)
(* but for what is left of a line that was cut off.                        *)
FoundIsReadable ==
  \A row \in found :
    LET w == row[1]
    IN  /\ Visible(row[2], PatternsOf(w))
        /\ FileOf(Absolute(RootOf(w), Normalized(row[2]))) = row[3]

(* With find, and unless the root ends in two slashes: a listing that is   *)
(* not marked truncated is of nothing but what may be seen, and of all of  *)
(* it if the command met no error.  So a tree beyond max_results or beyond *)
(* the byte limit is never taken for a small one.  In a marked listing at  *)
(* most one row, that of a line that was cut off, is of something else.    *)
(* What a command with errors leaves out (_check_result) is not marked.    *)
DoubledSlash(p) == Len(p) > 2 /\ p[Len(p)] = "" /\ p[Len(p) - 1] = ""

Seen(w) == {e \in Entries \cup {<<".">>} : Visible(e, PatternsOf(w))}

ListingExact ==
  Answered("find") /\ reply[2][1] = "rows" =>
    LET w == reply[1][2]
        rows == reply[2][2]
        truncated == reply[2][3]
    IN  reply[1][3] = "find" /\ ~DoubledSlash(RootOf(w)) =>
          /\ \A p, q \in rows \ Seen(w) : p = q /\ truncated
          /\ reply[1][4] = 0 /\ ~truncated => rows = Seen(w)

(* The executor starts nothing that the validator would refuse.  What both *)
(* accept, and the registry of the executor can place, it never refuses    *)
(* for another reason, and what runs is the program and the arguments that *)
(* were approved, in the root of the workspace, over ssh as locally        *)
(* (execute_request, _request_argv, _ssh_argv); except that over ssh the   *)
(* shell of the target may read a first word in its own way where no       *)
(* workspace is given, and exec one that begins with "-" where one is.     *)
Wanted(d) ==
  LET t == d[2]
  IN  IF t["mode"][2] = "shell" THEN <<"bash", "-lc", t["script"][2]>>
      ELSE [i \in DOMAIN t["argv"][2] |-> t["argv"][2][i][2]]

Placed(h, w) ==
  LET registry == AppConfig(file)
  IN  /\ Loads(file)
      /\ Found(registry.hosts, h)
      /\ w # None => /\ Found(registry.workspaces, w)
                     /\ registry.workspaces[w].host_id = h

Delivers(d, answer) ==
  LET h == d[2]["target"][2]["host"][2]
      w == TextOf(d[2]["target"][2], "workspace")
      registry == AppConfig(file)
  IN  IF Placed(h, w)
        THEN /\ answer[1] = "runs"
             /\ answer[2] = TransportOf(registry.hosts[h])
             /\ \/ answer[3] = [cwd  |-> IF w = None THEN None ELSE registry.workspaces[w].root,
                                argv |-> Wanted(d)]
                \/ /\ registry.hosts[h].transport = "ssh"
                   /\ Wanted(d)[1] \in IF w = None THEN ShellOwn ELSE ExecOptions
        ELSE answer[1] # "runs"

RunsAsRequested ==
  Answered("execute") =>
    IF Validated(reply[1][2], reply[1][3]) THEN Delivers(reply[1][3], reply[2])
    ELSE reply[2][1] # "runs"
=============================================================================
