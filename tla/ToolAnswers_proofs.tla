------------------------- MODULE ToolAnswers_proofs -------------------------
(***************************************************************************)
(* Theorems about what the answers of ToolCall tell: when a tool with      *)
(* backends to choose from may report unsupported_capability, and what the *)
(* flags of texts and listings mean.  What these tools have in common is   *)
(* read off their entries in ObserverTools, one by one.                    *)
(***************************************************************************)
EXTENDS ToolCall_proofs

(* A command whose output is used whatever it is, and which otherwise ends *)
(* its tool with an error.                                                 *)
Straight(cmd) ==
  /\ cmd.otherwise = {"use"} /\ cmd.reading \in {"text", "rows"}
  /\ \A e \in Exits : cmd.on[e] \notin {"skip", "empty", "success"}
  /\ cmd.on["missing"] # "use"

(* A command that never reports unsupported_capability itself.             *)
Supported(cmd) ==
  /\ "unsupported_capability" \notin cmd.otherwise
  /\ \A e \in Exits : cmd.on[e] # "unsupported_capability"

-----------------------------------------------------------------------------
(* The table of tools.                                                     *)

ChoiceTools ==
  {"process_list", "network_listeners", "network_interfaces", "network_routes",
   "disk_hotspots", "workspace_find", "workspace_search", "workspace_tree", "checksum"}

LEMMA NoChoice ==
  ASSUME NEW finds, NEW checks, NEW commands
  PROVE  /\ Plainly(finds, checks, commands).choice = <<>>
         /\ Faithfully(finds, checks, commands).choice = <<>>
         /\ Limited(finds, checks, commands).choice = <<>>
         /\ "choice" \in DOMAIN Limited(finds, checks, commands)
BY DEF Plainly, Limited, Faithfully, Tool

LEMMA ChoiceKept ==
  ASSUME NEW program, "choice" \in DOMAIN program, NEW needs
  PROVE  [program EXCEPT !.needs = needs].choice = program.choice
OBVIOUS

(* No other tool has backends to choose from.                              *)
LEMMA OtherTools == \A t \in AllTools \ ChoiceTools : Program[t].choice = <<>>
<1>1. ASSUME NEW t \in AllTools \ ChoiceTools,
             t \notin {"hardware_info", "package_info", "process_tree"}
      PROVE  \E finds, checks, commands :
               Program[t] \in {Plainly(finds, checks, commands), Limited(finds, checks, commands),
                               Faithfully(finds, checks, commands)}
  BY <1>1 DEF AllTools, ChoiceTools, Program, list_hosts, list_workspaces, runtime_versions,
       host_overview, container_list, json_query, tmux_capture, filesystem_status,
       process_status, service_logs, compose_status, structured_query, dns_lookup,
       systemd_timers, journal_query, sensor_status, code_search, archive_list, gpu_processes,
       tool_availability, workspace_read, container_stats, tmux_panes, service_failures,
       repo_log, python_environment, tmux_windows, node_environment, repo_status,
       tmux_sessions, service_status, container_logs, system_status, cargo_metadata,
       file_info, repo_diff, gpu_status, mise_environment, user_sessions, disk_usage,
       rust_environment, nix_environment
<1>2. hardware_info.choice = <<>> /\ package_info.choice = <<>>
  BY NoChoice, ChoiceKept DEF hardware_info, package_info
<1>3. process_tree.choice = <<>>
  BY DEF process_tree, Tool
<1>4. \A t \in {"hardware_info", "package_info", "process_tree"} : Program[t].choice = <<>>
  BY <1>2, <1>3 DEF Program
<1> QED  BY <1>1, <1>4, NoChoice

(* The entries of the tools that have.                                     *)
Choice(program) ==
  /\ program.needs = "all"
  /\ \A i \in DOMAIN program.checks : program.checks[i] # "unsupported_capability"
  /\ \A i \in DOMAIN program.choice : Supported(program.choice[i])
  /\ \A i \in DOMAIN program.choice :
       program.choice[i].exe \in program.refuses => i = Len(program.choice)

Listing(program) ==
  /\ program.finds = "workspace" /\ program.choice # <<>> /\ program.says = {"cut", "atLimit"}
  /\ \A i \in DOMAIN program.checks : program.checks[i] # "success"
  /\ \A i \in DOMAIN program.choice : Straight(program.choice[i])

LEMMA Readers ==
  ASSUME NEW exe
  PROVE  /\ Supported(Text(exe, Checked)) /\ Supported(Text(exe, ZeroOrOne))
         /\ Supported(Rows(exe, Checked)) /\ Straight(Rows(exe, Checked))
         /\ Supported(Rows(exe, ZeroOrOne)) /\ Straight(Rows(exe, ZeroOrOne))
         /\ Supported(Strict(exe, Checked, "command_failed"))
         /\ Supported(DocumentOf(exe, Checked, "skip"))
BY DEF Supported, Straight, Text, Rows, Strict, DocumentOf, Command, ZeroOrOne, Checked, Exits

LEMMA TwoBackends ==
  ASSUME NEW finds, NEW checks, NEW first, NEW second, NEW commands, NEW rows, NEW says,
         \A i \in DOMAIN checks : checks[i] # "unsupported_capability",
         Supported(first), Supported(second)
  PROVE  Choice(Tool(finds, checks, <<first, second>>, commands, rows, says))
BY DEF Choice, Tool

LEMMA TwoListings ==
  ASSUME NEW checks, NEW first, NEW second,
         \A i \in DOMAIN checks : checks[i] # "success",
         Straight(first), Straight(second)
  PROVE  Listing(Tool("workspace", checks, <<first, second>>, <<>>, "limited", {"cut", "atLimit"}))
BY DEF Listing, Tool

(* workspace_search gives up on grep, its last resort.                     *)
LEMMA SearchEntry == Choice(workspace_search) /\ Listing(workspace_search)
<1> DEFINE plain == Tool("workspace", <<"invalid_query", "invalid_filter">>,
                      <<Rows("rg", ZeroOrOne), Rows("grep", ZeroOrOne)>>, <<>>, "limited",
                      {"cut", "atLimit"})
<1>1. Choice(plain) /\ Listing(plain)
  BY Readers, TwoBackends, TwoListings
<1>2. /\ {"finds", "checks", "choice", "refuses", "needs", "says"} \subseteq DOMAIN plain
      /\ plain.choice = <<Rows("rg", ZeroOrOne), Rows("grep", ZeroOrOne)>>
  BY DEF Tool
<1>3. Rows("rg", ZeroOrOne).exe = "rg"
  BY DEF Rows, Command
<1>4. workspace_search = [plain EXCEPT !.refuses = {"grep"}]
  BY DEF workspace_search
<1> HIDE DEF plain
<1>5. /\ workspace_search.finds = plain.finds /\ workspace_search.checks = plain.checks
      /\ workspace_search.choice = plain.choice /\ workspace_search.refuses = {"grep"}
      /\ workspace_search.needs = plain.needs /\ workspace_search.says = plain.says
  BY <1>2, <1>4
<1>6. \A i \in DOMAIN plain.choice :
        plain.choice[i].exe \in {"grep"} => i = Len(plain.choice)
  BY <1>2, <1>3
<1> QED  BY <1>1, <1>5, <1>6 DEF Choice, Listing

LEMMA ChecksumEntry == Choice(checksum)
<1>1. /\ checksum.needs = "all" /\ checksum.refuses = {}
      /\ checksum.checks = <<"invalid_path", "sensitive_path">>
      /\ checksum.choice = [i \in 1..3 |->
           Strict(<<"b3sum", "sha256sum", "shasum">>[i], Checked, "command_failed")]
  BY DEF checksum, Tool
<1> QED  BY <1>1, Readers DEF Choice

LEMMA ChoiceEntries == \A t \in ChoiceTools : Choice(Program[t])
<1>1. Choice(process_list)
  BY Readers, TwoBackends DEF process_list
<1>2. /\ Choice(network_listeners) /\ Choice(network_interfaces)
      /\ Choice(network_routes) /\ Choice(disk_hotspots)
  BY Readers, TwoBackends
     DEF network_listeners, network_interfaces, network_routes, disk_hotspots
<1>3. Choice(workspace_find) /\ Choice(workspace_tree)
  BY Readers, TwoBackends DEF workspace_find, workspace_tree
<1> QED  BY <1>1, <1>2, <1>3, SearchEntry, ChecksumEntry DEF ChoiceTools, Program

LEMMA ListingEntries ==
  ListingTools \subseteq ChoiceTools /\ \A t \in ListingTools : Listing(Program[t])
<1>1. Listing(workspace_find) /\ Listing(workspace_tree)
  BY Readers, TwoListings DEF workspace_find, workspace_tree
<1> QED  BY <1>1, SearchEntry DEF ListingTools, ChoiceTools, Program

(* The tools that return text as it is run one command.                    *)
Verbatim(program) ==
  /\ program.finds \in {"host", "workspace"} /\ program.choice = <<>>
  /\ program.needs = "all" /\ program.rows = "all" /\ program.says = {"cut", "redacted"}
  /\ \A i \in DOMAIN program.checks : program.checks[i] # "success"
  /\ Len(program.commands) = 1 /\ Straight(program.commands[1])

LEMMA TextStraight ==
  ASSUME NEW exe
  PROVE  /\ Straight(Text(exe, Checked)) /\ Straight(Text(exe, GitResult))
         /\ Straight(Text(exe, DockerResult)) /\ Straight(Text(exe, TmuxResult))
BY DEF Straight, Text, Command, Checked, MissingUnsupported, GitResult, DockerResult,
       TmuxResult, Exits

LEMMA OneText ==
  ASSUME NEW finds \in {"host", "workspace"}, NEW checks, NEW cmd, Straight(cmd),
         \A i \in DOMAIN checks : checks[i] # "success"
  PROVE  Verbatim(Faithfully(finds, checks, <<cmd>>))
BY DEF Verbatim, Faithfully, Tool

LEMMA TextEntries == \A t \in TextTools : Verbatim(Program[t])
<1>1. Verbatim(repo_diff) /\ Verbatim(container_logs) /\ Verbatim(tmux_capture)
  BY OneText, TextStraight DEF repo_diff, container_logs, tmux_capture
<1>2. Verbatim(service_logs) /\ Verbatim(journal_query) /\ Verbatim(workspace_read)
  BY OneText, TextStraight DEF service_logs, journal_query, workspace_read
<1> QED  BY <1>1, <1>2 DEF TextTools, Program

-----------------------------------------------------------------------------
(* Answers.                                                                *)

(* What a call is answered before it runs a command.                       *)
LEMMA AnswerAtOnce ==
  ASSUME TypeOK, NEW c \in Calls, NEW q \in Requests, Receive(c, q.tool, q.target),
         pc'[c] = "answered"
  PROVE  \/ answer'[c].code \notin {"success", "unsupported_capability"}
         \/ Program[q.tool].finds = "registry" /\ answer'[c].code = "success"
         \/ \E i \in DOMAIN Program[q.tool].checks : answer'[c].code = Program[q.tool].checks[i]
<1> DEFINE t == q.tool
           x == q.target
<1>1. \A f, code : Outcome(t, f, code).code = code
  BY DEF Outcome
<1>2. CASE LookupFails(c, t, x) \/ EarlyLookupFails(c, t, x)
  BY <1>1, <1>2 DEF LookupFails, EarlyLookupFails, Conclude, Unknown, TypeOK
<1>3. CASE CheckFails(c, t, x)
  BY <1>1, <1>3 DEF CheckFails, Conclude, TypeOK
<1>4. CASE ListRegistry(c, t, x)
  BY <1>1, <1>4 DEF ListRegistry, Conclude, TypeOK
<1>5. CASE Begin(c, t, x)
  BY <1>5 DEF Begin, TypeOK
<1> QED  BY <1>2, <1>3, <1>4, <1>5 DEF Receive

LEMMA OutcomeCode == \A t, f, code : Outcome(t, f, code).code = code
BY DEF Outcome

(* With which codes a call that is served may be concluded.                *)
LEMMA ConcludedCode ==
  ASSUME TypeOK, NEW c \in Calls, NEW f, NEW code, ConcludeWith(c, f, code)
  PROVE  answer'[c] = Outcome(ToolOf(c), f, code) /\ answer'[c].code = code
BY DEF ConcludeWith, Conclude, Outcome, TypeOK

LEMMA FollowedCode ==
  ASSUME TypeOK, NEW c \in Calls, pc[c] = "running", Program[ToolOf(c)].needs = "all",
         NEW move, NEW f, Follow(c, move, f), pc'[c] = "answered"
  PROVE  \/ /\ move \in {"use", "skip"} /\ facts'[c] = facts[c] \cup f
            /\ answer'[c] = Outcome(ToolOf(c), facts'[c], "success")
         \/ move = "empty" /\ answer'[c].code = "success"
         \/ move \notin {"use", "skip", "empty"} /\ answer'[c].code = move
<1>1. CASE move \in {"use", "skip"}
  <2>1. GoOn(c, facts[c] \cup f)
    BY <1>1 DEF Follow
  <2>2. ConcludeWith(c, facts[c] \cup f, "success")
    BY <2>1 DEF GoOn, TypeOK
  <2> QED  BY <1>1, <2>1, <2>2, ConcludedCode DEF GoOn, TypeOK
<1>2. CASE move \notin {"use", "skip"}
  BY <1>2, ConcludedCode DEF Follow, Stop
<1> QED  BY <1>1, <1>2

LEMMA RaisedCode ==
  ASSUME TypeOK, NEW c \in Calls, TransportRaises(c)
  PROVE  answer'[c].code \notin {"success", "unsupported_capability"}
BY ConcludedCode DEF TransportRaises, TransportErrors

-----------------------------------------------------------------------------
(* Fallback.                                                               *)

(* Every backend of the tool is missing or refused, on a host that is.     *)
Exhausted(c) ==
  /\ HostOf(c) \in Hosts
  /\ \A i \in DOMAIN Options(c) :
       Options(c)[i].exe \in lacks[HostOf(c)] \cup Program[ToolOf(c)].refuses

Unsupported(c) ==
  Answered(c) /\ answer[c].code = "unsupported_capability" /\ Options(c) # <<>>

Fallback == \A c \in Calls : Unsupported(c) => Exhausted(c)

LEMMA ChoiceEntry ==
  ASSUME Begun, NEW c \in Calls, pc[c] # "idle", Options(c) # <<>>
  PROVE  Choice(Program[ToolOf(c)])
BY OtherTools, ChoiceEntries DEF Begun, Requests, ToolOf, Options

(* What the backend that was chosen answers is never that there is none.   *)
LEMMA CommandSupported ==
  ASSUME TypeOK, Begun, NEW c \in Calls, CommandUsed(c) \/ CommandNotUsed(c),
         Program[ToolOf(c)].needs = "all", Supported(todo[c][1]), pc'[c] = "answered"
  PROVE  answer'[c].code # "unsupported_capability"
<1>1. Runs(c) /\ pc[c] = "running"
  BY DEF CommandUsed, CommandNotUsed, Runs
<1>2. CASE CommandUsed(c)
  <2>1. PICK out \in Outputs(ToolOf(c), todo[c][1]) :
          \E r \in Readings(todo[c][1], out) : Follow(c, r.move, r.facts)
    BY <1>2 DEF CommandUsed
  <2>2. PICK r \in Readings(todo[c][1], out) : Follow(c, r.move, r.facts)
    BY <2>1
  <2>3. r.move \in {"use"} \cup todo[c][1].otherwise
    BY DEF Readings
  <2>4. answer'[c].code \in {"success", r.move}
    BY <1>1, <2>2, FollowedCode, OutcomeCode
  <2> QED  BY <2>3, <2>4 DEF Supported
<1>3. CASE CommandNotUsed(c)
  <2>1. PICK e \in {"one", "denied", "other"} \cup {"missing" : x \in Starters \cap {Executable(c)}} :
          Follow(c, Exit(c, e), {})
    BY <1>3 DEF CommandNotUsed
  <2>2. Exit(c, e) # "unsupported_capability"
    BY <2>1 DEF Exit, Exits, Supported
  <2>3. answer'[c].code \in {"success", Exit(c, e)}
    BY <1>1, <2>1, FollowedCode, OutcomeCode
  <2> QED  BY <2>2, <2>3
<1> QED  BY <1>2, <1>3

LEMMA ServeExhausts ==
  ASSUME TypeOK, Begun, Choosing, NEW c \in Calls, Serve(c), Unsupported(c)'
  PROVE  Exhausted(c)'
<1>1. pc[c] = "running" /\ request' = request /\ HostsKept
  BY ServeEffects DEF Effect
<1>2. Options(c)' = Options(c) /\ HostOf(c)' = HostOf(c) /\ HostOf(c) \in Hosts
  BY <1>1, HostType DEF Options, HostOf, ToolOf
<1>3. Options(c) # <<>> /\ pc'[c] = "answered" /\ answer'[c].code = "unsupported_capability"
  BY <1>2 DEF Unsupported, Answered
<1>4. Choice(Program[ToolOf(c)])
  BY <1>1, <1>3, ChoiceEntry
<1>5. PICK k \in 1..Len(Options(c)) : UpTo(c, k)
  BY <1>1, <1>3 DEF Choosing
<1>6. /\ Len(Options(c)) \in Nat /\ DOMAIN Options(c) = 1..Len(Options(c))
      /\ Options(c)[k].exe # "tmux" /\ candidates[c] \in Seq(Commands)
  BY <1>1, <1>5, OptionsType DEF TypeOK
<1>7. candidates[c] # <<>> =>
        /\ Len(candidates[c]) \in Nat \ {0} /\ candidates[c][1] = Options(c)[k]
        /\ Len(candidates[c]) = Len(Options(c)) - k + 1
        /\ \A j \in 1..(k - 1) : Options(c)[j].exe \in lacks[HostOf(c)]
  <2>1. SUFFICES ASSUME candidates[c] # <<>>
                 PROVE  /\ Len(candidates[c]) \in Nat \ {0} /\ candidates[c][1] = Options(c)[k]
                        /\ Len(candidates[c]) = Len(Options(c)) - k + 1
                        /\ \A j \in 1..(k - 1) : Options(c)[j].exe \in lacks[HostOf(c)]
    OBVIOUS
  <2>2. Len(candidates[c]) \in Nat \ {0}
    BY <1>6, <2>1, EmptySeq
  <2> QED  BY <1>5, <1>6, <2>1, <2>2 DEF UpTo
<1>8. CASE ProbeFinds(c)
  <2>1. candidates[c] # <<>> /\ lacks' = lacks
    BY <1>8 DEF ProbeFinds, Asking, Finds
  <2>2. candidates[c][1].exe \in Program[ToolOf(c)].refuses
    BY <1>1, <1>3, <1>8 DEF ProbeFinds
  <2>3. k = Len(Options(c))
    BY <1>4, <1>6, <1>7, <2>1, <2>2 DEF Choice, Options
  <2>4. \A i \in DOMAIN Options(c) :
          Options(c)[i].exe \in lacks[HostOf(c)] \cup Program[ToolOf(c)].refuses
    BY <1>5, <1>6, <1>7, <2>1, <2>2, <2>3
  <2> QED  BY <1>1, <1>2, <2>1, <2>4 DEF Exhausted, ToolOf
<1>9. CASE ProbeFails(c)
  <2>1. candidates[c] # <<>> /\ Misses(c, candidates[c][1].exe) /\ GivesUp(c)
    <3>1. pc' # pc
      BY <1>1, <1>3
    <3> QED  BY <1>9, <3>1 DEF ProbeFails, Asking
  <2>2. k = Len(Options(c))
    <3>1. Len(Options(c)) - k + 1 = 1
      BY <1>7, <2>1 DEF GivesUp
    <3>2. k \in Int /\ Len(Options(c)) \in Int
      BY <1>5, <1>6
    <3> QED  BY <3>1, <3>2
  <2>3. \A i \in DOMAIN Options(c) : Options(c)[i].exe \in lacks'[HostOf(c)]
    BY <1>2, <1>5, <1>6, <1>7, <2>1, <2>2 DEF Misses, TypeOK
  <2> QED  BY <1>1, <1>2, <2>3 DEF Exhausted, ToolOf
<1>10. CASE CommandUsed(c) \/ CommandNotUsed(c) \/ CommandMissing(c)
  <2>1. candidates[c] = <<>> /\ Len(candidates[c]) = 0
    BY <1>10, EmptySeq DEF CommandUsed, CommandNotUsed, CommandMissing, Runs
  <2>2. todo[c][1] = Options(c)[k] /\ Options(c)[k].exe \in has[HostOf(c)]
    BY <1>5, <1>6, <2>1 DEF UpTo
  <2>3. Executable(c) = Options(c)[k].exe
    BY <1>6, <2>2 DEF Executable
  <2>4. ~CommandMissing(c)
    BY <2>2, <2>3 DEF CommandMissing, Misses
  <2>5. Supported(todo[c][1]) /\ Program[ToolOf(c)].needs = "all"
    BY <1>4, <1>6, <2>2 DEF Choice, Options
  <2> QED  BY <1>3, <1>10, <2>4, <2>5, CommandSupported
<1>11. CASE TransportRaises(c)
  BY <1>3, <1>11, RaisedCode
<1> QED  BY <1>8, <1>9, <1>10, <1>11 DEF Serve

LEMMA FallbackKept ==
  ASSUME HostsKept, NEW d, Unsupported(d) => Exhausted(d), request'[d] = request[d],
         answer'[d] = answer[d], Answered(d)' <=> Answered(d)
  PROVE  Unsupported(d)' => Exhausted(d)'
BY DEF HostsKept, Unsupported, Exhausted, Options, HostOf, ToolOf

LEMMA FallbackStep ==
  ASSUME TypeOK, Begun, Choosing, Fallback, [Next]_vars
  PROVE  Fallback'
<1> SUFFICES ASSUME NEW d \in Calls
             PROVE  Unsupported(d)' => Exhausted(d)'
  BY DEF Fallback
<1>1. Unsupported(d) => Exhausted(d)
  BY DEF Fallback
<1>2. ASSUME UNCHANGED hosts PROVE HostsKept
  BY <1>2 DEF hosts, HostsKept, TypeOK
<1>3. ASSUME NEW c \in Calls, NEW q \in Asks[c], Receive(c, q.tool, q.target)
      PROVE  Unsupported(d)' => Exhausted(d)'
  <2>1. /\ q \in Requests /\ Received(c, q) /\ HostsKept
        /\ AnswersAtOnce(c, q) \/ Refuses(c, q) \/ Begins(c, q)
    BY <1>2, <1>3, AskedIsRequest, ReceiveEffects DEF Received
  <2>2. CASE d # c
    BY <1>1, <2>1, <2>2, FallbackKept
       DEF Received, AnswersAtOnce, Refuses, Begins, Conclude, Answered, TypeOK
  <2>3. ASSUME d = c, Unsupported(c)' PROVE FALSE
    <3>1. pc'[c] = "answered" /\ answer'[c].code = "unsupported_capability"
      BY <2>3 DEF Unsupported, Answered
    <3>2. Options(c)' = Program[q.tool].choice
      BY <2>1 DEF Received, Options, ToolOf, TypeOK
    <3>3. Choice(Program[q.tool])
      BY <2>1, <2>3, <3>2, OtherTools, ChoiceEntries DEF Unsupported, Requests
    <3> QED  BY <1>3, <2>1, <3>1, <3>3, AnswerAtOnce DEF Choice
  <2> QED  BY <2>2, <2>3
<1>4. ASSUME NEW c \in Calls, Serve(c)
      PROVE  Unsupported(d)' => Exhausted(d)'
  <2>1. CASE d # c
    <3>1. Effect(c) /\ HostsKept
      BY <1>4, ServeEffects
    <3>2. /\ request'[d] = request[d] /\ answer'[d] = answer[d]
          /\ Answered(d)' <=> Answered(d)
      BY <2>1, <3>1 DEF Effect, Concludes, Conclude, StaysOpen, Answered, TypeOK
    <3> QED  BY <1>1, <3>1, <3>2, FallbackKept
  <2> QED  BY <1>4, <2>1, ServeExhausts
<1>5. ASSUME NEW c \in Calls, Cancel(c)
      PROVE  Unsupported(d)' => Exhausted(d)'
  BY <1>1, <1>2, <1>5, FallbackKept DEF Cancel, Answered, TypeOK
<1>6. CASE UNCHANGED vars
  BY <1>1, <1>2, <1>6, FallbackKept DEF vars, Answered
<1> QED  BY <1>3, <1>4, <1>5, <1>6 DEF Next

(* A tool with backends to choose from reports unsupported_capability only *)
(* when each of them is missing on the host or is one it refuses, however  *)
(* its probes and commands end and whatever other calls do meanwhile.      *)
THEOREM OnlyExhausted == Spec => []FallbackExhausted
<1>1. Init => Fallback
  BY DEF Init, Fallback, Unsupported, Answered
<1>2. Spec => []Fallback
  BY <1>1, Started, FallbackStep, PTL DEF Spec
<1>3. Fallback => FallbackExhausted
  BY DEF Fallback, FallbackExhausted, Unsupported, Exhausted, Options
<1> QED  BY <1>2, <1>3, PTL

-----------------------------------------------------------------------------
(* Texts and listings.                                                     *)

Shows(t) == t \in TextTools \cup ListingTools

(* Before its only command has ended, a call knows nothing of its output.  *)
Fresh(c) ==
  /\ facts[c] = {}
  /\ ToolOf(c) \in TextTools => candidates[c] = <<>> /\ todo[c] = Program[ToolOf(c)].commands

Unread == \A c \in Calls :
  /\ pc[c] = "idle" => facts[c] = {}
  /\ pc[c] = "running" /\ Shows(ToolOf(c)) => Fresh(c)

(* A successful call tells what was true of the output of its command.     *)
Tells(c) ==
  /\ request[c].target \in Registered(ToolOf(c))
  /\ answer[c] = Outcome(ToolOf(c), facts[c], "success")
  /\ \E cmd : \E out \in Outputs(ToolOf(c), cmd) : facts[c] = {"used"} \cup (out \ {"garbled"})

Told == \A c \in Calls : Succeeds(c) /\ Shows(ToolOf(c)) => Tells(c)

(* The only command of a call, when it succeeds.                           *)
LEMMA StraightTells ==
  ASSUME TypeOK, Begun, NEW c \in Calls, Runs(c), facts[c] = {}, Straight(todo[c][1]),
         Program[ToolOf(c)].needs = "all", request' = request,
         CommandUsed(c) \/ CommandNotUsed(c) \/ CommandMissing(c), Succeeds(c)'
  PROVE  Tells(c)'
<1>1. pc[c] = "running" /\ pc'[c] = "answered" /\ answer'[c].code = "success"
  BY DEF Runs, Succeeds, Answered
<1>2. CASE CommandUsed(c)
  <2>1. PICK out \in Outputs(ToolOf(c), todo[c][1]) :
          \E r \in Readings(todo[c][1], out) : Follow(c, r.move, r.facts)
    BY <1>2 DEF CommandUsed
  <2>2. PICK r \in Readings(todo[c][1], out) : Follow(c, r.move, r.facts)
    BY <2>1
  <2>3. r.move = "use" /\ r.facts = {"used"} \cup (out \ {"garbled"})
    BY DEF Readings, Understood, Straight
  <2>4. facts'[c] = r.facts /\ answer'[c] = Outcome(ToolOf(c), facts'[c], "success")
    BY <1>1, <2>2, <2>3, FollowedCode
  <2> QED  BY <1>1, <2>3, <2>4 DEF Begun, Tells, ToolOf, Registered
<1>3. ASSUME NEW e \in Exits, Exit(c, e) # "use", Follow(c, Exit(c, e), {})
      PROVE  FALSE
  <2>1. Exit(c, e) \notin {"use", "skip", "empty", "success"}
    BY <1>3 DEF Straight, Exit
  <2> QED  BY <1>1, <1>3, <2>1, FollowedCode
<1>4. CASE CommandNotUsed(c)
  <2>1. PICK e \in {"one", "denied", "other"} \cup {"missing" : x \in Starters \cap {Executable(c)}} :
          Exit(c, e) # "use" /\ Follow(c, Exit(c, e), {})
    BY <1>4 DEF CommandNotUsed
  <2>2. e \in Exits
    BY <2>1 DEF Exits
  <2> QED  BY <1>3, <2>1, <2>2
<1>5. CASE CommandMissing(c)
  <2>1. CASE Stop(c, "unsupported_capability")
    BY <1>1, <2>1, ConcludedCode DEF Stop
  <2>2. CASE Follow(c, Exit(c, "missing"), {})
    BY <1>3, <2>2 DEF Straight, Exit, Exits
  <2> QED  BY <1>5, <2>1, <2>2 DEF CommandMissing
<1> QED  BY <1>2, <1>4, <1>5

LEMMA ShowEntries ==
  ASSUME NEW t, Shows(t)
  PROVE  /\ Program[t].needs = "all" /\ Program[t].finds \in {"host", "workspace"}
         /\ \A i \in DOMAIN Program[t].checks : Program[t].checks[i] # "success"
BY TextEntries, ListingEntries, ChoiceEntries DEF Shows, Verbatim, Listing, Choice

(* A call of these tools that runs a command runs its only one.            *)
LEMMA OnlyCommand ==
  ASSUME TypeOK, Begun, Choosing, Unread, NEW c \in Calls, Runs(c), Shows(ToolOf(c))
  PROVE  Len(todo[c]) = 1 /\ Straight(todo[c][1]) /\ facts[c] = {}
<1>1. pc[c] = "running" /\ candidates[c] = <<>> /\ Fresh(c) /\ Len(candidates[c]) = 0
  BY EmptySeq DEF Runs, Unread
<1>2. CASE ToolOf(c) \in TextTools
  BY <1>1, <1>2, TextEntries DEF Fresh, Verbatim
<1>3. CASE ToolOf(c) \in ListingTools
  <2>1. Options(c) # <<>> /\ Listing(Program[ToolOf(c)])
    BY <1>3, ListingEntries DEF Listing, Options
  <2>2. PICK k \in 1..Len(Options(c)) : UpTo(c, k)
    BY <1>1, <2>1 DEF Choosing
  <2>3. Len(Options(c)) \in Nat /\ DOMAIN Options(c) = 1..Len(Options(c))
    BY <1>1, OptionsType
  <2>4. todo[c] = <<Options(c)[k]>>
    BY <1>1, <2>2, <2>3 DEF UpTo
  <2> QED  BY <1>1, <2>1, <2>2, <2>3, <2>4 DEF Fresh, Listing, Options
<1> QED  BY <1>2, <1>3 DEF Shows

LEMMA ServeTells ==
  ASSUME TypeOK, Begun, Choosing, Unread, NEW c \in Calls, Serve(c), Shows(ToolOf(c))
  PROVE  /\ Succeeds(c)' => Tells(c)'
         /\ pc'[c] = "running" => Fresh(c)'
<1>1. pc[c] = "running" /\ request' = request /\ Fresh(c)
  BY ServeEffects DEF Effect, Unread
<1>2. CASE ProbeFinds(c) \/ ProbeFails(c)
  <2>1. facts' = facts /\ ToolOf(c) \notin TextTools
    BY <1>1, <1>2 DEF ProbeFinds, ProbeFails, Asking, Fresh
  <2>2. pc'[c] = "running" \/ answer'[c].code = "unsupported_capability"
    BY <1>1, <1>2, ConcludedCode DEF ProbeFinds, ProbeFails
  <2> QED  BY <1>1, <2>1, <2>2 DEF Fresh, ToolOf, Succeeds, Answered
<1>3. CASE CommandUsed(c) \/ CommandNotUsed(c) \/ CommandMissing(c)
  <2>1. Runs(c)
    BY <1>3 DEF CommandUsed, CommandNotUsed, CommandMissing
  <2>2. Len(todo[c]) = 1 /\ Straight(todo[c][1]) /\ facts[c] = {}
    BY <2>1, OnlyCommand
  <2>3. pc'[c] # "running"
    BY <1>3, <2>2, CommandLast DEF Concludes, Conclude, TypeOK
  <2> QED  BY <1>1, <1>3, <2>1, <2>2, <2>3, ShowEntries, StraightTells
<1>4. CASE TransportRaises(c)
  BY <1>4, RaisedCode DEF TransportRaises, ConcludeWith, Conclude, TypeOK, Succeeds
<1> QED  BY <1>2, <1>3, <1>4 DEF Serve

LEMMA TellStep ==
  ASSUME TypeOK, Begun, Choosing, Unread, Told, [Next]_vars
  PROVE  Unread' /\ Told'
<1> DEFINE Goal(d) ==
      /\ pc'[d] = "idle" => facts'[d] = {}
      /\ pc'[d] = "running" /\ Shows(ToolOf(d)') => Fresh(d)'
      /\ Succeeds(d)' /\ Shows(ToolOf(d)') => Tells(d)'
<1> SUFFICES ASSUME NEW d \in Calls PROVE Goal(d)
  BY DEF Unread, Told, Shows
<1>1. ASSUME request'[d] = request[d], facts'[d] = facts[d],
             \/ /\ pc'[d] = pc[d] /\ answer'[d] = answer[d]
                /\ candidates'[d] = candidates[d] /\ todo'[d] = todo[d]
             \/ pc'[d] = "cancelled"
      PROVE  Goal(d)
  BY <1>1 DEF Unread, Told, Fresh, Succeeds, Answered, Tells, ToolOf, Registered
<1>2. ASSUME NEW c \in Calls, NEW q \in Asks[c], Receive(c, q.tool, q.target)
      PROVE  Goal(d)
  <2>1. /\ q \in Requests /\ Received(c, q)
        /\ AnswersAtOnce(c, q) \/ Refuses(c, q) \/ Begins(c, q)
    BY <1>2, AskedIsRequest, ReceiveEffects
  <2>2. CASE d # c
    BY <1>1, <2>1, <2>2
       DEF Received, AnswersAtOnce, Refuses, Begins, Conclude, work, TypeOK
  <2>3. CASE d = c
    <3>1. facts'[c] = {} /\ ToolOf(c)' = q.tool /\ pc'[c] # "idle"
      BY <2>1 DEF Received, AnswersAtOnce, Refuses, Begins, Conclude, Unread, ToolOf, TypeOK
    <3>2. ASSUME pc'[c] = "running", Shows(q.tool) PROVE Fresh(c)'
      <4>1. Begins(c, q)
        BY <2>1, <3>2 DEF AnswersAtOnce, Refuses, Conclude, TypeOK
      <4> QED  BY <3>1, <4>1, TextEntries DEF Begins, Fresh, Verbatim, ToolOf, TypeOK
    <3>3. ASSUME pc'[c] = "answered", Shows(q.tool) PROVE ~Succeeds(c)'
      BY <1>2, <2>1, <3>3, AnswerAtOnce, ShowEntries DEF Succeeds
    <3> QED  BY <2>3, <3>1, <3>2, <3>3 DEF Succeeds, Answered
  <2> QED  BY <2>2, <2>3
<1>3. ASSUME NEW c \in Calls, Serve(c)
      PROVE  Goal(d)
  <2>1. Effect(c)
    BY <1>3, ServeEffects
  <2>2. CASE d # c
    BY <1>1, <2>1, <2>2 DEF Effect, Concludes, Conclude, StaysOpen, TypeOK
  <2>3. CASE d = c
    <3>1. ToolOf(c)' = ToolOf(c) /\ pc'[c] # "idle"
      BY <2>1 DEF Effect, Concludes, Conclude, StaysOpen, ToolOf, TypeOK
    <3> QED  BY <1>3, <2>3, <3>1, ServeTells
  <2> QED  BY <2>2, <2>3
<1>4. ASSUME NEW c \in Calls, Cancel(c)
      PROVE  Goal(d)
  BY <1>1, <1>4 DEF Cancel, work, TypeOK
<1>5. CASE UNCHANGED vars
  BY <1>1, <1>5 DEF vars, work
<1> QED  BY <1>2, <1>3, <1>4, <1>5 DEF Next

LEMMA AlwaysTold == Spec => [](TypeOK /\ Begun /\ Told)
<1>1. Init => Unread /\ Told
  BY DEF Init, Unread, Told, Succeeds, Answered
<1> QED  BY <1>1, Started, TellStep, PTL DEF Spec

LEMMA OutcomeFlags ==
  ASSUME NEW t, NEW f
  PROVE  /\ Outcome(t, f, "success").truncated <=> Truncated(t, f)
         /\ Outcome(t, f, "success").redacted <=> Redacted(t, f)
BY DEF Outcome

LEMMA TextFlags ==
  ASSUME NEW c, Tells(c), Verbatim(Program[ToolOf(c)])
  PROVE  /\ answer[c].truncated <=> Lost(c)
         /\ answer[c].redacted <=> "redacted" \in facts[c]
<1>1. PICK cmd : \E out \in Outputs(ToolOf(c), cmd) : facts[c] = {"used"} \cup (out \ {"garbled"})
  BY DEF Tells
<1>2. PICK out \in Outputs(ToolOf(c), cmd) : facts[c] = {"used"} \cup (out \ {"garbled"})
  BY <1>1
<1>3. /\ out \subseteq {"cut", "redacted", "garbled", "more", "exact"}
      /\ out \cap {"more", "exact"} = {}
  BY DEF Outputs, Verbatim
<1>4. /\ answer[c].truncated <=> Truncated(ToolOf(c), facts[c])
      /\ answer[c].redacted <=> Redacted(ToolOf(c), facts[c])
  BY OutcomeFlags DEF Tells
<1>5. Truncated(ToolOf(c), facts[c]) <=> "cut" \in facts[c]
  BY DEF Truncated, Verbatim
<1>6. Redacted(ToolOf(c), facts[c]) <=> "redacted" \in facts[c]
  BY DEF Redacted, Verbatim
<1>7. Lost(c) <=> "cut" \in facts[c]
  BY <1>2, <1>3 DEF Lost
<1> QED  BY <1>4, <1>5, <1>6, <1>7

LEMMA ListingFlags ==
  ASSUME NEW c, Tells(c), Listing(Program[ToolOf(c)])
  PROVE  answer[c].truncated <=> Lost(c) \/ "exact" \in facts[c]
<1>1. PICK cmd : \E out \in Outputs(ToolOf(c), cmd) : facts[c] = {"used"} \cup (out \ {"garbled"})
  BY DEF Tells
<1>2. PICK out \in Outputs(ToolOf(c), cmd) : facts[c] = {"used"} \cup (out \ {"garbled"})
  BY <1>1
<1>3. out \subseteq {"cut", "redacted", "garbled", "more", "exact"}
  BY DEF Outputs
<1>4. answer[c].truncated <=> Truncated(ToolOf(c), facts[c])
  BY OutcomeFlags DEF Tells
<1>5. Truncated(ToolOf(c), facts[c]) <=> facts[c] \cap {"cut", "exact", "more"} # {}
  BY DEF Truncated, Listing
<1>6. Lost(c) <=> facts[c] \cap {"cut", "more"} # {}
  BY <1>2, <1>3 DEF Lost
<1> QED  BY <1>4, <1>5, <1>6

(* The event of a call that succeeded.                                     *)
LEMMA Logged ==
  ASSUME TypeOK, Begun, AuditMatchesAnswers, NEW c \in Calls, Succeeds(c),
         request[c].target # Malformed, Program[ToolOf(c)].finds # "early"
  PROVE  [call |-> c, target |-> request[c].target, outcome |-> answer[c]] \in Events
<1>1. PICK i \in Own(c) : /\ log[i].outcome = answer[c]
                          /\ log[i].target = Shown(request[c].target)
  BY DEF AuditMatchesAnswers, Succeeds, Enters
<1>2. i \in DOMAIN log /\ log[i].call = c
  BY DEF Own
<1>3. log[i] \in [call : Calls, target : Identifiers, outcome : Outcomes]
  <2>1. log \in Seq([call : Calls, target : Identifiers, outcome : Outcomes])
    BY DEF TypeOK
  <2> QED  BY <1>2, <2>1, ElementOfSeq, LenProperties
<1>4. log[i] = [call |-> c, target |-> request[c].target, outcome |-> answer[c]]
  BY <1>1, <1>2, <1>3 DEF Shown
<1> QED  BY <1>2, <1>4 DEF Events

(* The tools that return text as it is say exactly whether it was cut, and *)
(* whether anything in it was redacted, and the audit log has said so too. *)
THEOREM TextsAreHonest == Spec => []TextToolsTell
<1>1. ASSUME TypeOK, Begun, AuditMatchesAnswers, Told, NEW c \in Calls,
             Succeeds(c), ToolOf(c) \in TextTools
      PROVE  /\ answer[c].truncated <=> Lost(c)
             /\ answer[c].redacted <=> "redacted" \in facts[c]
             /\ [call |-> c, target |-> request[c].target, outcome |-> answer[c]] \in Events
  <2>1. Tells(c) /\ Verbatim(Program[ToolOf(c)])
    BY <1>1, TextEntries DEF Told, Shows
  <2>2. request[c].target # Malformed /\ Program[ToolOf(c)].finds # "early"
    BY <2>1, NameAssumption DEF Tells, Verbatim, Registered
  <2> QED  BY <1>1, <2>1, <2>2, TextFlags, Logged
<1>2. TypeOK /\ Begun /\ AuditMatchesAnswers /\ Told => TextToolsTell
  BY <1>1 DEF TextToolsTell
<1> QED  BY <1>2, AlwaysTold, Audited, PTL

(* The listings of a workspace say truncated whenever something was left   *)
(* out, and for nothing only with exactly as many rows as the limit.       *)
THEOREM ListingsAreHonest == Spec => []ListingsTell
<1>1. ASSUME Told, NEW c \in Calls, Succeeds(c), ToolOf(c) \in ListingTools
      PROVE  answer[c].truncated <=> Lost(c) \/ "exact" \in facts[c]
  BY <1>1, ListingEntries, ListingFlags DEF Told, Shows
<1>2. Told => ListingsTell
  BY <1>1 DEF ListingsTell
<1> QED  BY <1>2, AlwaysTold, PTL
=============================================================================
