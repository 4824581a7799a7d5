------------------------------ MODULE ToolCall ------------------------------
(***************************************************************************)
(* Tool calls of the MCP server: audit.run_observed_tool around the        *)
(* operation of a tool, the registry lookups and checks it starts with,    *)
(* and the commands it runs through the transport of its host.             *)
(*                                                                         *)
(* Calls are asyncio tasks: what a call does between two awaits is one     *)
(* step, and the only awaits are on commands.  What a command may do is    *)
(* the outcome of ProcessRunner, seen from a tool.  External: the client,  *)
(* which may cancel a call at any await, and the hosts, of which it is     *)
(* decided when it first matters which executables they have.              *)
(***************************************************************************)
EXTENDS ObserverTools

CONSTANTS
  Calls,      \* calls that are made
  Asks,       \* Asks[c]: what call c may ask for, tool and target
  Hosts,      \* config.hosts ...
  Transport,  \* ... and the transport of each
  TmuxUsers,  \* the hosts that have a tmux_user
  Workspaces, \* config.workspaces ...
  Owner,      \* ... and the host of each
  Stranger,   \* an identifier that is well formed and not registered
  Malformed,  \* an identifier that is not well formed
  Nobody,     \* no identifier: a tool about the registry itself
  NoRequest,
  NoAnswer

ASSUME RegistryAssumption ==
  /\ Transport \in [Hosts -> {"local", "ssh"}]
  /\ TmuxUsers \subseteq {h \in Hosts : Transport[h] = "local"}
  /\ Owner \in [Workspaces -> Hosts]
ASSUME NameAssumption ==
  /\ Stranger # Malformed /\ Nobody \notin {Stranger, Malformed}
  /\ {Stranger, Malformed, Nobody} \cap (Hosts \cup Workspaces) = {}

VARIABLES
  pc,       \* pc[c]: "idle", "running", "answered" or "cancelled"
  request,  \* request[c]: the tool called, and for which host or workspace
  candidates,  \* candidates[c]: backends it has yet to ask for
  todo,     \* todo[c]: commands it has yet to run
  facts,    \* facts[c]: what is true of the output used so far
  ran,      \* ran[c]: commands it has run, as <<host, executable>>
  answer,   \* answer[c]: how the call ended, as the client is told
  log,      \* the audit events, in order
  has,      \* has[h]: executables found on host h
  lacks     \* lacks[h]: executables missing there

work == <<candidates, todo, facts, ran>>
hosts == <<has, lacks>>
vars == <<pc, request, work, answer, log, hosts>>

Init ==
  /\ pc = [c \in Calls |-> "idle"]
  /\ request = [c \in Calls |-> NoRequest]
  /\ candidates = [c \in Calls |-> <<>>]
  /\ todo = [c \in Calls |-> <<>>]
  /\ facts = [c \in Calls |-> {}]
  /\ ran = [c \in Calls |-> {}]
  /\ answer = [c \in Calls |-> NoAnswer]
  /\ log = <<>>
  /\ has = [h \in Hosts |-> {}]
  /\ lacks = [h \in Hosts |-> {}]

-----------------------------------------------------------------------------
(* AppConfig.host, AppConfig.workspace.  A tool that finds a workspace     *)
(* "early" does so before it enters run_observed_tool.                     *)
Registered(t) ==
  IF Program[t].finds = "registry" THEN {Nobody}
  ELSE IF Program[t].finds = "host" THEN Hosts
  ELSE Workspaces

Askable(t) ==
  Registered(t) \cup IF Program[t].finds = "registry" THEN {} ELSE {Stranger, Malformed}

Requests == {q \in [tool : AllTools, target : Hosts \cup Workspaces \cup {Stranger, Malformed, Nobody}] :
               q.target \in Askable(q.tool)}

ASSUME AskAssumption == Asks \in [Calls -> SUBSET Requests]

Unknown(t) == IF Program[t].finds = "host" THEN "unknown_host" ELSE "unknown_workspace"

Place_AnyHost(t, x) == CHOOSE h \in Hosts : TRUE
Place(t, x) == IF Program[t].finds = "host" THEN x ELSE Owner[x]

(* _safe_logical_id                                                        *)
Shown(x) == IF x = Malformed THEN "<invalid>" ELSE x

(* The flags of the data a tool returns.                                   *)
Truncated_LimitOnly(t, f) == "more" \in f
Truncated_SlicedFirst(t, f) ==
  LET says == Program[t].says
  IN  \/ "cut" \in says /\ "cut" \in f
      \/ "more" \in says /\ "more" \in f
Truncated(t, f) ==
  LET says == Program[t].says
  IN  \/ "cut" \in says /\ "cut" \in f
      \/ "more" \in says /\ "more" \in f
      \/ "atLimit" \in says /\ f \cap {"exact", "more"} # {}

Redacted(t, f) == "redacted" \in Program[t].says /\ "redacted" \in f

Outcome(t, f, code) ==
  [code      |-> code,
   truncated |-> code = "success" /\ Truncated(t, f),
   redacted  |-> code = "success" /\ Redacted(t, f)]

(* run_observed_tool: one event, then the reply or the exception.  There   *)
(* is no await between the two.                                            *)
Event_FromError(c, x, o) ==
  [call |-> c, target |-> Shown(x), outcome |-> [o EXCEPT !.truncated = FALSE]]
Event(c, x, o) == [call |-> c, target |-> Shown(x), outcome |-> o]

Conclude(c, x, o) ==
  /\ pc' = [pc EXCEPT ![c] = "answered"]
  /\ answer' = [answer EXCEPT ![c] = o]
  /\ log' = Append(log, Event(c, x, o))

-----------------------------------------------------------------------------
(* A call up to its first await.                                           *)

Ask(c, t, x) ==
  /\ pc[c] = "idle"
  /\ request' = [request EXCEPT ![c] = [tool |-> t, target |-> x]]

LookupFails(c, t, x) ==
  /\ x \notin Registered(t)
  /\ Program[t].finds # "early"
  /\ Ask(c, t, x)
  /\ Conclude(c, x, Outcome(t, {}, Unknown(t)))
  /\ UNCHANGED <<work, hosts>>

(* environment.workspace_parts raises before there is anything to audit.   *)
EarlyLookupFails(c, t, x) ==
  /\ x \notin Registered(t)
  /\ Program[t].finds = "early"
  /\ Ask(c, t, x)
  /\ pc' = [pc EXCEPT ![c] = "answered"]
  /\ answer' = [answer EXCEPT ![c] = Outcome(t, {}, Unknown(t))]
  /\ UNCHANGED <<log, work, hosts>>

CheckFails(c, t, x) ==
  /\ x \in Registered(t)
  /\ Ask(c, t, x)
  /\ \E i \in DOMAIN Program[t].checks : Conclude(c, x, Outcome(t, {}, Program[t].checks[i]))
  /\ UNCHANGED <<work, hosts>>

ListRegistry(c, t, x) ==
  /\ Program[t].finds = "registry"
  /\ x \in Registered(t)
  /\ Ask(c, t, x)
  /\ Conclude(c, x, Outcome(t, {}, "success"))
  /\ UNCHANGED <<work, hosts>>

Begin(c, t, x) ==
  /\ Program[t].finds # "registry"
  /\ x \in Registered(t)
  /\ Ask(c, t, x)
  /\ pc' = [pc EXCEPT ![c] = "running"]
  /\ candidates' = [candidates EXCEPT ![c] = Program[t].choice]
  /\ todo' = [todo EXCEPT ![c] = Program[t].commands]
  /\ UNCHANGED <<facts, ran, answer, log, hosts>>

-----------------------------------------------------------------------------
(* The running call c.                                                     *)

ToolOf(c) == request[c].tool
HostOf(c) == Place(ToolOf(c), request[c].target)
ConcludeWith(c, f, code) ==
  Conclude(c, request[c].target, Outcome(ToolOf(c), f, code))

Finds(c, exe) ==
  /\ exe \notin lacks[HostOf(c)]
  /\ has' = [has EXCEPT ![HostOf(c)] = @ \cup {exe}]
  /\ UNCHANGED lacks

Misses(c, exe) ==
  /\ exe \notin Always \cup has[HostOf(c)]
  /\ lacks' = [lacks EXCEPT ![HostOf(c)] = @ \cup {exe}]
  /\ UNCHANGED has

(* resolve_backend: command -v of one candidate after the other.           *)
Asking(c) == pc[c] = "running" /\ candidates[c] # <<>>

Chosen_Last(c) == candidates[c][Len(candidates[c])]
Chosen(c) == candidates[c][1]

ProbeFinds(c) ==
  /\ Asking(c)
  /\ Finds(c, candidates[c][1].exe)
  /\ candidates' = [candidates EXCEPT ![c] = <<>>]
  /\ \/ /\ todo' = [todo EXCEPT ![c] = <<Chosen(c)>>]
        /\ UNCHANGED <<pc, answer, log>>
     \/ /\ candidates[c][1].exe \in Program[ToolOf(c)].refuses
        /\ ConcludeWith(c, {}, "unsupported_capability")
        /\ UNCHANGED todo
  /\ UNCHANGED <<request, facts, ran>>

GivesUp_AfterFirst(c) == TRUE
GivesUp_Never(c) == FALSE
GivesUp(c) == Len(candidates[c]) = 1

ProbeFails(c) ==
  /\ Asking(c)
  /\ Misses(c, candidates[c][1].exe)
  /\ candidates' = [candidates EXCEPT ![c] = Tail(@)]
  /\ IF GivesUp(c)
       THEN ConcludeWith(c, {}, "unsupported_capability")
       ELSE UNCHANGED <<pc, answer, log>>
  /\ UNCHANGED <<request, todo, facts, ran>>

(* Output that is used may have been cut, may have had something redacted, *)
(* may not be what the tool looks for, and may have more rows than the     *)
(* tool returns, or exactly as many.                                       *)
Outputs(t, cmd) ==
  {out \in SUBSET {"cut", "redacted", "garbled", "more", "exact"} :
     /\ "garbled" \in out => cmd.reading # "text"
     /\ out \cap {"more", "exact"} # {} => Program[t].rows = "limited" /\ cmd.reading # "value"
     /\ ~({"more", "exact"} \subseteq out)}

(* Half a document is none.                                                *)
Understood(cmd, out) ==
  "garbled" \notin out /\ (cmd.reading \in {"document", "value"} => "cut" \notin out)

(* What the tool then does, and the facts it does it with.                 *)
Readings(cmd, out) ==
  IF Understood(cmd, out)
    THEN {[move |-> "use", facts |-> {"used"} \cup out]}
    ELSE {[move  |-> move,
           facts |-> {"used"} \cup IF move = "skip" THEN {"unread"} ELSE out \ {"garbled"}] :
             move \in cmd.otherwise}

(* After the last command, or the first that is enough, the call is over.  *)
Over_TooLate(c, f) == todo[c] = <<>>
Over(c, f) ==
  \/ Len(todo[c]) = 1
  \/ Program[ToolOf(c)].needs = "first" /\ "used" \in f

GoOn(c, f) ==
  /\ facts' = [facts EXCEPT ![c] = f]
  /\ IF Over(c, f)
       THEN /\ todo' = [todo EXCEPT ![c] = <<>>]
            /\ ConcludeWith(c, f,
                 IF Program[ToolOf(c)].needs = "some" /\ "used" \notin f
                   THEN "unsupported_capability" ELSE "success")
       ELSE /\ todo' = [todo EXCEPT ![c] = Tail(@)]
            /\ UNCHANGED <<pc, answer, log>>

Stop(c, code) ==
  /\ ConcludeWith(c, facts[c], code)
  /\ UNCHANGED <<todo, facts>>

Follow(c, move, f) ==
  IF move \in {"use", "skip"} THEN GoOn(c, facts[c] \cup f)
  ELSE Stop(c, IF move = "empty" THEN "success" ELSE move)

Runs(c) == pc[c] = "running" /\ candidates[c] = <<>> /\ todo[c] # <<>>

RanNow(c, exe) == ran' = [ran EXCEPT ![c] = @ \cup {<<HostOf(c), exe>>}]

Exit(c, e) == todo[c][1].on[e]

(* transport_for_tmux_host: tmux is asked through sudo where the host has  *)
(* a tmux_user.                                                            *)
Executable(c) ==
  IF todo[c][1].exe = "tmux" /\ HostOf(c) \in TmuxUsers THEN "sudo" ELSE todo[c][1].exe

(* The command ends with an exit whose output the tool uses, or another.   *)
CommandUsed(c) ==
  /\ Runs(c)
  /\ Finds(c, Executable(c))
  /\ \E out \in Outputs(ToolOf(c), todo[c][1]) :
       \E r \in Readings(todo[c][1], out) : Follow(c, r.move, r.facts)
  /\ RanNow(c, Executable(c))
  /\ UNCHANGED <<request, candidates>>

(* env and sudo are there, and what they are to start may not be.          *)
CommandNotUsed(c) ==
  /\ Runs(c)
  /\ Finds(c, Executable(c))
  /\ \E e \in {"one", "denied", "other"} \cup {"missing" : x \in Starters \cap {Executable(c)}} :
       Exit(c, e) # "use" /\ Follow(c, Exit(c, e), {})
  /\ RanNow(c, Executable(c))
  /\ UNCHANGED <<request, candidates>>

(* The process of a command over ssh always starts; a missing executable   *)
(* is exit 127 there, and FileNotFoundError on the gateway itself.         *)
CommandMissing(c) ==
  /\ Runs(c)
  /\ Misses(c, Executable(c))
  /\ IF Transport[HostOf(c)] = "ssh"
       THEN Follow(c, Exit(c, "missing"), {})
       ELSE Stop(c, "unsupported_capability")
  /\ UNCHANGED <<request, candidates, ran>>

(* Transport.run raises: run_process, or SshTransport.run's reading of     *)
(* exit code 255.  ProcessLookupError is not an ObserverError.             *)
TransportErrors(h) ==
  {"timeout", "permission_denied", "command_failed", "internal_error"}
    \cup IF Transport[h] = "ssh"
         THEN {"connection_failed", "authentication_failed", "host_key_failure"} ELSE {}

TransportRaises(c) ==
  /\ Asking(c) \/ Runs(c)
  /\ \E code \in TransportErrors(HostOf(c)) : ConcludeWith(c, facts[c], code)
  /\ UNCHANGED <<request, work, hosts>>

(* CancelledError is no Exception: run_observed_tool does not see it.      *)
Cancel_Audited(c) ==
  /\ pc[c] = "running"
  /\ pc' = [pc EXCEPT ![c] = "cancelled"]
  /\ log' = Append(log, Event(c, request[c].target, Outcome(ToolOf(c), {}, "internal_error")))
  /\ UNCHANGED <<request, work, answer, hosts>>
Cancel(c) ==
  /\ pc[c] = "running"
  /\ pc' = [pc EXCEPT ![c] = "cancelled"]
  /\ UNCHANGED <<request, work, answer, log, hosts>>

-----------------------------------------------------------------------------
Codes ==
  {"success", "unknown_host", "unknown_workspace", "unknown_resource",
   "unsupported_capability", "permission_denied", "command_failed", "internal_error",
   "timeout", "connection_failed", "authentication_failed", "host_key_failure",
   "no_tmux_server", "invalid_dns_name", "invalid_filter", "invalid_query",
   "invalid_path", "sensitive_path", "invalid_language", "invalid_selector",
   "selector_not_found", "invalid_document", "invalid_tmux_target", "invalid_package"}

(* What the table of tools is made of, see ObserverTools.                  *)
Moves == {"use", "skip", "empty"} \cup Codes

Executables ==
  {"sudo"} \cup UNION {{(Program[t].choice \o Program[t].commands)[i].exe :
                        i \in DOMAIN (Program[t].choice \o Program[t].commands)} : t \in AllTools}

Commands ==
  [exe : Executables, on : [Exits -> Moves], otherwise : SUBSET Moves,
   reading : {"text", "rows", "strict", "document", "value"}]

ASSUME TableAssumption ==
  \A t \in AllTools :
    /\ Program[t].checks \in Seq(Codes)
    /\ Program[t].choice \in Seq(Commands)
    /\ \A i \in DOMAIN Program[t].choice : Program[t].choice[i].exe # "tmux"
    /\ Program[t].commands \in Seq(Commands)
    /\ Program[t].finds # "registry" => Program[t].choice # <<>> \/ Program[t].commands # <<>>

Receive(c, t, x) ==
  \/ LookupFails(c, t, x) \/ EarlyLookupFails(c, t, x)
  \/ ListRegistry(c, t, x) \/ Begin(c, t, x)
  \/ CheckFails(c, t, x)

Serve(c) ==
  \/ ProbeFinds(c) \/ ProbeFails(c)
  \/ CommandUsed(c) \/ CommandNotUsed(c) \/ CommandMissing(c)
  \/ TransportRaises(c)

Next ==
  \E c \in Calls :
    \/ \E q \in Asks[c] : Receive(c, q.tool, q.target)
    \/ Serve(c)
    \/ Cancel(c)

Spec == Init /\ [][Next]_vars

(* Every command comes back: see DeadlineEnforced of ProcessRunner, and    *)
(* what it assumes.                                                        *)
FairSpec == Spec /\ \A c \in Calls : WF_vars(Serve(c))

-----------------------------------------------------------------------------
(* Properties.                                                             *)

Outcomes == [code : Codes, truncated : BOOLEAN, redacted : BOOLEAN]

Events == {log[i] : i \in DOMAIN log}

Facts == {"used", "cut", "redacted", "more", "exact", "unread"}

Identifiers == Hosts \cup Workspaces \cup {Stranger, Nobody, "<invalid>"}

(* Every answer has one of the error codes the tools can give, an          *)
(* executable is not both there and missing, and a call that is running    *)
(* has a backend to ask for or a command to run, and so on.                *)
TypeOK ==
  /\ pc \in [Calls -> {"idle", "running", "answered", "cancelled"}]
  /\ request \in [Calls -> Requests \cup {NoRequest}]
  /\ candidates \in [Calls -> Seq(Commands)]
  /\ todo \in [Calls -> Seq(Commands)]
  /\ facts \in [Calls -> SUBSET Facts]
  /\ ran \in [Calls -> SUBSET (Hosts \X Executables)]
  /\ answer \in [Calls -> Outcomes \cup {NoAnswer}]
  /\ log \in Seq([call : Calls, target : Identifiers, outcome : Outcomes])
  /\ has \in [Hosts -> SUBSET Executables]
  /\ lacks \in [Hosts -> SUBSET Executables]
  /\ \A h \in Hosts : has[h] \cap lacks[h] = {}
  /\ \A c \in Calls : pc[c] = "running" => Asking(c) \/ Runs(c)

Answered(c) == pc[c] = "answered"

Lost(c) == facts[c] \cap {"cut", "more", "unread"} # {}

Succeeds(c) == Answered(c) /\ answer[c].code = "success"

Enters(c) == Program[ToolOf(c)].finds # "early" \/ request[c].target \in Registered(ToolOf(c))

Own(c) == {i \in DOMAIN log : log[i].call = c}

(* However calls interleave, the audit log has exactly one event for every *)
(* call that was answered through run_observed_tool, with the outcome and  *)
(* flags the client was given and an identifier that is registered or at   *)
(* least well formed, and none for any other (audit.py:30-75).             *)
AuditMatchesAnswers ==
  \A c \in Calls :
    IF Answered(c) /\ Enters(c)
      THEN \E i \in Own(c) : /\ Own(c) = {i}
                             /\ log[i].outcome = answer[c]
                             /\ log[i].target = Shown(request[c].target)
      ELSE Own(c) = {}

(* A call runs commands only on the host that the registry gives for its   *)
(* target, and none at all for a target that is not registered.            *)
StaysInRegistry ==
  \A c \in Calls :
    ran[c] # {} =>
      /\ request[c].target \in Registered(ToolOf(c))
      /\ \A p \in ran[c] :
           p[1] = IF Program[ToolOf(c)].finds = "host" THEN request[c].target
                  ELSE Owner[request[c].target]

(* The backend that is run is the first in the catalog's order that the    *)
(* host has (backends/__init__.py:24-39).                                  *)
FirstAvailable ==
  \A c \in Calls : \A p \in ran[c] :
    LET options == Program[ToolOf(c)].choice
    IN  options # <<>> =>
          \E i \in DOMAIN options :
            /\ options[i].exe = p[2]
            /\ p[2] \in has[p[1]]
            /\ \A j \in 1..(i - 1) : options[j].exe \in lacks[p[1]]

(* A tool with a fallback reports unsupported_capability only when every   *)
(* candidate is missing or refused: "If no safe equivalent backend exists" *)
(* (README.md:172).                                                        *)
FallbackExhausted ==
  \A c \in Calls :
    LET program == Program[ToolOf(c)]
    IN  Answered(c) /\ answer[c].code = "unsupported_capability" /\ program.choice # <<>> =>
          \A i \in DOMAIN program.choice :
            program.choice[i].exe \in lacks[HostOf(c)] \cup program.refuses

TextTools == {"repo_diff", "container_logs", "service_logs", "journal_query",
              "workspace_read", "tmux_capture"}

(* The tools that return text as it is say exactly whether it was cut and  *)
(* whether anything in it was redacted, to the client and in the audit.    *)
TextToolsTell ==
  \A c \in Calls :
    Succeeds(c) /\ ToolOf(c) \in TextTools =>
      /\ answer[c].truncated <=> Lost(c)
      /\ answer[c].redacted <=> "redacted" \in facts[c]
      /\ [call |-> c, target |-> request[c].target, outcome |-> answer[c]] \in Events

ListingTools == {"workspace_find", "workspace_search", "workspace_tree"}

(* The listings of a workspace never leave a row out silently; they may    *)
(* say truncated for nothing only with as many rows as the limit, which    *)
(* they cannot tell from more (observers/workspace.py:90).                 *)
ListingsTell ==
  \A c \in Calls :
    Succeeds(c) /\ ToolOf(c) \in ListingTools =>
      /\ Lost(c) => answer[c].truncated
      /\ answer[c].truncated => Lost(c) \/ "exact" \in facts[c]

(* What the client and the log see of all calls is what AuditTrail allows: *)
(* one event with every answer that went through run_observed_tool         *)
(* (audit.py:30-75), and none with a refusal before it, which can only be  *)
(* for an unknown workspace.                                               *)
Trail == INSTANCE AuditTrail WITH
  status <- [c \in Calls |-> IF pc[c] \in {"idle", "running"} THEN "open" ELSE pc[c]],
  Refusals <- {[code |-> "unknown_workspace", truncated |-> FALSE, redacted |-> FALSE]}

ImplementsAuditTrail == Trail!Spec

(* A call that has begun is answered or cancelled in the end.              *)
EveryCallSettles == \A c \in Calls : pc[c] = "running" ~> pc[c] \in {"answered", "cancelled"}

(* "The gateway records a local metadata-only audit event for every tool   *)
(* call".                                                                  *)
EveryCallAudited ==
  \A c \in Calls : Answered(c) => \E e \in Events : e.call = c

(* The audit event tells "whether output was truncated".                   *)
LossIsAudited ==
  \A c \in Calls :
    Succeeds(c) /\ Lost(c) => \E e \in Events : e.call = c /\ e.outcome.truncated

(* filesystem_status uses findmnt and lsblk "as available".                *)
OptionalToolsTolerated ==
  \A c \in Calls :
    Answered(c) /\ ToolOf(c) = "filesystem_status" /\ request[c].target \in Hosts
      /\ "df" \in has[HostOf(c)] => answer[c].code # "unsupported_capability"
=============================================================================
