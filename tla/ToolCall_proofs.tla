--------------------------- MODULE ToolCall_proofs ---------------------------
(***************************************************************************)
(* Theorems about ToolCall, for every set of calls, hosts and workspaces.  *)
(* The table of tools enters only through TableAssumption.                 *)
(***************************************************************************)
EXTENDS ToolCall, SequenceTheorems, TLAPS

(* A call that has begun asks for something that is registered.            *)
Begun ==
  \A c \in Calls :
    /\ pc[c] # "idle" => request[c] \in Requests
    /\ pc[c] = "running" => /\ request[c].target \in Registered(ToolOf(c))
                            /\ Program[ToolOf(c)].finds # "registry"

(* The call c is concluded, or stays open and unlogged.                    *)
Concludes(c) == \E o \in Outcomes : Conclude(c, request[c].target, o)
StaysOpen == UNCHANGED <<pc, answer, log>>

(* Commands run for the call c, if any, on its host.                       *)
RanMore(c) ==
  /\ ran' \in [Calls -> SUBSET (Hosts \X Executables)]
  /\ \A d \in Calls \ {c} : ran'[d] = ran[d]
  /\ \A p \in ran'[c] \ ran[c] : p[1] = HostOf(c)

(* A running command is followed by some move.                             *)
Follows(c) == \E move \in Moves, f \in SUBSET Facts : Follow(c, move, f)

(* What any step that serves the call c does.                              *)
Effect(c) ==
  /\ pc[c] = "running" /\ request' = request
  /\ Concludes(c) \/ (StaysOpen /\ (candidates'[c] # <<>> \/ todo'[c] # <<>>))
  /\ candidates' \in [Calls -> Seq(Commands)]
  /\ todo' \in [Calls -> Seq(Commands)]
  /\ facts' \in [Calls -> SUBSET Facts]
  /\ RanMore(c)
  /\ \A d \in Calls \ {c} :
       candidates'[d] = candidates[d] /\ todo'[d] = todo[d] /\ facts'[d] = facts[d]

(* Finding or missing an executable keeps what is known of the hosts.      *)
HostsKept ==
  /\ has' \in [Hosts -> SUBSET Executables]
  /\ lacks' \in [Hosts -> SUBSET Executables]
  /\ \A h \in Hosts : /\ has'[h] \cap lacks'[h] = {}
                      /\ has[h] \subseteq has'[h]
                      /\ lacks[h] \subseteq lacks'[h]

LEMMA OutcomeType ==
  ASSUME NEW t, NEW f, NEW code \in Codes
  PROVE  Outcome(t, f, code) \in Outcomes
BY DEF Outcome, Outcomes, Truncated, Redacted

LEMMA ShownType ==
  ASSUME NEW q \in Requests
  PROVE  Shown(q.target) \in Identifiers
BY DEF Requests, Askable, Shown, Identifiers

LEMMA HostType ==
  ASSUME Begun, NEW c \in Calls, pc[c] = "running"
  PROVE  HostOf(c) \in Hosts
BY RegistryAssumption DEF Begun, HostOf, Place, Registered, Requests, ToolOf

LEMMA ConcludeType ==
  ASSUME TypeOK, NEW c \in Calls, NEW x, Shown(x) \in Identifiers,
         NEW o \in Outcomes, Conclude(c, x, o)
  PROVE  /\ pc' = [pc EXCEPT ![c] = "answered"]
         /\ pc' \in [Calls -> {"idle", "running", "answered", "cancelled"}]
         /\ answer' \in [Calls -> Outcomes \cup {NoAnswer}]
         /\ log' \in Seq([call : Calls, target : Identifiers, outcome : Outcomes])
<1> DEFINE e == Event(c, x, o)
<1>1. e \in [call : Calls, target : Identifiers, outcome : Outcomes]
  BY DEF Event
<1>2. Append(log, e) \in Seq([call : Calls, target : Identifiers, outcome : Outcomes])
  BY <1>1 DEF TypeOK
<1> QED
  BY <1>2 DEF Conclude, TypeOK

LEMMA TargetShown ==
  ASSUME Begun, NEW c \in Calls, pc[c] = "running"
  PROVE  Shown(request[c].target) \in Identifiers
BY ShownType DEF Begun

LEMMA CodesKnown == "success" \in Codes /\ "unsupported_capability" \in Codes
BY DEF Codes

LEMMA ConcludesWith ==
  ASSUME NEW c \in Calls, NEW f, NEW code \in Codes, ConcludeWith(c, f, code)
  PROVE  Concludes(c)
<1>1. Outcome(ToolOf(c), f, code) \in Outcomes
  BY OutcomeType
<1> QED  BY <1>1 DEF ConcludeWith, Concludes

LEMMA TailOf ==
  ASSUME NEW S, NEW s \in Seq(S), s # <<>>
  PROVE  /\ Tail(s) \in Seq(S)
         /\ Len(s) \in Nat \ {0} /\ s[1] \in S
         /\ Len(s) # 1 => Tail(s) # <<>>
<1>1. Len(s) \in Nat \ {0}
  BY EmptySeq
<1>2. Tail(s) \in Seq(S) /\ Len(Tail(s)) = Len(s) - 1
  BY HeadTailProperties
<1>3. Len(s) # 1 => Len(Tail(s)) # 0
  BY <1>1, <1>2
<1>4. s[1] \in S
  BY <1>1, ElementOfSeq
<1> QED  BY <1>1, <1>2, <1>3, <1>4, EmptySeq

(* What a running call may do after an exit.                               *)
LEMMA FollowType ==
  ASSUME TypeOK, Begun, NEW c \in Calls, Runs(c),
         NEW move \in Moves, NEW f \in SUBSET Facts, Follow(c, move, f)
  PROVE  /\ todo' \in [Calls -> Seq(Commands)]
         /\ facts' \in [Calls -> SUBSET Facts]
         /\ \A d \in Calls \ {c} : todo'[d] = todo[d] /\ facts'[d] = facts[d]
         /\ \/ Concludes(c)
            \/ StaysOpen /\ todo'[c] # <<>>
<1>0. pc[c] = "running" /\ todo[c] \in Seq(Commands) /\ todo[c] # <<>>
  BY DEF Runs, TypeOK
<1>1. CASE move \in {"use", "skip"}
  <2>1. GoOn(c, facts[c] \cup f)
    BY <1>1 DEF Follow
  <2>2. facts' \in [Calls -> SUBSET Facts] /\ \A d \in Calls \ {c} : facts'[d] = facts[d]
    BY <2>1 DEF GoOn, TypeOK
  <2>3. CASE Over(c, facts[c] \cup f)
    <3>1. todo' = [todo EXCEPT ![c] = <<>>] /\ Concludes(c)
      BY <2>1, <2>3, ConcludesWith, CodesKnown DEF GoOn
    <3> QED  BY <2>2, <3>1 DEF TypeOK
  <2>4. CASE ~Over(c, facts[c] \cup f)
    <3>1. todo' = [todo EXCEPT ![c] = Tail(@)] /\ StaysOpen
      BY <2>1, <2>4 DEF GoOn, StaysOpen
    <3>2. Len(todo[c]) # 1
      BY <2>4 DEF Over
    <3>3. Tail(todo[c]) \in Seq(Commands) /\ Tail(todo[c]) # <<>>
      BY <1>0, <3>2, TailOf
    <3> QED  BY <2>2, <3>1, <3>3 DEF TypeOK
  <2> QED  BY <2>3, <2>4
<1>2. CASE move \notin {"use", "skip"}
  <2>1. Stop(c, IF move = "empty" THEN "success" ELSE move)
    BY <1>2 DEF Follow
  <2>2. (IF move = "empty" THEN "success" ELSE move) \in Codes
    BY <1>2, CodesKnown DEF Moves
  <2>3. Concludes(c) /\ todo' = todo /\ facts' = facts
    BY <2>1, <2>2, ConcludesWith DEF Stop
  <2> QED  BY <2>3 DEF TypeOK
<1> QED  BY <1>1, <1>2

LEMMA FindsKeeps ==
  ASSUME TypeOK, Begun, NEW c \in Calls, pc[c] = "running",
         NEW exe \in Executables, Finds(c, exe)
  PROVE  HostsKept
BY HostType DEF Finds, HostsKept, TypeOK

LEMMA MissesKeeps ==
  ASSUME TypeOK, Begun, NEW c \in Calls, pc[c] = "running",
         NEW exe \in Executables, Misses(c, exe)
  PROVE  HostsKept
BY HostType DEF Misses, HostsKept, TypeOK

LEMMA RanKept ==
  ASSUME TypeOK, NEW c \in Calls, ran' = ran
  PROVE  RanMore(c)
BY DEF RanMore, TypeOK

LEMMA ProbeEffects ==
  ASSUME TypeOK, Begun, NEW c \in Calls, ProbeFinds(c) \/ ProbeFails(c)
  PROVE  Effect(c) /\ HostsKept
<1>1. /\ pc[c] = "running" /\ candidates[c] # <<>>
      /\ candidates[c] \in Seq(Commands)
  BY DEF ProbeFinds, ProbeFails, Asking, TypeOK
<1>2. /\ candidates[c][1] \in Commands /\ candidates[c][1].exe \in Executables
      /\ Len(candidates[c]) \in Nat \ {0} /\ Tail(candidates[c]) \in Seq(Commands)
      /\ Len(candidates[c]) # 1 => Tail(candidates[c]) # <<>>
  <2>1. candidates[c][1] \in Commands
    BY <1>1, TailOf
  <2> QED  BY <1>1, <2>1, TailOf DEF Commands
<1>3. CASE ProbeFinds(c)
  <2>1. candidates' = [candidates EXCEPT ![c] = <<>>] /\ facts' = facts /\ ran' = ran
    BY <1>3 DEF ProbeFinds
  <2>2. /\ todo' \in [Calls -> Seq(Commands)]
        /\ \A d \in Calls \ {c} : todo'[d] = todo[d]
        /\ Concludes(c) \/ (StaysOpen /\ todo'[c] # <<>>)
    <3>1. CASE todo' = [todo EXCEPT ![c] = <<Chosen(c)>>] /\ StaysOpen
      <4>1. <<Chosen(c)>> \in Seq(Commands) /\ <<Chosen(c)>> # <<>>
        BY <1>2 DEF Chosen
      <4> QED  BY <3>1, <4>1 DEF TypeOK
    <3>2. CASE ConcludeWith(c, {}, "unsupported_capability") /\ todo' = todo
      BY <3>2, ConcludesWith, CodesKnown DEF TypeOK
    <3> QED  BY <1>3, <3>1, <3>2 DEF ProbeFinds, StaysOpen
  <2>3. HostsKept
    BY <1>1, <1>2, <1>3, FindsKeeps DEF ProbeFinds
  <2>4. /\ candidates' \in [Calls -> Seq(Commands)]
        /\ \A d \in Calls \ {c} : candidates'[d] = candidates[d]
        /\ request' = request
    BY <1>3, <2>1, EmptySeq DEF ProbeFinds, TypeOK
  <2> QED  BY <1>1, <2>1, <2>2, <2>3, <2>4, RanKept DEF Effect, TypeOK
<1>4. CASE ProbeFails(c)
  <2>1. /\ candidates' = [candidates EXCEPT ![c] = Tail(candidates[c])]
        /\ facts' = facts /\ ran' = ran /\ todo' = todo /\ request' = request
    BY <1>4 DEF ProbeFails
  <2>2. Concludes(c) \/ (StaysOpen /\ candidates'[c] # <<>>)
    <3>1. CASE GivesUp(c)
      BY <1>4, <3>1, ConcludesWith, CodesKnown DEF ProbeFails
    <3>2. CASE ~GivesUp(c)
      BY <1>2, <1>4, <2>1, <3>2 DEF ProbeFails, StaysOpen, GivesUp, TypeOK
    <3> QED  BY <3>1, <3>2
  <2>3. HostsKept
    BY <1>1, <1>2, <1>4, MissesKeeps DEF ProbeFails
  <2> QED  BY <1>1, <1>2, <2>1, <2>2, <2>3, RanKept DEF Effect, TypeOK
<1> QED  BY <1>3, <1>4

LEMMA RunsType ==
  ASSUME TypeOK, NEW c \in Calls, Runs(c)
  PROVE  /\ pc[c] = "running" /\ candidates[c] = <<>>
         /\ todo[c][1] \in Commands /\ Executable(c) \in Executables
<1>1. todo[c] \in Seq(Commands) /\ todo[c] # <<>>
  BY DEF Runs, TypeOK
<1>2. todo[c][1] \in Commands
  BY <1>1, TailOf
<1>3. todo[c][1].exe \in Executables
  BY <1>2 DEF Commands
<1>4. "sudo" \in Executables
  BY DEF Executables
<1>5. Executable(c) = "sudo" \/ Executable(c) = todo[c][1].exe
  BY DEF Executable
<1>6. Executable(c) \in Executables
  BY <1>3, <1>4, <1>5
<1> QED  BY <1>2, <1>6 DEF Runs

LEMMA RanType ==
  ASSUME TypeOK, Begun, NEW c \in Calls, Runs(c), RanNow(c, Executable(c))
  PROVE  RanMore(c)
BY RunsType, HostType DEF RanNow, RanMore, TypeOK

LEMMA ReadingsType ==
  ASSUME NEW t, NEW cmd \in Commands, NEW out \in Outputs(t, cmd),
         NEW r \in Readings(cmd, out)
  PROVE  r.move \in Moves /\ r.facts \in SUBSET Facts
<1>1. out \subseteq {"cut", "redacted", "garbled", "more", "exact"} /\ cmd.otherwise \subseteq Moves
  BY DEF Outputs, Commands
<1>2. CASE Understood(cmd, out)
  <2>1. r = [move |-> "use", facts |-> {"used"} \cup out] /\ "garbled" \notin out
    BY <1>2 DEF Readings, Understood
  <2> QED  BY <1>1, <2>1 DEF Moves, Facts
<1>3. CASE ~Understood(cmd, out)
  <2>1. PICK move \in cmd.otherwise :
          r = [move  |-> move,
               facts |-> {"used"} \cup IF move = "skip" THEN {"unread"} ELSE out \ {"garbled"}]
    BY <1>3 DEF Readings
  <2> QED  BY <1>1, <2>1 DEF Facts
<1> QED  BY <1>2, <1>3

LEMMA ExitType ==
  ASSUME TypeOK, NEW c \in Calls, Runs(c), NEW e \in Exits
  PROVE  Exit(c, e) \in Moves
BY RunsType DEF Exit, Commands

LEMMA FollowsType ==
  ASSUME TypeOK, Begun, NEW c \in Calls, Runs(c), Follows(c)
  PROVE  /\ todo' \in [Calls -> Seq(Commands)]
         /\ facts' \in [Calls -> SUBSET Facts]
         /\ \A d \in Calls \ {c} : todo'[d] = todo[d] /\ facts'[d] = facts[d]
         /\ Concludes(c) \/ (StaysOpen /\ todo'[c] # <<>>)
<1>1. PICK move \in Moves, f \in SUBSET Facts : Follow(c, move, f)
  BY DEF Follows
<1> QED  BY <1>1, FollowType

LEMMA CommandEffects ==
  ASSUME TypeOK, Begun, NEW c \in Calls,
         CommandUsed(c) \/ CommandNotUsed(c) \/ CommandMissing(c)
  PROVE  Effect(c) /\ HostsKept
<1>1. Runs(c) /\ request' = request /\ candidates' = candidates
  BY DEF CommandUsed, CommandNotUsed, CommandMissing
<1>2. pc[c] = "running" /\ Executable(c) \in Executables
  BY <1>1, RunsType
<1>3. CASE CommandUsed(c)
  <2>1. PICK out \in Outputs(ToolOf(c), todo[c][1]) :
          \E r \in Readings(todo[c][1], out) : Follow(c, r.move, r.facts)
    BY <1>3 DEF CommandUsed
  <2>2. PICK r \in Readings(todo[c][1], out) : Follow(c, r.move, r.facts)
    BY <2>1
  <2>3. Follows(c)
    BY <1>1, <2>2, RunsType, ReadingsType DEF Follows
  <2>4. RanNow(c, Executable(c)) /\ HostsKept
    BY <1>2, <1>3, FindsKeeps DEF CommandUsed
  <2>5. RanMore(c)
    BY <1>1, <2>4, RanType
  <2> QED  BY <1>1, <1>2, <2>3, <2>4, <2>5, FollowsType DEF Effect, TypeOK
<1>4. CASE CommandNotUsed(c)
  <2>1. PICK e \in {"one", "denied", "other"} \cup {"missing" : x \in Starters \cap {Executable(c)}} :
          Follow(c, Exit(c, e), {})
    BY <1>4 DEF CommandNotUsed
  <2>2. e \in Exits
    BY <2>1 DEF Exits
  <2>3. Follows(c)
    BY <1>1, <2>1, <2>2, ExitType DEF Follows
  <2>4. RanNow(c, Executable(c)) /\ HostsKept
    BY <1>2, <1>4, FindsKeeps DEF CommandNotUsed
  <2>5. RanMore(c)
    BY <1>1, <2>4, RanType
  <2> QED  BY <1>1, <1>2, <2>3, <2>4, <2>5, FollowsType DEF Effect, TypeOK
<1>5. CASE CommandMissing(c)
  <2>1. HostsKept /\ ran' = ran
    BY <1>2, <1>5, MissesKeeps DEF CommandMissing
  <2>2. CASE Follow(c, Exit(c, "missing"), {})
    <3>1. Follows(c)
      BY <1>1, <2>2, ExitType DEF Exits, Follows
    <3> QED  BY <1>1, <1>2, <2>1, <3>1, RanKept, FollowsType DEF Effect, TypeOK
  <2>3. CASE Stop(c, "unsupported_capability")
    <3>1. Concludes(c) /\ todo' = todo /\ facts' = facts
      BY <2>3, ConcludesWith, CodesKnown DEF Stop
    <3> QED  BY <1>1, <1>2, <2>1, <3>1, RanKept DEF Effect, TypeOK
  <2> QED  BY <1>5, <2>2, <2>3 DEF CommandMissing
<1> QED  BY <1>3, <1>4, <1>5

LEMMA ServeEffects ==
  ASSUME TypeOK, Begun, NEW c \in Calls, Serve(c)
  PROVE  Effect(c) /\ HostsKept
<1>1. CASE TransportRaises(c)
  <2>1. PICK code \in TransportErrors(HostOf(c)) : ConcludeWith(c, facts[c], code)
    BY <1>1 DEF TransportRaises
  <2>2. code \in Codes
    BY DEF TransportErrors, Codes
  <2>3. Concludes(c)
    BY <2>1, <2>2, ConcludesWith
  <2> QED  BY <1>1, <2>3, RanKept
           DEF TransportRaises, Asking, Runs, Effect, HostsKept, TypeOK, work, hosts
<1> QED  BY <1>1, ProbeEffects, CommandEffects DEF Serve

-----------------------------------------------------------------------------
(* What a step that receives the call c does, for the request q.           *)
Received(c, q) ==
  /\ pc[c] = "idle"
  /\ request' = [request EXCEPT ![c] = q]
  /\ UNCHANGED <<facts, ran, hosts>>

AnswersAtOnce(c, q) ==
  /\ \E o \in Outcomes : Conclude(c, q.target, o)
  /\ Program[q.tool].finds # "early" \/ q.target \in Registered(q.tool)
  /\ UNCHANGED work

Refuses(c, q) ==
  /\ Program[q.tool].finds = "early" /\ q.target \notin Registered(q.tool)
  /\ pc' = [pc EXCEPT ![c] = "answered"]
  /\ answer' = [answer EXCEPT ![c] =
                   [code |-> "unknown_workspace", truncated |-> FALSE, redacted |-> FALSE]]
  /\ UNCHANGED <<log, work>>

Begins(c, q) ==
  /\ Program[q.tool].finds # "registry" /\ q.target \in Registered(q.tool)
  /\ pc' = [pc EXCEPT ![c] = "running"]
  /\ candidates' = [candidates EXCEPT ![c] = Program[q.tool].choice]
  /\ todo' = [todo EXCEPT ![c] = Program[q.tool].commands]
  /\ UNCHANGED <<answer, log>>

LEMMA ReceiveEffects ==
  ASSUME NEW c \in Calls, NEW q \in Requests, Receive(c, q.tool, q.target)
  PROVE  Received(c, q) /\ (AnswersAtOnce(c, q) \/ Refuses(c, q) \/ Begins(c, q))
<1> DEFINE t == q.tool
           x == q.target
<1>0. q = [tool |-> t, target |-> x] /\ t \in AllTools
  BY DEF Requests
<1>1. CASE LookupFails(c, t, x)
  <2>1. Outcome(t, {}, Unknown(t)) \in Outcomes
    BY OutcomeType DEF Unknown, Codes
  <2> QED  BY <1>0, <1>1, <2>1 DEF LookupFails, Ask, Received, AnswersAtOnce, work
<1>2. CASE EarlyLookupFails(c, t, x)
  BY <1>0, <1>2 DEF EarlyLookupFails, Ask, Outcome, Unknown, Received, Refuses, work
<1>3. CASE CheckFails(c, t, x)
  <2>1. PICK i \in DOMAIN Program[t].checks : Conclude(c, x, Outcome(t, {}, Program[t].checks[i]))
    BY <1>3 DEF CheckFails
  <2>2. Program[t].checks[i] \in Codes
    BY <1>0, <2>1, TableAssumption, ElementOfSeq, LenProperties
  <2> QED  BY <1>0, <1>3, <2>1, <2>2, OutcomeType
           DEF CheckFails, Ask, Received, AnswersAtOnce, work
<1>4. CASE ListRegistry(c, t, x)
  <2>1. Outcome(t, {}, "success") \in Outcomes
    BY OutcomeType, CodesKnown
  <2> QED  BY <1>0, <1>4, <2>1 DEF ListRegistry, Ask, Received, AnswersAtOnce, work
<1>5. CASE Begin(c, t, x)
  BY <1>0, <1>5 DEF Begin, Ask, Received, Begins
<1> QED  BY <1>1, <1>2, <1>3, <1>4, <1>5 DEF Receive

-----------------------------------------------------------------------------
LEMMA Initially == Init => TypeOK /\ Begun
BY EmptySeq DEF Init, TypeOK, Begun, Facts

LEMMA AskedIsRequest ==
  ASSUME NEW c \in Calls, NEW q \in Asks[c]
  PROVE  q \in Requests
BY AskAssumption

LEMMA ReceiveTyped ==
  ASSUME TypeOK, Begun, NEW c \in Calls, NEW q \in Requests, Receive(c, q.tool, q.target)
  PROVE  TypeOK' /\ Begun'
<1>1. Received(c, q) /\ (AnswersAtOnce(c, q) \/ Refuses(c, q) \/ Begins(c, q))
  BY ReceiveEffects
<1>2. Shown(q.target) \in Identifiers
  BY ShownType
<1>3. CASE AnswersAtOnce(c, q)
  <2>1. PICK o \in Outcomes : Conclude(c, q.target, o)
    BY <1>3 DEF AnswersAtOnce
  <2>2. /\ pc' = [pc EXCEPT ![c] = "answered"]
        /\ answer' \in [Calls -> Outcomes \cup {NoAnswer}]
        /\ log' \in Seq([call : Calls, target : Identifiers, outcome : Outcomes])
    BY <1>2, <2>1, ConcludeType
  <2> QED  BY <1>1, <1>3, <2>2
           DEF Received, AnswersAtOnce, TypeOK, Begun, work, hosts, Asking, Runs, ToolOf
<1>4. CASE Refuses(c, q)
  <2>1. [code |-> "unknown_workspace", truncated |-> FALSE, redacted |-> FALSE] \in Outcomes
    BY DEF Outcomes, Codes
  <2> QED  BY <1>1, <1>4, <2>1
           DEF Received, Refuses, TypeOK, Begun, work, hosts, Asking, Runs, ToolOf
<1>5. CASE Begins(c, q)
  <2>1. /\ Program[q.tool].choice \in Seq(Commands) /\ Program[q.tool].commands \in Seq(Commands)
        /\ Program[q.tool].choice # <<>> \/ Program[q.tool].commands # <<>>
    BY <1>5, TableAssumption DEF Begins, Requests
  <2> QED  BY <1>1, <1>5, <2>1
           DEF Received, Begins, TypeOK, Begun, hosts, Asking, Runs, ToolOf
<1> QED  BY <1>1, <1>3, <1>4, <1>5

LEMMA ServeTyped ==
  ASSUME TypeOK, Begun, NEW c \in Calls, Serve(c)
  PROVE  TypeOK' /\ Begun'
<1>1. Effect(c) /\ HostsKept
  BY ServeEffects
<1>2. CASE Concludes(c)
  <2>1. PICK o \in Outcomes : Conclude(c, request[c].target, o)
    BY <1>2 DEF Concludes
  <2>2. /\ pc' = [pc EXCEPT ![c] = "answered"]
        /\ answer' \in [Calls -> Outcomes \cup {NoAnswer}]
        /\ log' \in Seq([call : Calls, target : Identifiers, outcome : Outcomes])
    BY <1>1, <2>1, TargetShown, ConcludeType DEF Effect
  <2> QED  BY <1>1, <2>2
           DEF Effect, RanMore, HostsKept, TypeOK, Begun, Asking, Runs, ToolOf
<1>3. CASE StaysOpen /\ (candidates'[c] # <<>> \/ todo'[c] # <<>>)
  BY <1>1, <1>3
     DEF Effect, RanMore, HostsKept, StaysOpen, TypeOK, Begun, Asking, Runs, ToolOf
<1> QED  BY <1>1, <1>2, <1>3 DEF Effect

LEMMA StepTyped == TypeOK /\ Begun /\ [Next]_vars => TypeOK' /\ Begun'
<1> SUFFICES ASSUME TypeOK, Begun, [Next]_vars PROVE TypeOK' /\ Begun'
  OBVIOUS
<1>1. ASSUME NEW c \in Calls, NEW q \in Asks[c], Receive(c, q.tool, q.target)
      PROVE  TypeOK' /\ Begun'
  BY <1>1, AskedIsRequest, ReceiveTyped
<1>2. ASSUME NEW c \in Calls, Serve(c)
      PROVE  TypeOK' /\ Begun'
  BY <1>2, ServeTyped
<1>3. ASSUME NEW c \in Calls, Cancel(c)
      PROVE  TypeOK' /\ Begun'
  BY <1>3 DEF Cancel, TypeOK, Begun, work, hosts, Asking, Runs, ToolOf
<1>4. CASE UNCHANGED vars
  BY <1>4 DEF vars, TypeOK, Begun, work, hosts, Asking, Runs, ToolOf
<1> QED  BY <1>1, <1>2, <1>3, <1>4 DEF Next

(* Every reachable state is typed, so every answer has one of the error    *)
(* codes that are documented, and a running call has something to do.      *)
THEOREM Typed == Spec => []TypeOK
<1>1. Spec => [](TypeOK /\ Begun)
  BY Initially, StepTyped, PTL DEF Spec
<1> QED  BY <1>1, PTL

-----------------------------------------------------------------------------
(* The audit log.                                                          *)

(* One more event.                                                         *)
LEMMA LogGrows ==
  ASSUME TypeOK, NEW c, NEW x, NEW o, log' = Append(log, Event(c, x, o))
  PROVE  /\ Len(log) \in Nat
         /\ \A d : d # c => Own(d)' = Own(d)
         /\ Own(c)' = Own(c) \cup {Len(log) + 1}
         /\ log'[Len(log) + 1] = Event(c, x, o)
         /\ \A i \in DOMAIN log : log'[i] = log[i]
<1> DEFINE n == Len(log)
<1>1. n \in Nat /\ DOMAIN log = 1..n
  BY LenProperties DEF TypeOK
<1>2. /\ Len(log') = n + 1 /\ DOMAIN log' = 1..(n + 1)
      /\ log'[n + 1] = Event(c, x, o)
      /\ \A i \in 1..n : log'[i] = log[i]
  BY <1>1
<1>3. Event(c, x, o).call = c
  BY DEF Event
<1> QED  BY <1>1, <1>2, <1>3 DEF Own

LEMMA LogKept ==
  ASSUME log' = log
  PROVE  \A d : Own(d)' = Own(d)
BY DEF Own

(* The log is right about a call whose events and answer do not change.    *)
Right(c) ==
  IF Answered(c) /\ Enters(c)
    THEN \E i \in Own(c) : /\ Own(c) = {i}
                           /\ log[i].outcome = answer[c]
                           /\ log[i].target = Shown(request[c].target)
    ELSE Own(c) = {}

LEMMA RightKept ==
  ASSUME NEW d, Right(d), Own(d)' = Own(d), \A i \in Own(d) : log'[i] = log[i],
         request'[d] = request[d], answer'[d] = answer[d],
         Answered(d)' <=> Answered(d)
  PROVE  Right(d)'
BY DEF Right, Enters, ToolOf

LEMMA RightAnswered ==
  ASSUME TypeOK, NEW c \in Calls, Own(c) = {}, NEW x, NEW o, Conclude(c, x, o),
         request'[c].target = x, Enters(c)'
  PROVE  Right(c)'
<1>1. /\ Own(c)' = {Len(log) + 1} /\ log'[Len(log) + 1] = Event(c, x, o)
  BY LogGrows DEF Conclude
<1>2. answer'[c] = o /\ Answered(c)'
  BY DEF Conclude, TypeOK, Answered
<1>3. Event(c, x, o).outcome = o /\ Event(c, x, o).target = Shown(x)
  BY DEF Event
<1> QED  BY <1>1, <1>2, <1>3 DEF Right

(* Concluding a call disturbs no other.                                    *)
LEMMA RightOthers ==
  ASSUME TypeOK, NEW c \in Calls, NEW d \in Calls \ {c}, Right(d), NEW x, NEW o,
         Conclude(c, x, o), request'[d] = request[d]
  PROVE  Right(d)'
<1>1. Own(d)' = Own(d) /\ \A i \in Own(d) : log'[i] = log[i]
  BY LogGrows DEF Conclude, Own
<1>2. answer'[d] = answer[d] /\ pc'[d] = pc[d]
  BY DEF Conclude, TypeOK
<1> QED  BY <1>1, <1>2, RightKept DEF Answered

LEMMA AuditStep ==
  ASSUME TypeOK, Begun, AuditMatchesAnswers, [Next]_vars
  PROVE  AuditMatchesAnswers'
<1> USE DEF Answered
<1>1. \A d \in Calls : Right(d)
  BY DEF AuditMatchesAnswers, Right
<1> SUFFICES ASSUME NEW d \in Calls PROVE Right(d)'
  BY DEF AuditMatchesAnswers, Right
<1>2. ASSUME NEW c \in Calls, NEW q \in Asks[c], Receive(c, q.tool, q.target)
      PROVE  Right(d)'
  <2>1. /\ q \in Requests /\ pc[c] = "idle" /\ request' = [request EXCEPT ![c] = q]
        /\ AnswersAtOnce(c, q) \/ Refuses(c, q) \/ Begins(c, q)
    BY <1>2, AskedIsRequest, ReceiveEffects DEF Received
  <2>2. request'[c] = q /\ (d # c => request'[d] = request[d])
    BY <2>1 DEF TypeOK
  <2>3. Own(c) = {}
    BY <1>1, <2>1 DEF Right
  <2>4. CASE AnswersAtOnce(c, q)
    <3>1. PICK o \in Outcomes : Conclude(c, q.target, o)
      BY <2>4 DEF AnswersAtOnce
    <3>2. Enters(c)'
      BY <2>2, <2>4 DEF AnswersAtOnce, Enters, ToolOf, Registered
    <3> QED  BY <1>1, <2>2, <2>3, <3>1, <3>2, RightAnswered, RightOthers
  <2>5. CASE Refuses(c, q)
    <3>1. ~Enters(c)'
      BY <2>2, <2>5 DEF Refuses, Enters, ToolOf, Registered
    <3>2. d # c => pc'[d] = pc[d] /\ answer'[d] = answer[d]
      BY <2>5 DEF Refuses, TypeOK
    <3> QED  BY <1>1, <2>2, <2>3, <2>5, <3>1, <3>2, LogKept, RightKept DEF Refuses, Right
  <2>6. CASE Begins(c, q)
    <3>1. pc'[c] = "running" /\ (d # c => pc'[d] = pc[d]) /\ answer' = answer
      BY <2>6 DEF Begins, TypeOK
    <3> QED  BY <1>1, <2>2, <2>3, <2>6, <3>1, LogKept, RightKept DEF Begins, Right
  <2> QED  BY <2>1, <2>4, <2>5, <2>6
<1>3. ASSUME NEW c \in Calls, Serve(c)
      PROVE  Right(d)'
  <2>1. pc[c] = "running" /\ request' = request /\ (Concludes(c) \/ StaysOpen)
    BY <1>3, ServeEffects DEF Effect
  <2>2. CASE Concludes(c)
    <3>1. PICK o \in Outcomes : Conclude(c, request[c].target, o)
      BY <2>2 DEF Concludes
    <3>2. Own(c) = {} /\ Enters(c)'
      BY <1>1, <2>1 DEF Right, Begun, Enters, ToolOf, Registered
    <3> QED  BY <1>1, <2>1, <3>1, <3>2, RightAnswered, RightOthers
  <2>3. CASE StaysOpen
    BY <1>1, <2>1, <2>3, LogKept, RightKept DEF StaysOpen
  <2> QED  BY <2>1, <2>2, <2>3
<1>4. ASSUME NEW c \in Calls, Cancel(c)
      PROVE  Right(d)'
  <2>1. Answered(d)' <=> Answered(d)
    BY <1>4 DEF Cancel, TypeOK
  <2> QED  BY <1>1, <1>4, <2>1, LogKept, RightKept DEF Cancel
<1>5. CASE UNCHANGED vars
  BY <1>1, <1>5, LogKept, RightKept DEF vars
<1> QED  BY <1>2, <1>3, <1>4, <1>5 DEF Next

(* However many calls interleave: one event for every answer that went     *)
(* through run_observed_tool, telling what the client was told, and none   *)
(* for any other call.                                                     *)
THEOREM Audited == Spec => []AuditMatchesAnswers
<1>1. Init => AuditMatchesAnswers
  BY DEF Init, AuditMatchesAnswers, Own, Answered
<1>2. Spec => [](TypeOK /\ Begun /\ AuditMatchesAnswers)
  BY <1>1, Initially, StepTyped, AuditStep, PTL DEF Spec
<1> QED  BY <1>2, PTL

-----------------------------------------------------------------------------
(* The registry.                                                           *)

Unasked == \A c \in Calls : pc[c] = "idle" => ran[c] = {}

LEMMA RegistryStep ==
  ASSUME TypeOK, Begun, Unasked, StaysInRegistry, [Next]_vars
  PROVE  Unasked' /\ StaysInRegistry'
<1> USE DEF Unasked, StaysInRegistry
<1>1. ASSUME NEW c \in Calls, NEW q \in Asks[c], Receive(c, q.tool, q.target)
      PROVE  Unasked' /\ StaysInRegistry'
  <2>1. /\ pc[c] = "idle" /\ request' = [request EXCEPT ![c] = q] /\ ran' = ran
        /\ AnswersAtOnce(c, q) \/ Refuses(c, q) \/ Begins(c, q)
    BY <1>1, AskedIsRequest, ReceiveEffects DEF Received
  <2>2. \A d \in Calls \ {c} : request'[d] = request[d] /\ pc'[d] = pc[d]
    BY <2>1 DEF TypeOK, AnswersAtOnce, Conclude, Refuses, Begins
  <2> QED  BY <2>1, <2>2 DEF Registered, ToolOf
<1>2. ASSUME NEW c \in Calls, Serve(c)
      PROVE  Unasked' /\ StaysInRegistry'
  <2>1. pc[c] = "running" /\ request' = request /\ RanMore(c) /\ (Concludes(c) \/ StaysOpen)
    BY <1>2, ServeEffects DEF Effect
  <2>2. \A d \in Calls : pc'[d] = "idle" => pc[d] = "idle" /\ d # c
    BY <2>1 DEF TypeOK, Concludes, Conclude, StaysOpen
  <2>3. Unasked'
    BY <2>1, <2>2 DEF RanMore
  <2>4. /\ request[c].target \in Registered(ToolOf(c))
        /\ HostOf(c) = IF Program[ToolOf(c)].finds = "host" THEN request[c].target
                       ELSE Owner[request[c].target]
    BY <2>1 DEF Begun, HostOf, Place
  <2>5. StaysInRegistry'
    BY <2>1, <2>4 DEF RanMore, Registered, ToolOf
  <2> QED  BY <2>3, <2>5
<1>3. ASSUME NEW c \in Calls, Cancel(c)
      PROVE  Unasked' /\ StaysInRegistry'
  BY <1>3 DEF Cancel, work, TypeOK, Registered, ToolOf
<1>4. CASE UNCHANGED vars
  BY <1>4 DEF vars, work, Registered, ToolOf
<1> QED  BY <1>1, <1>2, <1>3, <1>4 DEF Next

(* Commands are run on the host that the registry gives for the target of  *)
(* their call, and on no other.                                            *)
THEOREM InRegistry == Spec => []StaysInRegistry
<1>1. Init => Unasked /\ StaysInRegistry
  BY DEF Init, Unasked, StaysInRegistry
<1>2. Spec => [](TypeOK /\ Begun /\ Unasked /\ StaysInRegistry)
  BY <1>1, Initially, StepTyped, RegistryStep, PTL DEF Spec
<1> QED  BY <1>2, PTL

-----------------------------------------------------------------------------
(* Backends.                                                               *)

Options(c) == Program[ToolOf(c)].choice

(* The first k - 1 candidates are missing, and the call is about to ask    *)
(* for number k, or it has found it and is about to run it.                *)
UpTo(c, k) ==
  /\ \A j \in 1..(k - 1) : Options(c)[j].exe \in lacks[HostOf(c)]
  /\ \/ /\ Len(candidates[c]) = Len(Options(c)) - k + 1
        /\ \A i \in 1..Len(candidates[c]) : candidates[c][i] = Options(c)[k - 1 + i]
     \/ /\ candidates[c] = <<>>
        /\ todo[c] = <<Options(c)[k]>>
        /\ Options(c)[k].exe \in has[HostOf(c)]

Choosing ==
  \A c \in Calls : pc[c] = "running" /\ Options(c) # <<>> =>
    \E k \in 1..Len(Options(c)) : UpTo(c, k)

(* What FirstAvailable says of one command that was run.                   *)
InOrder(c, p) ==
  Options(c) # <<>> =>
    \E i \in DOMAIN Options(c) :
      /\ Options(c)[i].exe = p[2]
      /\ p[2] \in has[p[1]]
      /\ \A j \in 1..(i - 1) : Options(c)[j].exe \in lacks[p[1]]

LEMMA OptionsType ==
  ASSUME TypeOK, Begun, NEW c \in Calls, pc[c] = "running"
  PROVE  /\ Options(c) \in Seq(Commands) /\ Len(Options(c)) \in Nat
         /\ DOMAIN Options(c) = 1..Len(Options(c))
         /\ \A i \in 1..Len(Options(c)) : Options(c)[i].exe # "tmux"
<1>1. ToolOf(c) \in AllTools
  BY DEF Begun, ToolOf, Requests
<1>2. Options(c) \in Seq(Commands)
  BY <1>1, TableAssumption DEF Options
<1>3. Len(Options(c)) \in Nat /\ DOMAIN Options(c) = 1..Len(Options(c))
  BY <1>2, LenProperties
<1> QED  BY <1>1, <1>2, <1>3, TableAssumption DEF Options

(* A command that is the last concludes its call.                          *)
LEMMA LastConcludes ==
  ASSUME TypeOK, NEW c \in Calls, Runs(c), Len(todo[c]) = 1,
         NEW move \in Moves, NEW f, Follow(c, move, f)
  PROVE  Concludes(c)
<1>1. CASE move \in {"use", "skip"}
  <2>1. GoOn(c, facts[c] \cup f) /\ Over(c, facts[c] \cup f)
    BY <1>1 DEF Follow, Over
  <2> QED  BY <2>1, ConcludesWith, CodesKnown DEF GoOn
<1>2. CASE move \notin {"use", "skip"}
  <2>1. Stop(c, IF move = "empty" THEN "success" ELSE move)
    BY <1>2 DEF Follow
  <2>2. (IF move = "empty" THEN "success" ELSE move) \in Codes
    BY <1>2, CodesKnown DEF Moves
  <2> QED  BY <2>1, <2>2, ConcludesWith DEF Stop
<1> QED  BY <1>1, <1>2

LEMMA CommandLast ==
  ASSUME TypeOK, Begun, NEW c \in Calls, Len(todo[c]) = 1,
         CommandUsed(c) \/ CommandNotUsed(c) \/ CommandMissing(c)
  PROVE  Concludes(c)
<1>1. Runs(c)
  BY DEF CommandUsed, CommandNotUsed, CommandMissing
<1>2. CASE CommandUsed(c)
  <2>1. PICK out \in Outputs(ToolOf(c), todo[c][1]) :
          \E r \in Readings(todo[c][1], out) : Follow(c, r.move, r.facts)
    BY <1>2 DEF CommandUsed
  <2>2. PICK r \in Readings(todo[c][1], out) : Follow(c, r.move, r.facts)
    BY <2>1
  <2>3. r.move \in Moves
    BY <1>1, RunsType, ReadingsType
  <2> QED  BY <1>1, <2>2, <2>3, LastConcludes
<1>3. CASE CommandNotUsed(c)
  <2>1. PICK e \in {"one", "denied", "other"} \cup {"missing" : x \in Starters \cap {Executable(c)}} :
          Follow(c, Exit(c, e), {})
    BY <1>3 DEF CommandNotUsed
  <2>2. Exit(c, e) \in Moves
    BY <1>1, ExitType DEF Exits
  <2> QED  BY <1>1, <2>1, <2>2, LastConcludes
<1>4. CASE CommandMissing(c)
  <2>1. Exit(c, "missing") \in Moves
    BY <1>1, ExitType DEF Exits
  <2> QED  BY <1>1, <1>4, <2>1, LastConcludes, ConcludesWith, CodesKnown DEF CommandMissing, Stop
<1> QED  BY <1>2, <1>3, <1>4

(* Steps of other calls do not disturb a choice, nor what was run.         *)
LEMMA UpToKept ==
  ASSUME HostsKept, NEW d \in Calls, HostOf(d) \in Hosts, NEW k, UpTo(d, k),
         request'[d] = request[d], candidates'[d] = candidates[d], todo'[d] = todo[d]
  PROVE  UpTo(d, k)'
BY DEF HostsKept, UpTo, Options, HostOf, ToolOf

LEMMA InOrderKept ==
  ASSUME HostsKept, NEW d, NEW p \in Hosts \X Executables, InOrder(d, p),
         request'[d] = request[d]
  PROVE  InOrder(d, p)'
BY DEF HostsKept, InOrder, Options, ToolOf

(* The call that is served: it goes on choosing, or is over.               *)
LEMMA ServeChooses ==
  ASSUME TypeOK, Begun, Choosing, NEW c \in Calls, Serve(c),
         pc'[c] = "running", Options(c) # <<>>
  PROVE  \E k \in 1..Len(Options(c)) : UpTo(c, k)'
<1>1. /\ pc[c] = "running" /\ request' = request /\ Effect(c) /\ HostsKept
      /\ ~Concludes(c)
  BY ServeEffects DEF Effect, Concludes, Conclude, TypeOK
<1>2. Options(c)' = Options(c) /\ HostOf(c)' = HostOf(c) /\ HostOf(c) \in Hosts
  BY <1>1, HostType DEF Options, HostOf, ToolOf
<1>3. PICK k \in 1..Len(Options(c)) : UpTo(c, k)
  BY <1>1 DEF Choosing
<1>4. /\ Len(Options(c)) \in Nat /\ Options(c) \in Seq(Commands)
      /\ candidates[c] \in Seq(Commands)
  BY <1>1, OptionsType DEF TypeOK
<1>5. CASE ProbeFinds(c)
  <2>1. candidates[c] # <<>> /\ Finds(c, candidates[c][1].exe) /\ candidates'[c] = <<>>
    BY <1>5 DEF ProbeFinds, Asking, TypeOK
  <2>2. todo'[c] = <<candidates[c][1]>>
    BY <1>1, <1>5, ConcludesWith, CodesKnown DEF ProbeFinds, Chosen, TypeOK
  <2>3. Len(candidates[c]) \in Nat \ {0}
    BY <1>4, <2>1, EmptySeq
  <2>4. candidates[c][1] = Options(c)[k]
    BY <1>3, <1>4, <2>1, <2>3 DEF UpTo
  <2>5. Options(c)[k].exe \in has'[HostOf(c)] /\ lacks' = lacks
    BY <1>2, <2>1, <2>4 DEF Finds, TypeOK
  <2> QED  BY <1>2, <1>3, <2>1, <2>2, <2>4, <2>5 DEF UpTo
<1>6. CASE ProbeFails(c)
  <2>1. /\ candidates[c] # <<>> /\ Misses(c, candidates[c][1].exe)
        /\ candidates'[c] = Tail(candidates[c]) /\ Len(candidates[c]) # 1
    BY <1>1, <1>6, ConcludesWith, CodesKnown DEF ProbeFails, Asking, GivesUp, TypeOK
  <2>2. /\ Len(candidates[c]) \in Nat \ {0} /\ Len(Tail(candidates[c])) = Len(candidates[c]) - 1
        /\ \A i \in 1..Len(Tail(candidates[c])) : Tail(candidates[c])[i] = candidates[c][i + 1]
    BY <1>4, <2>1, EmptySeq, HeadTailProperties
  <2>3. /\ Len(candidates[c]) = Len(Options(c)) - k + 1
        /\ \A i \in 1..Len(candidates[c]) : candidates[c][i] = Options(c)[k - 1 + i]
        /\ \A j \in 1..(k - 1) : Options(c)[j].exe \in lacks[HostOf(c)]
    BY <1>3, <2>1 DEF UpTo
  <2>4. candidates[c][1] = Options(c)[k]
    BY <1>3, <1>4, <2>2, <2>3
  <2>5. \A j \in 1..k : Options(c)[j].exe \in lacks'[HostOf(c)]
    BY <1>2, <1>3, <2>1, <2>3, <2>4 DEF Misses, TypeOK
  <2>6. k + 1 \in 1..Len(Options(c))
    BY <1>3, <1>4, <2>1, <2>2, <2>3
  <2>7. /\ Len(candidates'[c]) = Len(Options(c)) - (k + 1) + 1
        /\ \A i \in 1..Len(candidates'[c]) : candidates'[c][i] = Options(c)[(k + 1) - 1 + i]
    <3>1. Len(candidates'[c]) = Len(Options(c)) - (k + 1) + 1
      BY <1>3, <1>4, <2>1, <2>2, <2>3
    <3>2. ASSUME NEW i \in 1..Len(candidates'[c])
          PROVE  candidates'[c][i] = Options(c)[(k + 1) - 1 + i]
      <4>1. i + 1 \in 1..Len(candidates[c])
        BY <2>1, <2>2
      <4>2. candidates'[c][i] = candidates[c][i + 1]
        BY <2>1, <2>2
      <4>3. k - 1 + (i + 1) = (k + 1) - 1 + i
        BY <1>3, <1>4, <2>1, <2>2
      <4> QED  BY <2>3, <4>1, <4>2, <4>3
    <3> QED  BY <3>1, <3>2
  <2>8. UpTo(c, k + 1)'
    BY <1>2, <1>3, <2>5, <2>7 DEF UpTo
  <2> QED  BY <1>2, <2>6, <2>8
<1>7. CASE CommandUsed(c) \/ CommandNotUsed(c) \/ CommandMissing(c)
  <2>1. candidates[c] = <<>>
    BY <1>7 DEF CommandUsed, CommandNotUsed, CommandMissing, Runs
  <2>2. Len(candidates[c]) = 0
    BY <2>1, EmptySeq
  <2>3. todo[c] = <<Options(c)[k]>>
    BY <1>3, <1>4, <2>2 DEF UpTo
  <2>4. Len(todo[c]) = 1
    BY <2>3
  <2> QED  BY <1>1, <1>7, <2>4, CommandLast
<1>8. CASE TransportRaises(c)
  BY <1>1, <1>8, ConcludesWith DEF TransportRaises, TransportErrors, Codes
<1> QED  BY <1>5, <1>6, <1>7, <1>8 DEF Serve

(* What is run is what was found.                                          *)
LEMMA RanInOrder ==
  ASSUME TypeOK, Begun, Choosing, NEW c \in Calls, Serve(c), NEW p \in ran'[c] \ ran[c]
  PROVE  InOrder(c, p)'
<1>1. pc[c] = "running" /\ request' = request /\ HostsKept
  BY ServeEffects DEF Effect
<1>2. CommandUsed(c) \/ CommandNotUsed(c)
  BY DEF Serve, ProbeFinds, ProbeFails, CommandMissing, TransportRaises, work
<1>3. p = <<HostOf(c), Executable(c)>> /\ candidates[c] = <<>>
  BY <1>2 DEF CommandUsed, CommandNotUsed, RanNow, Runs, TypeOK
<1>4. SUFFICES ASSUME Options(c) # <<>> PROVE InOrder(c, p)'
  BY <1>1 DEF InOrder, Options, ToolOf
<1>5. PICK k \in 1..Len(Options(c)) : UpTo(c, k)
  BY <1>1, <1>4 DEF Choosing
<1>6. /\ Len(Options(c)) \in Nat /\ DOMAIN Options(c) = 1..Len(Options(c))
      /\ Options(c)[k].exe # "tmux" /\ HostOf(c) \in Hosts
  BY <1>1, <1>5, OptionsType, HostType
<1>7. todo[c] = <<Options(c)[k]>> /\ Options(c)[k].exe \in has[HostOf(c)]
  BY <1>3, <1>5, <1>6 DEF UpTo
<1>8. Executable(c) = Options(c)[k].exe
  BY <1>6, <1>7 DEF Executable
<1>9. InOrder(c, p)
  BY <1>3, <1>5, <1>6, <1>7, <1>8 DEF UpTo, InOrder
<1>10. Options(c)' = Options(c)
  BY <1>1 DEF Options, ToolOf
<1> QED  BY <1>1, <1>3, <1>6, <1>9, <1>10 DEF InOrder, HostsKept

LEMMA ChoiceStep ==
  ASSUME TypeOK, Begun, Unasked, Choosing, FirstAvailable, [Next]_vars
  PROVE  Choosing' /\ FirstAvailable'
<1>1. \A d \in Calls : \A p \in ran[d] : p \in Hosts \X Executables /\ InOrder(d, p)
  BY DEF FirstAvailable, InOrder, Options, TypeOK
<1> SUFFICES ASSUME NEW d \in Calls
             PROVE  /\ pc'[d] = "running" /\ Options(d)' # <<>> =>
                         \E k \in 1..Len(Options(d)') : UpTo(d, k)'
                    /\ \A p \in ran'[d] : InOrder(d, p)'
  BY DEF Choosing, FirstAvailable, InOrder, Options
<1> DEFINE Goal == /\ pc'[d] = "running" /\ Options(d)' # <<>> =>
                         \E k \in 1..Len(Options(d)') : UpTo(d, k)'
                   /\ \A p \in ran'[d] : InOrder(d, p)'
<1>2. ASSUME HostsKept, request'[d] = request[d], ran'[d] = ran[d],
             pc'[d] = "running" => /\ pc[d] = "running"
                                   /\ candidates'[d] = candidates[d] /\ todo'[d] = todo[d]
      PROVE  Goal
  <2>1. Options(d)' = Options(d)
    BY <1>2 DEF Options, ToolOf
  <2>2. \A p \in ran'[d] : InOrder(d, p)'
    BY <1>1, <1>2, InOrderKept
  <2>3. ASSUME pc'[d] = "running", Options(d)' # <<>>
        PROVE  \E k \in 1..Len(Options(d)') : UpTo(d, k)'
    BY <1>2, <2>1, <2>3, HostType, UpToKept DEF Choosing
  <2> QED  BY <2>2, <2>3
<1>3. ASSUME UNCHANGED hosts PROVE HostsKept
  BY <1>3 DEF hosts, HostsKept, TypeOK
<1>4. ASSUME NEW c \in Calls, NEW q \in Asks[c], Receive(c, q.tool, q.target)
      PROVE  Goal
  <2>1. /\ pc[c] = "idle" /\ request' = [request EXCEPT ![c] = q] /\ ran' = ran
        /\ HostsKept /\ q \in Requests
        /\ AnswersAtOnce(c, q) \/ Refuses(c, q) \/ Begins(c, q)
    BY <1>3, <1>4, AskedIsRequest, ReceiveEffects DEF Received
  <2>2. CASE d # c
    BY <1>2, <2>1, <2>2 DEF AnswersAtOnce, Refuses, Begins, Conclude, work, TypeOK
  <2>3. CASE d = c
    <3>1. ran'[c] = {}
      BY <2>1 DEF Unasked
    <3>2. ASSUME pc'[c] = "running", Options(c)' # <<>>
          PROVE  \E k \in 1..Len(Options(c)') : UpTo(c, k)'
      <4>1. candidates'[c] = Program[q.tool].choice /\ request'[c] = q
        BY <2>1, <3>2 DEF AnswersAtOnce, Refuses, Begins, Conclude, TypeOK
      <4>2. Options(c)' = Program[q.tool].choice
        BY <4>1 DEF Options, ToolOf
      <4>3. Options(c)' \in Seq(Commands)
        BY <2>1, <4>2, TableAssumption DEF Requests
      <4>4. Len(Options(c)') \in Nat \ {0}
        BY <3>2, <4>3, EmptySeq
      <4>5. UpTo(c, 1)'
        BY <4>1, <4>2, <4>4 DEF UpTo
      <4> QED  BY <4>4, <4>5
    <3> QED  BY <2>3, <3>1, <3>2
  <2> QED  BY <2>2, <2>3
<1>5. ASSUME NEW c \in Calls, Serve(c)
      PROVE  Goal
  <2>1. Effect(c) /\ HostsKept /\ request' = request
    BY <1>5, ServeEffects DEF Effect
  <2>2. CASE d # c
    <3>1. pc'[d] = pc[d]
      BY <2>1, <2>2 DEF Effect, Concludes, Conclude, StaysOpen, TypeOK
    <3> QED  BY <1>2, <2>1, <2>2, <3>1 DEF Effect, RanMore
  <2>3. CASE d = c
    <3>1. \A p \in ran'[c] : InOrder(c, p)'
      BY <1>1, <1>5, <2>1, InOrderKept, RanInOrder
    <3>2. Options(c)' = Options(c)
      BY <2>1 DEF Options, ToolOf
    <3> QED  BY <1>5, <2>3, <3>1, <3>2, ServeChooses
  <2> QED  BY <2>2, <2>3
<1>6. ASSUME NEW c \in Calls, Cancel(c)
      PROVE  Goal
  BY <1>2, <1>3, <1>6 DEF Cancel, work, TypeOK
<1>7. CASE UNCHANGED vars
  BY <1>2, <1>3, <1>7 DEF vars, work
<1> QED  BY <1>4, <1>5, <1>6, <1>7 DEF Next

LEMMA Started ==
  Spec => [](TypeOK /\ Begun /\ Unasked /\ StaysInRegistry /\ Choosing /\ FirstAvailable)
<1>1. Init => Unasked /\ StaysInRegistry /\ Choosing /\ FirstAvailable
  BY DEF Init, Unasked, StaysInRegistry, Choosing, FirstAvailable
<1> QED  BY <1>1, Initially, StepTyped, RegistryStep, ChoiceStep, PTL DEF Spec

(* Of the backends of a tool, in the order of the catalog, the one that is *)
(* run is the first that is there; all before it are missing.              *)
THEOREM BestBackend == Spec => []FirstAvailable
BY Started, PTL

-----------------------------------------------------------------------------
(* The refinement.                                                         *)

LEMMA TrailInit == Init => Trail!Init
BY DEF Init, Trail!Init

LEMMA TrailAnswer ==
  ASSUME TypeOK, NEW c \in Calls, pc[c] \in {"idle", "running"}, NEW x,
         Shown(x) \in Identifiers, NEW o \in Outcomes, Conclude(c, x, o)
  PROVE  Trail!Answer(c)
<1>1. pc' = [pc EXCEPT ![c] = "answered"] /\ answer' = [answer EXCEPT ![c] = o]
  BY DEF Conclude
<1>2. log' = Append(log, [call |-> c, target |-> Shown(x), outcome |-> o])
  BY DEF Conclude, Event
<1>3. Trail!Closes(c, "answered")
  BY <1>1 DEF Trail!Closes, TypeOK
<1> QED  BY <1>1, <1>2, <1>3 DEF Trail!Answer

LEMMA TrailStep ==
  ASSUME TypeOK, Begun, [Next]_vars
  PROVE  [Trail!Next]_(Trail!vars)
<1>1. ASSUME NEW c \in Calls, NEW q \in Asks[c], Receive(c, q.tool, q.target)
      PROVE  [Trail!Next]_(Trail!vars)
  <2>1. /\ q \in Requests /\ pc[c] = "idle"
        /\ AnswersAtOnce(c, q) \/ Refuses(c, q) \/ Begins(c, q)
    BY <1>1, AskedIsRequest, ReceiveEffects DEF Received
  <2>2. CASE AnswersAtOnce(c, q)
    BY <2>1, <2>2, ShownType, TrailAnswer DEF AnswersAtOnce, Trail!Next
  <2>3. CASE Refuses(c, q)
    <3>1. Trail!Closes(c, "answered")
      BY <2>1, <2>3 DEF Refuses, Trail!Closes, TypeOK
    <3> QED  BY <2>3, <3>1 DEF Refuses, Trail!Refuse, Trail!Next
  <2>4. CASE Begins(c, q)
    BY <2>1, <2>4 DEF Begins, Trail!vars, TypeOK
  <2> QED  BY <2>1, <2>2, <2>3, <2>4
<1>2. ASSUME NEW c \in Calls, Serve(c)
      PROVE  [Trail!Next]_(Trail!vars)
  <2>1. pc[c] = "running" /\ (Concludes(c) \/ StaysOpen)
    BY <1>2, ServeEffects DEF Effect
  <2>2. CASE Concludes(c)
    BY <2>1, <2>2, TargetShown, TrailAnswer DEF Concludes, Trail!Next
  <2>3. CASE StaysOpen
    BY <2>3 DEF StaysOpen, Trail!vars
  <2> QED  BY <2>1, <2>2, <2>3
<1>3. ASSUME NEW c \in Calls, Cancel(c)
      PROVE  [Trail!Next]_(Trail!vars)
  <2>1. Trail!Closes(c, "cancelled")
    BY <1>3 DEF Cancel, Trail!Closes, TypeOK
  <2> QED  BY <1>3, <2>1 DEF Cancel, Trail!Cancel, Trail!Next
<1>4. CASE UNCHANGED vars
  BY <1>4 DEF vars, Trail!vars
<1> QED  BY <1>1, <1>2, <1>3, <1>4 DEF Next

(* What clients and the log see of any number of calls is what AuditTrail  *)
(* promises.                                                               *)
THEOREM Implements == Spec => ImplementsAuditTrail
<1>1. Spec => [](TypeOK /\ Begun)
  BY Initially, StepTyped, PTL DEF Spec
<1> QED  BY <1>1, TrailInit, TrailStep, PTL DEF Spec, ImplementsAuditTrail, Trail!Spec
=============================================================================
