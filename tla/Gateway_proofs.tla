--------------------------- MODULE Gateway_proofs ---------------------------
(***************************************************************************)
(* Proofs of properties of Gateway, for every set of config.toml files and *)
(* of requests, and whatever the grammars of names are.                    *)
(***************************************************************************)
EXTENDS Gateway, SequenceLemmas, TLAPS

(* What load_config guarantees.                                            *)
HostSound(host) ==
  /\ host.transport \in {"local", "ssh"}
  /\ host.transport = "ssh" => host.ssh_alias \in Ids
  /\ host.tmux_user # None => host.transport = "local"
  /\ \A kind \in Kinds : DOMAIN host[kind] \subseteq Ids

Sound(c) ==
  /\ \A h \in DOMAIN c.hosts : h \in Ids /\ HostSound(c.hosts[h])
  /\ \A w \in DOMAIN c.workspaces :
       /\ w \in Ids
       /\ c.workspaces[w].host_id \in DOMAIN c.hosts
       /\ c.workspaces[w].root \in SafePaths

LEMMA HostBecomesSound ==
  ASSUME NEW t, HostOk(t)
  PROVE  HostSound(HostConfig(t))
<1> DEFINE host == HostConfig(t)
<1>1. /\ "transport" \in DOMAIN t
      /\ t["transport"][2] \in {"local", "ssh"}
      /\ t["transport"][1] = "string"
  BY DEF HostOk, Matches, IsA, Get, Absent
<1>2. host.transport = t["transport"][2]
  BY <1>1 DEF HostConfig, Text
<1>3. ASSUME host.transport = "ssh" PROVE host.ssh_alias \in Ids
  <2>1. Matches(Get(t, "ssh_alias"), Ids)
    BY <1>1, <1>2, <1>3 DEF HostOk, AliasOk, Matches, IsA, Get
  <2>2. "ssh_alias" \in DOMAIN t /\ t["ssh_alias"][2] \in Ids
    BY <2>1 DEF Matches, IsA, Get, Absent
  <2> QED BY <2>2 DEF HostConfig, Text
<1>4. ASSUME host.tmux_user # None PROVE host.transport = "local"
  <2>1. "tmux_user" \in DOMAIN t
    BY <1>4 DEF HostConfig, Text
  <2>2. t["transport"][2] = "local"
    BY <1>1, <2>1 DEF HostOk, TmuxUserOk, Matches, IsA, Get
  <2> QED BY <1>2, <2>2
<1>5. ASSUME NEW kind \in Kinds PROVE DOMAIN host[kind] \subseteq Ids
  <2>1. DOMAIN Section(t, kind)[2] \subseteq Ids
    BY DEF HostOk, ResourcesOk, IdTable
  <2>2. DOMAIN host[kind] = DOMAIN Section(t, kind)[2]
    BY DEF HostConfig, Kinds, Services, Repos, Containers, Processes
  <2> QED BY <2>1, <2>2
<1> QED BY <1>1, <1>2, <1>3, <1>4, <1>5 DEF HostSound

LEMMA LoadedIsSound ==
  ASSUME NEW f, Loads(f)
  PROVE  Sound(AppConfig(f))
<1> DEFINE c == AppConfig(f)
           hosts == f[2]["hosts"][2]
           workspaces == Section(f[2], "workspaces")[2]
<1>1. /\ DOMAIN c.hosts = DOMAIN hosts
      /\ DOMAIN c.workspaces = DOMAIN workspaces
      /\ \A h \in DOMAIN hosts : c.hosts[h] = HostConfig(hosts[h][2])
      /\ \A w \in DOMAIN workspaces : c.workspaces[w] = WorkspaceConfig(workspaces[w][2])
  BY DEF AppConfig
<1>2. ASSUME NEW h \in DOMAIN hosts PROVE h \in Ids /\ HostSound(c.hosts[h])
  <2>1. h \in Ids /\ HostOk(hosts[h][2])
    BY DEF Loads, IdTable
  <2> QED BY <1>1, <2>1, HostBecomesSound
<1>3. ASSUME NEW w \in DOMAIN workspaces
      PROVE  /\ w \in Ids
             /\ c.workspaces[w].host_id \in DOMAIN hosts
             /\ c.workspaces[w].root \in SafePaths
  <2> DEFINE t == workspaces[w][2]
  <2>1. w \in Ids /\ WorkspaceOk(t, DOMAIN hosts)
    BY DEF Loads, IdTable
  <2>2. "host" \in DOMAIN t /\ t["host"][2] \in DOMAIN hosts
    BY <2>1 DEF WorkspaceOk, HostKnown, Matches, IsA, Get, Absent
  <2>3. "root" \in DOMAIN t /\ t["root"][2] \in SafePaths
    BY <2>1 DEF WorkspaceOk, Matches, IsA, Get, Absent
  <2>4. WorkspaceConfig(t).host_id = t["host"][2] /\ WorkspaceConfig(t).root = t["root"][2]
    BY <2>2, <2>3 DEF WorkspaceConfig, Text
  <2> QED BY <1>1, <2>1, <2>2, <2>3, <2>4
<1> HIDE DEF hosts, workspaces
<1> QED BY <1>1, <1>2, <1>3 DEF Sound

-----------------------------------------------------------------------------
(* Where it is relied on.                                                  *)

LEMMA TransportsExist ==
  ASSUME NEW host, HostSound(host), None \notin Ids
  PROVE  /\ TransportOf(host)[1] \in {"local", "ssh"}
         /\ TransportOf(host)[1] = host.transport
         /\ TmuxTransportOf(host)[1] \in {"local", "ssh", "sudo"}
         /\ host.tmux_user = None => TmuxTransportOf(host)[1] # "sudo"
         /\ host.tmux_user # None => TmuxTransportOf(host) = <<"sudo", host.tmux_user>>
BY DEF HostSound, TransportOf, TmuxTransportOf

LEMMA ListedIsFound ==
  ASSUME NEW c, Sound(c), NEW item \in ListedHosts(c) \cup ListedWorkspaces(c)
  PROVE  Resolves(c, item)
<1>1. ASSUME NEW h \in DOMAIN c.hosts, item = <<"host", h>> PROVE Resolves(c, item)
  BY <1>1 DEF Resolves, Found, Sound
<1>2. ASSUME NEW h \in DOMAIN c.hosts, NEW kind \in Kinds, NEW x \in DOMAIN c.hosts[h][kind],
             item = <<kind, h, x>>
      PROVE  Resolves(c, item)
  <2>1. h \in Ids /\ x \in Ids
    BY DEF Sound, HostSound
  <2>2. item[1] \notin {"host", "workspace"}
    BY <1>2 DEF Kinds
  <2> QED BY <1>2, <2>1, <2>2 DEF Resolves, Found
<1>3. ASSUME NEW w \in DOMAIN c.workspaces, item = <<"workspace", w, c.workspaces[w].host_id>>
      PROVE  Resolves(c, item)
  BY <1>3 DEF Resolves, Found, Sound
<1> QED BY <1>1, <1>2, <1>3 DEF ListedHosts, ListedWorkspaces

-----------------------------------------------------------------------------
(* The two translations of a tmux command.                                 *)

LEMMA SudoPassesOn ==
  ASSUME NEW user, NEW S, NEW args \in Seq(S)
  PROVE  SudoRuns(SudoArgv(user, args)) = [user |-> user, args |-> args]
<1> DEFINE helper == "/usr/local/libexec/remote-observer-tmux-read"
           start == <<"/usr/bin/sudo", "-n", "-u", user, "--", helper>>
           T == S \cup {"/usr/bin/sudo", "-n", "-u", user, "--", helper}
           argv == start \o args
<1>1. start \in Seq(T) /\ Len(start) = 6 /\ start[4] = user /\ args \in Seq(T)
  OBVIOUS
<1> HIDE DEF start, T
<1>2. /\ argv \in Seq(T)
      /\ Len(argv) = 6 + Len(args)
      /\ argv[4] = user
      /\ \A i \in 1..Len(args) : argv[6 + i] = args[i]
  <2>1. /\ argv \in Seq(T)
        /\ Len(argv) = Len(start) + Len(args)
        /\ \A i \in 1..Len(start) + Len(args) :
             argv[i] = IF i <= Len(start) THEN start[i] ELSE args[i - Len(start)]
    BY <1>1, ConcatProperties
  <2> HIDE DEF argv
  <2>2. Len(args) \in Nat
    BY <1>1
  <2> QED BY <1>1, <2>1, <2>2
<1>3. SubSeq(argv, 7, Len(argv)) = args
  <2> DEFINE rest == SubSeq(argv, 7, Len(argv))
  <2>1. rest \in Seq(T) /\ Len(rest) = Len(args)
    BY <1>1, <1>2
  <2>2. \A i \in 1..Len(args) : rest[i] = args[i]
    BY <1>1, <1>2
  <2> QED BY <1>1, <2>1, <2>2
<1>4. SudoArgv(user, args) = argv
  BY DEF SudoArgv, start
<1> QED BY <1>2, <1>3, <1>4 DEF SudoRuns

TmuxCallsOf ==
  [tool : {"tmux_sessions", "tmux_windows", "tmux_panes", "tmux_capture"},
   session : STRING, window : STRING \cup {NoWindow}, pane : STRING, lines : Int]

HelperWords(call) ==
  {"sessions", "windows", "panes", "capture", call.session, PaneTarget(call), call.pane,
   Decimal(Bounded(call.lines))}

(* What is built from the arguments of the helper is what the tool built,  *)
(* but for the path of tmux.                                               *)
LEMMA RoundTrip ==
  ASSUME NEW call \in TmuxCallsOf, Accepted(call)
  PROVE  /\ HelperArgs(ToolArgv(call)) # Unsupported
         /\ HelperArgs(ToolArgv(call)) \in Seq(HelperWords(call))
         /\ Built(HelperArgs(ToolArgv(call))) = <<"/usr/bin/tmux">> \o Tail(ToolArgv(call))
<1>1. CASE call.tool = "tmux_sessions"
  <2> DEFINE argv == <<"tmux", "list-sessions", "-F", SessionFormat>>
  <2>1. ToolArgv(call) = argv
    BY <1>1 DEF ToolArgv
  <2>2. HelperArgs(argv) = <<"sessions">>
    BY DEF HelperArgs
  <2>3. Tail(argv) = <<"list-sessions", "-F", SessionFormat>>
    OBVIOUS
  <2>4. Built(<<"sessions">>) = <<"/usr/bin/tmux">> \o Tail(argv)
    BY <2>3 DEF Built
  <2>5. <<"sessions">> \in Seq(HelperWords(call))
    BY DEF HelperWords
  <2>6. HelperArgs(ToolArgv(call)) \in Seq(HelperWords(call))
    BY <2>1, <2>2, <2>5, Zenon
  <2>7. /\ HelperArgs(ToolArgv(call)) # Unsupported
        /\ Built(HelperArgs(ToolArgv(call))) = <<"/usr/bin/tmux">> \o Tail(ToolArgv(call))
    BY <2>1, <2>2, <2>4 DEF Unsupported
  <2> QED BY <2>6, <2>7
<1>2. CASE call.tool = "tmux_windows"
  <2> DEFINE s == call.session
             argv == <<"tmux", "list-windows", "-t", s, "-F", WindowFormat>>
  <2>1. ToolArgv(call) = argv /\ s \in Sessions
    BY <1>2 DEF ToolArgv, Accepted
  <2>2. HelperArgs(argv) = <<"windows", s>>
    BY <2>1 DEF HelperArgs
  <2>3. Tail(argv) = <<"list-windows", "-t", s, "-F", WindowFormat>>
    OBVIOUS
  <2>4. Built(<<"windows", s>>) = <<"/usr/bin/tmux">> \o Tail(argv)
    BY <2>1, <2>3 DEF Built
  <2>5. <<"windows", s>> \in Seq(HelperWords(call))
    BY DEF HelperWords
  <2>6. HelperArgs(ToolArgv(call)) \in Seq(HelperWords(call))
    BY <2>1, <2>2, <2>5, Zenon
  <2>7. /\ HelperArgs(ToolArgv(call)) # Unsupported
        /\ Built(HelperArgs(ToolArgv(call))) = <<"/usr/bin/tmux">> \o Tail(ToolArgv(call))
    BY <2>1, <2>2, <2>4 DEF Unsupported
  <2> QED BY <2>6, <2>7
<1>3. CASE call.tool = "tmux_panes"
  <2> DEFINE s == PaneTarget(call)
             argv == <<"tmux", "list-panes", "-t", s, "-F", PaneFormat>>
  <2>1. ToolArgv(call) = argv /\ s \in Sessions \cup Windows
    BY <1>3 DEF ToolArgv, Accepted, PaneTarget
  <2>2. HelperArgs(argv) = <<"panes", s>>
    BY <2>1 DEF HelperArgs
  <2>3. Tail(argv) = <<"list-panes", "-t", s, "-F", PaneFormat>>
    OBVIOUS
  <2>4. Built(<<"panes", s>>) = <<"/usr/bin/tmux">> \o Tail(argv)
    BY <2>1, <2>3 DEF Built, PanesOf
  <2>5. <<"panes", s>> \in Seq(HelperWords(call))
    BY DEF HelperWords
  <2>6. HelperArgs(ToolArgv(call)) \in Seq(HelperWords(call))
    BY <2>1, <2>2, <2>5, Zenon
  <2>7. /\ HelperArgs(ToolArgv(call)) # Unsupported
        /\ Built(HelperArgs(ToolArgv(call))) = <<"/usr/bin/tmux">> \o Tail(ToolArgv(call))
    BY <2>1, <2>2, <2>4 DEF Unsupported
  <2> QED BY <2>6, <2>7
<1>4. CASE call.tool = "tmux_capture"
  <2> DEFINE p == call.pane
             n == Bounded(call.lines)
             argv == <<"tmux", "capture-pane", "-p", "-t", p, "-S", Minus(n)>>
  <2>1. ToolArgv(call) = argv /\ p \in Panes /\ n \in 1..MaxLines
    BY <1>4 DEF ToolArgv, Accepted, Bounded, MaxLines, TmuxCallsOf
  <2> HIDE DEF n
  <2>2. HelperArgs(argv) = <<"capture", p, Decimal(n)>>
    <3>1. Captures(argv) /\ argv[7][2] = n
      BY <2>1 DEF Captures, MaxLines, Minus
    <3>2. Len(argv) = 7 /\ argv[5] = p
      OBVIOUS
    <3> QED BY <2>1, <3>1, <3>2 DEF HelperArgs
  <2>3. Tail(argv) = <<"capture-pane", "-p", "-t", p, "-S", Minus(n)>>
    OBVIOUS
  <2>4. Built(<<"capture", p, Decimal(n)>>) = <<"/usr/bin/tmux">> \o Tail(argv)
    <3>1. Decimal(n) \in LinesRead /\ Decimal(n)[2] = n
      BY <2>1 DEF LinesRead, Decimal
    <3> QED BY <2>1, <2>3, <3>1 DEF Built
  <2>5. <<"capture", p, Decimal(n)>> \in Seq(HelperWords(call))
    BY DEF HelperWords, n
  <2>6. HelperArgs(ToolArgv(call)) \in Seq(HelperWords(call))
    BY <2>1, <2>2, <2>5, Zenon
  <2>7. /\ HelperArgs(ToolArgv(call)) # Unsupported
        /\ Built(HelperArgs(ToolArgv(call))) = <<"/usr/bin/tmux">> \o Tail(ToolArgv(call))
    BY <2>1, <2>2, <2>4 DEF Unsupported
  <2> QED BY <2>6, <2>7
<1> QED BY <1>1, <1>2, <1>3, <1>4 DEF TmuxCallsOf

-----------------------------------------------------------------------------
(* The shell of an ssh target reads back what was written for it.          *)

LEMMA JoinReadsBack ==
  ASSUME NEW S, NEW argv \in Seq(S)
  PROVE  /\ Read(Join(argv)) = argv
         /\ Join(argv) \in Seq({"bare", "quoted"} \X S)
         /\ Len(Join(argv)) = Len(argv)
         /\ \A i \in 1..Len(argv) : Join(argv)[i] = Quote(argv[i])
<1>1. \A w \in S : Quote(w) \in {"bare", "quoted"} \X S /\ Quote(w)[2] = w
  BY DEF Quote, Bare, Quoted
<1>2. /\ DOMAIN argv = 1..Len(argv)
      /\ Len(argv) \in Nat
      /\ \A i \in 1..Len(argv) : argv[i] \in S
  OBVIOUS
<1>3. Join(argv) = [i \in 1..Len(argv) |-> Quote(argv[i])]
  BY <1>2 DEF Join
<1>4. Join(argv) \in [1..Len(argv) -> {"bare", "quoted"} \X S]
  BY <1>1, <1>2, <1>3
<1>5. Read(Join(argv)) = [i \in 1..Len(argv) |-> argv[i]]
  BY <1>1, <1>2, <1>3 DEF Read
<1> QED BY <1>2, <1>3, <1>4, <1>5

LEMMA ShellInPlace ==
  ASSUME NEW S, NEW argv \in Seq(S), argv # <<>>
  PROVE  \/ ShellRuns(Join(argv)) = [cwd |-> None, argv |-> argv]
         \/ argv[1] \in ShellOwn
<1> DEFINE line == Join(argv)
<1>1. /\ Len(line) = Len(argv) /\ Len(argv) \in Nat \ {0}
      /\ \A i \in 1..Len(argv) : line[i] = Quote(argv[i])
      /\ Read(line) = argv
  <2>1. Len(argv) \in Nat \ {0}
    OBVIOUS
  <2>2. /\ Len(line) = Len(argv)
        /\ \A i \in 1..Len(argv) : line[i] = Quote(argv[i])
        /\ Read(line) = argv
    BY JoinReadsBack
  <2> QED BY <2>1, <2>2
<1> HIDE DEF line
<1>2. ~ (Len(line) >= 6 /\ line[4] = Bare("&&"))
  <2> SUFFICES ASSUME Len(line) >= 6, line[4] = Bare("&&") PROVE FALSE
    OBVIOUS
  <2>1. Quote(argv[4]) = Bare("&&")
    BY <1>1
  <2>2. argv[4] = "&&" /\ argv[4] \in BareWords
    BY <2>1 DEF Quote, Bare, Quoted
  <2> QED BY <2>2, WordAssumption
<1>3. line[1][1] = "bare" /\ line[1][2] \in ShellOwn => argv[1] \in ShellOwn
  <2>1. line[1] = Quote(argv[1])
    BY <1>1
  <2> QED BY <2>1 DEF Quote, Bare, Quoted
<1> QED BY <1>1, <1>2, <1>3 DEF ShellRuns, line

LEMMA ShellInWorkspace ==
  ASSUME NEW S, NEW argv \in Seq(S), argv # <<>>, NEW cwd, cwd # None
  PROVE  \/ ShellRuns(RemoteLine(argv, cwd)) = [cwd |-> cwd, argv |-> argv]
         \/ argv[1] \in ExecOptions
<1> DEFINE start == <<Bare("cd"), Bare("--"), Quoted(cwd), Bare("&&"), Bare("exec")>>
           rest == Join(argv)
           T == {Bare("cd"), Bare("--"), Quoted(cwd), Bare("&&"), Bare("exec")}
                  \cup ({"bare", "quoted"} \X S)
           line == start \o rest
<1>1. RemoteLine(argv, cwd) = line
  BY DEF RemoteLine
<1>2. rest \in Seq(T) /\ Len(rest) \in Nat \ {0} /\ Read(rest) = argv
  <2>1. rest \in Seq({"bare", "quoted"} \X S) /\ Len(rest) = Len(argv) /\ Read(rest) = argv
    BY JoinReadsBack
  <2> HIDE DEF rest
  <2> QED BY <2>1
<1>3. /\ start \in Seq(T) /\ Len(start) = 5
      /\ start[1] = Bare("cd") /\ start[2] = Bare("--") /\ start[3] = Quoted(cwd)
      /\ start[4] = Bare("&&") /\ start[5] = Bare("exec")
  OBVIOUS
<1> HIDE DEF start, T, rest
<1>4. /\ line \in Seq(T)
      /\ Len(line) = Len(start) + Len(rest)
      /\ \A i \in 1..Len(start) + Len(rest) :
           line[i] = IF i <= Len(start) THEN start[i] ELSE rest[i - Len(start)]
  BY <1>2, <1>3, ConcatProperties
<1> HIDE DEF line
<1>5. /\ Len(line) >= 6
      /\ line[1] = Bare("cd") /\ line[2] = Bare("--") /\ line[3] = Quoted(cwd)
      /\ line[4] = Bare("&&") /\ line[5] = Bare("exec")
      /\ \A i \in 1..Len(rest) : line[5 + i] = rest[i]
  <2>1. Len(line) = 5 + Len(rest)
    BY <1>3, <1>4
  <2>2. \A i \in 1..5 : line[i] = start[i]
    BY <1>2, <1>3, <1>4
  <2>3. \A i \in 1..Len(rest) : line[5 + i] = rest[i]
    <3> TAKE i \in 1..Len(rest)
    <3>1. 5 + i \in 1..Len(start) + Len(rest) /\ ~(5 + i <= Len(start)) /\ 5 + i - Len(start) = i
      BY <1>2, <1>3
    <3> QED BY <1>4, <3>1
  <2> QED BY <1>2, <1>3, <2>1, <2>2, <2>3
<1>6. SubSeq(line, 6, Len(line)) = rest
  <2> DEFINE last == SubSeq(line, 6, Len(line))
  <2>1. last \in Seq(T) /\ Len(last) = Len(rest)
    BY <1>2, <1>3, <1>4
  <2>2. \A i \in 1..Len(rest) : last[i] = rest[i]
    BY <1>2, <1>3, <1>4, <1>5
  <2> QED BY <1>2, <2>1, <2>2
<1>7. Quoted(cwd)[2] = cwd
  BY DEF Quoted
<1>8. line[6][2] = argv[1]
  <2>1. line[6] = rest[1]
    BY <1>2, <1>5
  <2>2. Read(rest)[1] = rest[1][2]
    BY <1>2 DEF Read
  <2> QED BY <1>2, <2>1, <2>2
<1> QED BY <1>1, <1>2, <1>5, <1>6, <1>7, <1>8 DEF ShellRuns

-----------------------------------------------------------------------------
(* The invariants of the server.                                           *)

(* The steps that answer nothing, and those that answer something else     *)
(* than is asked about.                                                    *)
LEMMA QuietSteps ==
  ASSUME NEW to,
         \/ TakeNote \/ Edit \/ Start \/ Stop \/ ListHosts \/ ListWorkspaces
  PROVE  ~Answered(to)'
BY DEF TakeNote, Edit, Start, Stop, ListHosts, ListWorkspaces, Serves, Idle, Answered

LEMMA FindSteps ==
  ASSUME NEW to, to # "find", NEW w, FindFails(w) \/ Finds(w)
  PROVE  ~Answered(to)'
<1>1. CASE FindFails(w)
  BY <1>1 DEF FindFails, Answers, Answered
<1>2. CASE Finds(w)
  BY <1>2 DEF Finds, Find, Answered
<1> QED BY <1>1, <1>2

LEMMA FindKeeps ==
  ASSUME NEW w, FindFails(w) \/ Finds(w)
  PROVE  UNCHANGED <<file, config, known>> /\ config # Down
BY DEF FindFails, Finds, Find, Answers, Serves

KnownInv == known \subseteq IF config = Down THEN {} ELSE ListedHosts(config) \cup ListedWorkspaces(config)

LEMMA LoadedSound == \A c \in Loaded : Sound(c)
BY LoadedIsSound DEF Loaded

LEMMA InUseSound ==
  ASSUME TypeOK, config # Down
  PROVE  Sound(InUse)
BY LoadedSound DEF TypeOK, InUse

(* The read of a file is of a window that is neither empty nor too long.   *)
LEMMA Window ==
  ASSUME NEW lines \in AskedLines
  PROVE  /\ First(lines[1]) \in Nat \ {0}
         /\ WindowEnd(lines[1], lines[2]) \in First(lines[1]) .. First(lines[1]) + MaxWindow - 1
<1>1. lines[1] \in Int /\ lines[2] \in Int \cup {NoEnd}
  BY AskAssumption
<1> QED BY <1>1, AskAssumption DEF First, WindowEnd, MaxWindow

(* TypeOK holds: the server runs with a file that was there and loads, and *)
(* reads are windows.                                                      *)
THEOREM TypeCorrect == Spec => []TypeOK
<1>1. Init => TypeOK
  BY DEF Init, TypeOK, Answered
<1>2. TypeOK /\ [Next]_vars => TypeOK'
  <2> SUFFICES ASSUME TypeOK, [Next]_vars PROVE TypeOK'
    OBVIOUS
  <2> DEFINE Rest == /\ file' \in Files
                     /\ config' \in {Down} \cup Loaded
                     /\ config' = Down => known' = {} /\ found' = {}
  <2>1. CASE UNCHANGED vars
    BY <2>1 DEF vars, TypeOK, Answered
  <2>2. CASE TakeNote \/ Edit \/ Start \/ Stop \/ ListHosts \/ ListWorkspaces
    <3>1. ~Answered("read")'
      BY <2>2, QuietSteps
    <3>2. Rest
      BY <2>2 DEF TakeNote, Edit, Start, Stop, ListHosts, ListWorkspaces, Serves, TypeOK, Loaded
    <3> QED BY <3>1, <3>2 DEF TypeOK
  <2>3. CASE StartFails
    <3>1. ~Answered("read")'
      BY <2>3 DEF StartFails, Answered
    <3> QED BY <2>3, <3>1 DEF StartFails, TypeOK
  <2>4. ASSUME NEW h \in AskedHosts, Observe(h) PROVE TypeOK'
    <3>1. ~Answered("read")'
      BY <2>4 DEF Observe, Answers, Answered
    <3> QED BY <2>4, <3>1 DEF Observe, Answers, Serves, TypeOK
  <2>5. ASSUME NEW h \in AskedHosts, NEW kind \in Kinds, NEW x \in AskedResources,
               ObserveResource(h, kind, x)
        PROVE  TypeOK'
    <3>1. ~Answered("read")'
      BY <2>5 DEF ObserveResource, Answers, Answered
    <3> QED BY <2>5, <3>1 DEF ObserveResource, Answers, Serves, TypeOK
  <2>6. ASSUME NEW h \in AskedHosts, NEW call \in TmuxCalls, Tmux(h, call) PROVE TypeOK'
    <3>1. ~Answered("read")'
      BY <2>6 DEF Tmux, Answers, Answered
    <3> QED BY <2>6, <3>1 DEF Tmux, Answers, Serves, TypeOK
  <2>7. ASSUME NEW w \in AskedWorkspaces, FindFails(w) \/ Finds(w)
        PROVE  TypeOK'
    <3>1. ~Answered("read")'
      BY <2>7, FindSteps
    <3> QED BY <2>7, <3>1, FindKeeps DEF TypeOK
  <2>8. ASSUME NEW w \in AskedWorkspaces, NEW p \in AskedPaths, NEW lines \in AskedLines,
               ReadFile(w, p, lines)
        PROVE  TypeOK'
    <3> DEFINE answer == ReadAnswer(w, p, lines[1], lines[2])
    <3>1. reply' = <<<<"read", w, p>>, answer>> /\ Rest
      BY <2>8 DEF ReadFile, Answers, Serves, TypeOK
    <3>2. answer[1] = "runs" => /\ answer[2].first = First(lines[1])
                                /\ answer[2].last = WindowEnd(lines[1], lines[2])
      BY DEF ReadAnswer
    <3> HIDE DEF answer
    <3>3. reply'[2] = answer
      BY <3>1
    <3>4. Answered("read")' /\ reply'[2][1] = "runs" =>
            /\ reply'[2][2].first \in Nat \ {0}
            /\ reply'[2][2].last \in reply'[2][2].first .. reply'[2][2].first + MaxWindow - 1
      BY <3>2, <3>3, Window
    <3> QED BY <3>1, <3>4 DEF TypeOK
  <2>9. ASSUME NEW i \in AskedIds, NEW d \in Requests, Execute(i, d) PROVE TypeOK'
    <3>1. ~Answered("read")'
      BY <2>9 DEF Execute, Answered
    <3> QED BY <2>9, <3>1 DEF Execute, TypeOK
  <2> QED BY <2>1, <2>2, <2>3, <2>4, <2>5, <2>6, <2>7, <2>8, <2>9 DEF Next
<1> QED BY <1>1, <1>2, PTL DEF Spec

-----------------------------------------------------------------------------
(* Listings.                                                               *)

LEMMA KnownIsListed ==
  ASSUME TypeOK, KnownInv, [Next]_vars
  PROVE  KnownInv'
<1>1. CASE Start
  BY <1>1 DEF Start, KnownInv
<1>2. CASE Stop
  BY <1>2 DEF Stop, KnownInv
<1>3. CASE ListHosts \/ ListWorkspaces
  BY <1>3 DEF ListHosts, ListWorkspaces, Serves, InUse, KnownInv
<1>4. CASE UNCHANGED <<config, known>>
  BY <1>4 DEF KnownInv
<1>5. ASSUME NEW w, FindFails(w) \/ Finds(w) PROVE UNCHANGED <<config, known>>
  BY <1>5, FindKeeps
<1>6. Start \/ Stop \/ ListHosts \/ ListWorkspaces \/ UNCHANGED <<config, known>>
  BY <1>5 DEF Next, vars, TakeNote, Edit, StartFails, Observe, ObserveResource, Tmux,
              ReadFile, Answers, Serves, Execute
<1> QED BY <1>1, <1>2, <1>3, <1>4, <1>6

(* ListedResolves: whatever was listed is found until the server ends.     *)
THEOREM ListedStays == Spec => []ListedResolves
<1>1. Init => KnownInv
  BY DEF Init, KnownInv
<1>2. TypeOK /\ KnownInv /\ [Next]_vars => KnownInv'
  BY KnownIsListed
<1>3. TypeOK /\ KnownInv => ListedResolves
  <2> SUFFICES ASSUME TypeOK, KnownInv, NEW item \in known PROVE Resolves(InUse, item)
    BY DEF ListedResolves
  <2>1. config # Down
    BY DEF KnownInv
  <2>2. Sound(InUse) /\ item \in ListedHosts(InUse) \cup ListedWorkspaces(InUse)
    BY <2>1, InUseSound DEF KnownInv, InUse
  <2> QED BY <2>2, ListedIsFound
<1> QED BY <1>1, <1>2, <1>3, TypeCorrect, PTL DEF Spec

-----------------------------------------------------------------------------
(* Transports and tmux.                                                    *)

(* NeverMisconfigured: the defensive branches are never taken.             *)
THEOREM NoMisconfiguration == Spec => []NeverMisconfigured
<1>1. Init => NeverMisconfigured
  BY DEF Init, NeverMisconfigured, Answered
<1>2. TypeOK /\ NeverMisconfigured /\ [Next]_vars => NeverMisconfigured'
  <2> SUFFICES ASSUME TypeOK, NeverMisconfigured, [Next]_vars PROVE NeverMisconfigured'
    OBVIOUS
  <2> DEFINE Bad == {"invalid_configuration", "internal_error"}
             Silent == ~Answered("observe")' /\ ~Answered("tmux")'
  <2>1. CASE UNCHANGED vars
    BY <2>1 DEF vars, NeverMisconfigured, Answered
  <2>2. CASE TakeNote \/ Edit \/ Start \/ Stop \/ ListHosts \/ ListWorkspaces
    BY <2>2, QuietSteps DEF NeverMisconfigured
  <2>3. CASE StartFails
    <3>1. Silent
      BY <2>3 DEF StartFails, Answered
    <3> QED BY <3>1 DEF NeverMisconfigured
  <2>4. ASSUME NEW h \in AskedHosts, Observe(h) PROVE NeverMisconfigured'
    <3>1. reply'[2] = HostAnswer(h) /\ Sound(InUse)
      BY <2>4, InUseSound DEF Observe, Answers, Serves
    <3>2. HostAnswer(h)[1] \notin Bad
      BY <3>1, TransportsExist, NoneAssumption DEF HostAnswer, Found, Sound
    <3> QED BY <3>1, <3>2 DEF NeverMisconfigured
  <2>5. ASSUME NEW h \in AskedHosts, NEW kind \in Kinds, NEW x \in AskedResources,
               ObserveResource(h, kind, x)
        PROVE  NeverMisconfigured'
    <3>1. reply'[2] = ResourceAnswer(h, kind, x) /\ Sound(InUse)
      BY <2>5, InUseSound DEF ObserveResource, Answers, Serves
    <3>2. ResourceAnswer(h, kind, x)[1] \notin Bad
      BY <3>1, TransportsExist, NoneAssumption DEF ResourceAnswer, Found, Sound
    <3> QED BY <3>1, <3>2 DEF NeverMisconfigured
  <2>6. ASSUME NEW h \in AskedHosts, NEW call \in TmuxCalls, Tmux(h, call)
        PROVE  NeverMisconfigured'
    <3>1. reply'[2] = TmuxAnswer(h, call) /\ Sound(InUse)
      BY <2>6, InUseSound DEF Tmux, Answers, Serves
    <3>2. Found(InUse.hosts, h) =>
            TmuxTransportOf(InUse.hosts[h])[1] \in {"local", "ssh", "sudo"}
      BY <3>1, TransportsExist, NoneAssumption DEF Found, Sound
    <3>3. TmuxAnswer(h, call)[1] \notin Bad
      BY <3>2 DEF TmuxAnswer
    <3> QED BY <3>1, <3>3 DEF NeverMisconfigured
  <2>7. ASSUME NEW w \in AskedWorkspaces, FindFails(w) \/ Finds(w)
        PROVE  NeverMisconfigured'
    <3>1. Silent
      BY <2>7, FindSteps
    <3> QED BY <3>1 DEF NeverMisconfigured
  <2>8. ASSUME NEW w \in AskedWorkspaces, NEW p \in AskedPaths, NEW lines \in AskedLines,
               ReadFile(w, p, lines)
        PROVE  NeverMisconfigured'
    <3>1. Silent
      BY <2>8 DEF ReadFile, Answers, Answered
    <3> QED BY <3>1 DEF NeverMisconfigured
  <2>9. ASSUME NEW i \in AskedIds, NEW d \in Requests, Execute(i, d) PROVE NeverMisconfigured'
    <3>1. Silent
      BY <2>9 DEF Execute, Answered
    <3> QED BY <3>1 DEF NeverMisconfigured
  <2> QED BY <2>1, <2>2, <2>3, <2>4, <2>5, <2>6, <2>7, <2>8, <2>9 DEF Next
<1> QED BY <1>1, <1>2, TypeCorrect, PTL DEF Spec

(* What the helper is given and runs, for an accepted call.                *)
LEMMA HelperRuns ==
  ASSUME NEW call \in TmuxCallsOf, Accepted(call), NEW user
  PROVE  ThroughHelper(user, call) =
           [user |-> user, argv |-> <<"/usr/bin/tmux">> \o Tail(ToolArgv(call))]
<1> DEFINE args == HelperArgs(ToolArgv(call))
<1>1. SudoRuns(SudoArgv(user, args)) = [user |-> user, args |-> args]
  <2>1. args \in Seq(HelperWords(call))
    BY RoundTrip
  <2> HIDE DEF args
  <2> QED BY <2>1, SudoPassesOn
<1>2. args # Unsupported /\ Built(args) = <<"/usr/bin/tmux">> \o Tail(ToolArgv(call))
  BY RoundTrip
<1>3. ThroughHelper(user, call) = [user |-> user, argv |-> Built(args)]
  <2>1. /\ SudoRuns(SudoArgv(user, args)).user = user
        /\ SudoRuns(SudoArgv(user, args)).args = args
    BY <1>1
  <2> QED BY <1>2, <2>1 DEF ThroughHelper
<1> QED BY <1>2, <1>3

(* TmuxAgrees: another user's tmux is given the same command.              *)
THEOREM HelperAgrees == Spec => []TmuxAgrees
<1>1. Init => TmuxAgrees
  BY DEF Init, TmuxAgrees, Answered
<1>2. TypeOK /\ TmuxAgrees /\ [Next]_vars => TmuxAgrees'
  <2> SUFFICES ASSUME TypeOK, TmuxAgrees, [Next]_vars PROVE TmuxAgrees'
    OBVIOUS
  <2> DEFINE Silent == ~Answered("tmux")'
  <2>1. CASE UNCHANGED vars
    BY <2>1 DEF vars, TmuxAgrees, Answered, InUse
  <2>2. CASE TakeNote \/ Edit \/ Start \/ Stop \/ ListHosts \/ ListWorkspaces
    BY <2>2, QuietSteps DEF TmuxAgrees
  <2>3. CASE StartFails
    <3>1. Silent
      BY <2>3 DEF StartFails, Answered
    <3> QED BY <3>1 DEF TmuxAgrees
  <2>4. ASSUME NEW h \in AskedHosts, Observe(h) PROVE TmuxAgrees'
    <3>1. Silent
      BY <2>4 DEF Observe, Answers, Answered
    <3> QED BY <3>1 DEF TmuxAgrees
  <2>5. ASSUME NEW h \in AskedHosts, NEW kind \in Kinds, NEW x \in AskedResources,
               ObserveResource(h, kind, x)
        PROVE  TmuxAgrees'
    <3>1. Silent
      BY <2>5 DEF ObserveResource, Answers, Answered
    <3> QED BY <3>1 DEF TmuxAgrees
  <2>6. ASSUME NEW h \in AskedHosts, NEW call \in TmuxCalls, Tmux(h, call) PROVE TmuxAgrees'
    <3> DEFINE answer == TmuxAnswer(h, call)
               host == InUse.hosts[h]
    <3>1. /\ reply' = <<<<"tmux", h, call>>, answer>>
          /\ InUse' = InUse
          /\ Sound(InUse)
      BY <2>6, InUseSound DEF Tmux, Answers, Serves, InUse
    <3>2. ASSUME answer[1] \notin {"unknown_host", "invalid_tmux_target"}
          PROVE  answer = <<"runs", IF host.tmux_user = None
                                      THEN [user |-> None, argv |-> ToolArgv(call)]
                                      ELSE [user |-> host.tmux_user,
                                            argv |-> <<"/usr/bin/tmux">> \o Tail(ToolArgv(call))]>>
      <4>1. Found(InUse.hosts, h) /\ HostSound(host)
        BY <3>1, <3>2 DEF TmuxAnswer, Found, Sound
      <4> DEFINE transport == TmuxTransportOf(host)
      <4>2. /\ transport[1] \in {"local", "ssh", "sudo"}
            /\ host.tmux_user = None => transport[1] # "sudo"
            /\ host.tmux_user # None => transport = <<"sudo", host.tmux_user>>
        BY <4>1, TransportsExist, NoneAssumption
      <4>3. Accepted(call)
        BY <3>2, <4>1, <4>2 DEF TmuxAnswer
      <4>4. call \in TmuxCallsOf
        BY AskAssumption DEF TmuxCallsOf
      <4>5. CASE host.tmux_user = None
        BY <4>1, <4>2, <4>3, <4>5 DEF TmuxAnswer
      <4>6. CASE host.tmux_user # None
        <5>1. transport[1] = "sudo" /\ transport[2] = host.tmux_user
          BY <4>2, <4>6
        <5>2. answer = <<"runs", ThroughHelper(host.tmux_user, call)>>
          BY <4>1, <4>3, <5>1 DEF TmuxAnswer
        <5> QED BY <4>3, <4>4, <4>6, <5>2, HelperRuns
      <4> QED BY <4>5, <4>6
    <3> HIDE DEF answer
    <3> QED BY <3>1, <3>2 DEF TmuxAgrees
  <2>7. ASSUME NEW w \in AskedWorkspaces, FindFails(w) \/ Finds(w)
        PROVE  TmuxAgrees'
    <3>1. Silent
      BY <2>7, FindSteps
    <3> QED BY <3>1 DEF TmuxAgrees
  <2>8. ASSUME NEW w \in AskedWorkspaces, NEW p \in AskedPaths, NEW lines \in AskedLines,
               ReadFile(w, p, lines)
        PROVE  TmuxAgrees'
    <3>1. Silent
      BY <2>8 DEF ReadFile, Answers, Answered
    <3> QED BY <3>1 DEF TmuxAgrees
  <2>9. ASSUME NEW i \in AskedIds, NEW d \in Requests, Execute(i, d) PROVE TmuxAgrees'
    <3>1. Silent
      BY <2>9 DEF Execute, Answered
    <3> QED BY <3>1 DEF TmuxAgrees
  <2> QED BY <2>1, <2>2, <2>3, <2>4, <2>5, <2>6, <2>7, <2>8, <2>9 DEF Next
<1> QED BY <1>1, <1>2, TypeCorrect, PTL DEF Spec

-----------------------------------------------------------------------------
(* Executions.                                                             *)

(* What an accepted document asks for is what its request says, and that   *)
(* is a program with its arguments.                                        *)
LEMMA RequestIsWanted ==
  ASSUME NEW d, Accepts(d)
  PROVE  /\ Request(d).host = d[2]["target"][2]["host"][2]
         /\ Request(d).workspace = TextOf(d[2]["target"][2], "workspace")
         /\ RequestArgv(Request(d)) = Wanted(d)
         /\ Wanted(d) # <<>>
         /\ \E S : Wanted(d) \in Seq(S)
<1> DEFINE t == d[2]
           q == Request(d)
<1>1. /\ q.host = t["target"][2]["host"][2]
      /\ q.workspace = TextOf(t["target"][2], "workspace")
      /\ q.mode = t["mode"][2]
      /\ q.risk = t["risk"][2]
      /\ q.script = TextOf(t, "script")
      /\ q.argv = IF "argv" \in DOMAIN t
                    THEN [i \in DOMAIN t["argv"][2] |-> t["argv"][2][i][2]] ELSE <<>>
  BY DEF Request
<1>2. CommandOk(t) /\ t["mode"][2] \in {"argv", "shell"}
  BY DEF Accepts, DocumentOk, Matches
<1>3. CASE t["mode"][2] = "argv"
  <2> DEFINE argv == [i \in DOMAIN t["argv"][2] |-> t["argv"][2][i][2]]
  <2>1. ArgvOk(Get(t, "argv"))
    BY <1>2, <1>3 DEF CommandOk, Matches
  <2>2. "argv" \in DOMAIN t /\ Get(t, "argv") = t["argv"]
    BY <2>1 DEF ArgvOk, Get, Absent, IsA
  <2>3. PICK n : n \in 1..MaxItems /\ DOMAIN t["argv"][2] = 1..n
    BY <2>1, <2>2 DEF ArgvOk
  <2>4. \A i \in 1..n : t["argv"][2][i][2] \in Words
    BY <2>1, <2>2, <2>3 DEF ArgvOk, Matches
  <2>5. argv = [i \in 1..n |-> t["argv"][2][i][2]]
    BY <2>3
  <2>6. argv \in Seq(Words) /\ Len(argv) = n /\ n >= 1
    <3>1. n \in Nat /\ n >= 1
      BY <2>3 DEF MaxItems
    <3>2. argv \in [1..n -> Words]
      BY <2>4, <2>5
    <3> HIDE DEF argv
    <3>3. argv \in Seq(Words)
      BY <3>1, <3>2
    <3> QED BY <3>1, <3>2, <3>3
  <2>7. Wanted(d) = argv
    BY <1>3 DEF Wanted
  <2>8. RequestArgv(q) = argv
    BY <1>1, <1>3, <2>2 DEF RequestArgv
  <2> HIDE DEF argv
  <2>9. argv # <<>>
    BY <2>6
  <2> QED BY <1>1, <2>6, <2>7, <2>8, <2>9
<1>4. CASE t["mode"][2] = "shell"
  <2>1. t["risk"][2] = "R4" /\ Matches(Get(t, "script"), Scripts)
    BY <1>2, <1>4 DEF CommandOk, Matches
  <2>2. "script" \in DOMAIN t /\ Get(t, "script") = t["script"]
    BY <2>1 DEF Get, Absent, Matches, IsA
  <2>3. q.script = t["script"][2] /\ q.script # None
    BY <1>1, <2>1, <2>2, WordAssumption DEF TextOf, Matches
  <2> DEFINE script == t["script"][2]
             argv == <<"bash", "-lc", script>>
  <2>4. Wanted(d) = argv
    BY <1>4 DEF Wanted
  <2>5. RequestArgv(q) = argv
    BY <1>1, <1>4, <2>1, <2>3 DEF RequestArgv
  <2>6. argv # <<>> /\ argv \in Seq({"bash", "-lc", script})
    OBVIOUS
  <2> HIDE DEF argv
  <2>7. \E S : argv \in Seq(S)
    BY <2>6
  <2> QED BY <1>1, <2>4, <2>5, <2>6, <2>7
<1> QED BY <1>2, <1>3, <1>4

(* Nothing runs that the validator would refuse.                           *)
LEMMA OnlyValidatedRuns ==
  ASSUME NEW i, NEW d, ~Validated(i, d)
  PROVE  ExecuteAnswer(i, d)[1] # "runs"
<1>1. Refusal(d) # "runs"
  BY DEF Refusal
<1> QED BY <1>1 DEF ExecuteAnswer, Validated

(* What is validated runs as it was asked for, where it can be placed.     *)
LEMMA ValidatedRuns ==
  ASSUME NEW i, NEW d, Validated(i, d)
  PROVE  Delivers(d, ExecuteAnswer(i, d))
<1> DEFINE h == d[2]["target"][2]["host"][2]
           w == TextOf(d[2]["target"][2], "workspace")
           registry == AppConfig(file)
           host == registry.hosts[h]
           answer == ExecuteAnswer(i, d)
           argv == Wanted(d)
           cwd == IF w = None THEN None ELSE registry.workspaces[w].root
           q == Request(d)
<1>1. /\ i \in RequestIds /\ Accepts(d) /\ q.request_id = i
      /\ q.host = h /\ q.workspace = w
      /\ RequestArgv(q) = argv /\ argv # <<>>
  BY RequestIsWanted DEF Validated
<1>2. CASE ~Placed(h, w)
  <2>1. answer[1] # "runs"
    BY <1>1, <1>2 DEF ExecuteAnswer, Placed
  <2> QED BY <1>2, <2>1 DEF Delivers
<1>3. CASE Placed(h, w)
  <2>1. Loads(file) /\ Found(registry.hosts, h) /\ Sound(registry)
    BY <1>3, LoadedIsSound DEF Placed
  <2>2. HostSound(host)
    BY <2>1 DEF Sound, Found
  <2> DEFINE transport == TransportOf(host)
  <2>3. transport[1] = host.transport /\ host.transport \in {"local", "ssh"}
    BY <2>2, TransportsExist, NoneAssumption DEF HostSound
  <2>4. ~(host.transport = "ssh" /\ host.ssh_alias = None)
    BY <2>2, NoneAssumption DEF HostSound
  <2>5. answer = <<"runs", transport, Runs(transport[1], argv, cwd)>>
    BY <1>1, <1>3, <2>4 DEF ExecuteAnswer, Placed
  <2>6. \/ Runs(transport[1], argv, cwd) = [cwd |-> cwd, argv |-> argv]
        \/ /\ host.transport = "ssh"
           /\ argv[1] \in IF w = None THEN ShellOwn ELSE ExecOptions
    <3>1. CASE host.transport = "local"
      BY <2>3, <3>1 DEF Runs
    <3>2. PICK S : argv \in Seq(S)
      BY <1>1, RequestIsWanted
    <3>3. CASE host.transport = "ssh" /\ w = None
      <4>1. Runs(transport[1], argv, cwd) = ShellRuns(Join(argv)) /\ cwd = None
        BY <2>3, <3>3 DEF Runs, RemoteLine
      <4> HIDE DEF argv
      <4> QED BY <1>1, <3>2, <3>3, <4>1, ShellInPlace
    <3>4. CASE host.transport = "ssh" /\ w # None
      <4>1. Runs(transport[1], argv, cwd) = ShellRuns(RemoteLine(argv, cwd))
        BY <2>3, <3>4 DEF Runs
      <4>2. cwd # None
        BY <1>3, <2>1, <3>4, NoneAssumption DEF Placed, Found, Sound
      <4> HIDE DEF argv, cwd
      <4>3. ShellRuns(RemoteLine(argv, cwd)) = [cwd |-> cwd, argv |-> argv] \/ argv[1] \in ExecOptions
        BY <1>1, <3>2, <4>2, ShellInWorkspace
      <4> QED BY <3>4, <4>1, <4>3
    <3> QED BY <2>3, <3>1, <3>3, <3>4
  <2>7. answer[1] = "runs" /\ answer[2] = transport /\ answer[3] = Runs(transport[1], argv, cwd)
    BY <2>5
  <2> HIDE DEF answer, argv
  <2>8. Delivers(d, answer)
    BY <1>3, <2>6, <2>7 DEF Delivers, argv
  <2> QED BY <2>8 DEF answer
<1> QED BY <1>2, <1>3

(* RunsAsRequested: what runs is what was approved.                        *)
THEOREM RequestsRun == Spec => []RunsAsRequested
<1>1. Init => RunsAsRequested
  BY DEF Init, RunsAsRequested, Answered
<1>2. RunsAsRequested /\ [Next]_vars => RunsAsRequested'
  <2> SUFFICES ASSUME RunsAsRequested, [Next]_vars PROVE RunsAsRequested'
    OBVIOUS
  <2> DEFINE Silent == ~Answered("execute")'
  <2>1. CASE UNCHANGED vars
    BY <2>1 DEF vars, RunsAsRequested, Answered, Delivers, Placed
  <2>2. CASE TakeNote \/ Edit \/ Start \/ Stop \/ ListHosts \/ ListWorkspaces
    BY <2>2, QuietSteps DEF RunsAsRequested
  <2>3. CASE StartFails
    <3>1. Silent
      BY <2>3 DEF StartFails, Answered
    <3> QED BY <3>1 DEF RunsAsRequested
  <2>4. ASSUME NEW h \in AskedHosts, Observe(h) PROVE RunsAsRequested'
    <3>1. Silent
      BY <2>4 DEF Observe, Answers, Answered
    <3> QED BY <3>1 DEF RunsAsRequested
  <2>5. ASSUME NEW h \in AskedHosts, NEW kind \in Kinds, NEW x \in AskedResources,
               ObserveResource(h, kind, x)
        PROVE  RunsAsRequested'
    <3>1. Silent
      BY <2>5 DEF ObserveResource, Answers, Answered
    <3> QED BY <3>1 DEF RunsAsRequested
  <2>6. ASSUME NEW h \in AskedHosts, NEW call \in TmuxCalls, Tmux(h, call)
        PROVE  RunsAsRequested'
    <3>1. Silent
      BY <2>6 DEF Tmux, Answers, Answered
    <3> QED BY <3>1 DEF RunsAsRequested
  <2>7. ASSUME NEW w \in AskedWorkspaces, FindFails(w) \/ Finds(w)
        PROVE  RunsAsRequested'
    <3>1. Silent
      BY <2>7, FindSteps
    <3> QED BY <3>1 DEF RunsAsRequested
  <2>8. ASSUME NEW w \in AskedWorkspaces, NEW p \in AskedPaths, NEW lines \in AskedLines,
               ReadFile(w, p, lines)
        PROVE  RunsAsRequested'
    <3>1. Silent
      BY <2>8 DEF ReadFile, Answers, Answered
    <3> QED BY <3>1 DEF RunsAsRequested
  <2>9. ASSUME NEW i \in AskedIds, NEW d \in Requests, Execute(i, d) PROVE RunsAsRequested'
    <3> DEFINE answer == ExecuteAnswer(i, d)
    <3>1. reply' = <<<<"execute", i, d>>, answer>> /\ file' = file
      BY <2>9 DEF Execute
    <3>2. IF Validated(i, d) THEN Delivers(d, answer) ELSE answer[1] # "runs"
      BY OnlyValidatedRuns, ValidatedRuns
    <3> HIDE DEF answer
    <3>3. reply'[1][2] = i /\ reply'[1][3] = d /\ reply'[2] = answer
      BY <3>1
    <3> QED BY <3>1, <3>2, <3>3 DEF RunsAsRequested, Delivers, Placed
  <2> QED BY <2>1, <2>2, <2>3, <2>4, <2>5, <2>6, <2>7, <2>8, <2>9 DEF Next
<1> QED BY <1>1, <1>2, PTL DEF Spec

-----------------------------------------------------------------------------
(* Paths.                                                                  *)

Silent == {"", "."}
NameOf == [x \in Segments |-> IF x \in Silent THEN <<>> ELSE <<x>>]

LEMMA NameOfType == NameOf \in [Segments -> Seq(Segments)]
<1> SUFFICES ASSUME NEW x \in Segments
             PROVE  (IF x \in Silent THEN <<>> ELSE <<x>>) \in Seq(Segments)
  BY DEF NameOf
<1> QED  OBVIOUS

LEMMA NamedSpreads ==
  ASSUME NEW p \in Seq(Segments)
  PROVE  Named(p) = Spread(NameOf, p) /\ Named(p) \in Seq(Segments)
<1>1. NameOf \in [Segments -> Seq(Segments)]
  BY NameOfType
<1>2. \A i \in DOMAIN p : p[i] \in Segments
  BY LenProperties, ElementOfSeq
<1>3. \A i \in DOMAIN p : NameOf[p[i]] = IF p[i] \in {"", "."} THEN <<>> ELSE <<p[i]>>
  BY <1>2 DEF NameOf, Silent
<1>4. Named(p) = Spread(NameOf, p)
  BY <1>3 DEF Named, Spread
<1> QED  BY <1>1, <1>4, SpreadType

LEMMA WordsAreSegments == <<"">> \in Seq(Segments) /\ <<".">> \in Seq(Segments)
<1>1. "" \in Segments /\ "." \in Segments
  BY SegmentAssumption
<1>2. \A x \in Segments : <<x>> \in Seq(Segments)
  OBVIOUS
<1> QED  BY <1>1, <1>2

LEMMA NamedConcat ==
  ASSUME NEW p \in Seq(Segments), NEW q \in Seq(Segments)
  PROVE  Named(p \o q) = Named(p) \o Named(q)
<1>1. p \o q \in Seq(Segments)
  BY ConcatProperties
<1>2. Spread(NameOf, p \o q) = Spread(NameOf, p) \o Spread(NameOf, q)
  BY NameOfType, SpreadConcat
<1> QED  BY <1>1, <1>2, NamedSpreads

(* Only the silent segments are dropped.                                   *)
LEMMA NamedKeeps ==
  ASSUME NEW p \in Seq(Segments)
  PROVE  ToSet(Named(p)) = ToSet(p) \ Silent
<1>1. ToSet(Named(p)) = UNION {ToSet(NameOf[x]) : x \in ToSet(p)}
  <2>1. ToSet(Spread(NameOf, p)) = UNION {ToSet(NameOf[x]) : x \in ToSet(p)}
    BY NameOfType, ElementsOfSpread
  <2> QED  BY <2>1, NamedSpreads
<1>2. ASSUME NEW x \in ToSet(p)
      PROVE  ToSet(NameOf[x]) = IF x \in Silent THEN {} ELSE {x}
  <2>1. x \in Segments
    BY <1>2, ElementsType
  <2> QED  BY <2>1, ElementsOfEmpty, ElementsOfOne DEF NameOf
<1>3. ASSUME NEW y \in ToSet(Named(p)) PROVE y \in ToSet(p) \ Silent
  <2>1. PICK x \in ToSet(p) : y \in ToSet(NameOf[x])
    BY <1>1, <1>3
  <2> QED  BY <1>2, <2>1
<1>4. ASSUME NEW y \in ToSet(p) \ Silent PROVE y \in ToSet(Named(p))
  <2>1. y \in ToSet(NameOf[y])
    BY <1>2, <1>4
  <2> QED  BY <1>1, <1>4, <2>1
<1> QED  BY <1>3, <1>4

LEMMA NamedNothing ==
  ASSUME NEW p \in Seq(Segments), ToSet(p) \subseteq Silent
  PROVE  Named(p) = <<>>
<1>1. Named(p) \in Seq(Segments) /\ ToSet(Named(p)) = {}
  BY NamedSpreads, NamedKeeps
<1>2. ASSUME Named(p) # <<>> PROVE FALSE
  <2>1. Len(Named(p)) \in Nat \ {0} /\ DOMAIN Named(p) = 1..Len(Named(p))
    BY <1>1, <1>2, EmptySeq, LenProperties
  <2>2. 1 \in DOMAIN Named(p)
    BY <2>1
  <2> QED  BY <1>1, <2>2 DEF ToSet
<1> QED  BY <1>2

LEMMA NamedPlain ==
  ASSUME NEW p \in Seq(Segments), ToSet(p) \cap Silent = {}
  PROVE  Named(p) = p
<1>1. ASSUME NEW x \in ToSet(p) PROVE NameOf[x] = <<x>>
  <2>1. x \in Segments /\ x \notin Silent
    BY <1>1, ElementsType
  <2> QED  BY <2>1 DEF NameOf
<1>2. Spread(NameOf, p) = p
  BY <1>1, NameOfType, SpreadSame
<1> QED  BY <1>2, NamedSpreads

LEMMA NamedTwice ==
  ASSUME NEW p \in Seq(Segments)
  PROVE  Named(Named(p)) = Named(p)
<1>1. ToSet(Named(p)) \cap Silent = {}
  BY NamedKeeps
<1> QED  BY <1>1, NamedSpreads, NamedPlain

(* rstrip("/"): the root without the slashes at its end.                   *)
LastName(p, n) == p[n] # "" /\ \A i \in n + 1 .. Len(p) : p[i] = ""

LEMMA LastNameExists ==
  ASSUME NEW p \in Seq(Segments)
  PROVE  (\E i \in DOMAIN p : p[i] # "") => \E n \in DOMAIN p : LastName(p, n)
<1> DEFINE S == {q \in Seq(Segments) :
                   (\E i \in DOMAIN q : q[i] # "") => \E n \in DOMAIN q : LastName(q, n)}
<1>1. <<>> \in S
  <2>1. <<>> \in Seq(Segments) /\ DOMAIN <<>> = {}
    BY EmptySeq
  <2> QED  BY <2>1
<1>2. ASSUME NEW q \in Seq(Segments), NEW x \in Segments, q \in S PROVE Append(q, x) \in S
  <2>u. PICK u : u = Append(q, x)
    OBVIOUS
  <2>m. PICK m : m = Len(q)
    OBVIOUS
  <2>1. /\ u \in Seq(Segments) /\ m \in Nat /\ Len(u) = m + 1
        /\ DOMAIN q = 1..m /\ DOMAIN u = 1..(m + 1)
        /\ \A i \in 1..m : u[i] = q[i]
        /\ u[m + 1] = x
    BY <2>u, <2>m, AppendProperties, LenProperties
  <2>2. CASE x # ""
    <3>1. m + 1 \in DOMAIN u
      BY <2>1
    <3>2. \A i \in (m + 1) + 1 .. Len(u) : FALSE
      BY <2>1
    <3>3. LastName(u, m + 1)
      BY <2>1, <2>2, <3>2 DEF LastName
    <3> QED  BY <2>1, <2>u, <3>1, <3>3
  <2>3. CASE x = ""
    <3>1. SUFFICES ASSUME NEW i \in DOMAIN u, u[i] # ""
                   PROVE  \E n \in DOMAIN u : LastName(u, n)
      BY <2>1, <2>u
    <3>2. i \in 1..m /\ q[i] # ""
      <4>1. i \in 1..(m + 1) /\ i # m + 1
        BY <2>1, <2>3, <3>1
      <4>2. i \in 1..m
        BY <2>1, <4>1
      <4> QED  BY <2>1, <3>1, <4>2
    <3>3. PICK n \in 1..m : LastName(q, n)
      BY <1>2, <2>1, <3>2
    <3>4. u[n] # ""
      BY <2>1, <3>3 DEF LastName
    <3>5. ASSUME NEW k \in n + 1 .. m + 1 PROVE u[k] = ""
      <4>1. CASE k = m + 1
        BY <2>1, <2>3, <4>1
      <4>2. CASE k # m + 1
        <5>1. k \in n + 1 .. m /\ k \in 1..m
          BY <2>1, <4>2
        <5> QED  BY <2>1, <2>m, <3>3, <5>1 DEF LastName
      <4> QED  BY <4>1, <4>2
    <3>6. n \in DOMAIN u
      BY <2>1
    <3>7. LastName(u, n)
      BY <2>1, <3>4, <3>5 DEF LastName
    <3> QED  BY <3>6, <3>7
  <2> QED  BY <2>2, <2>3
<1>3. Seq(Segments) \subseteq S
  <2> HIDE DEF S
  <2> QED  BY <1>1, <1>2, SequenceInduction
<1> QED  BY <1>3

(* What is left of a root, and what was cut off.                           *)
LEMMA StemOfRoot ==
  ASSUME NEW p \in Seq(Segments), \E i \in DOMAIN p : p[i] # ""
  PROVE  \E n \in DOMAIN p : LastName(p, n) /\ WithoutSlashes(p) = SubSeq(p, 1, n)
<1> DEFINE m == CHOOSE n \in DOMAIN p : p[n] # "" /\ \A i \in n + 1 .. Len(p) : p[i] = ""
<1>1. \E n \in DOMAIN p : p[n] # "" /\ \A i \in n + 1 .. Len(p) : p[i] = ""
  BY LastNameExists DEF LastName
<1>2. m \in DOMAIN p /\ p[m] # "" /\ \A i \in m + 1 .. Len(p) : p[i] = ""
  BY <1>1
<1>3. WithoutSlashes(p) = SubSeq(p, 1, m)
  BY DEF WithoutSlashes
<1> HIDE DEF m
<1> QED  BY <1>2, <1>3 DEF LastName

LEMMA StemNamed ==
  ASSUME NEW p \in Seq(Segments)
  PROVE  WithoutSlashes(p) \in Seq(Segments) /\ Named(WithoutSlashes(p)) = Named(p)
<1>1. CASE \A i \in DOMAIN p : p[i] = ""
  <2>1. WithoutSlashes(p) = <<"">>
    BY <1>1 DEF WithoutSlashes
  <2>2. ToSet(p) \subseteq Silent /\ ToSet(<<"">>) \subseteq Silent
    BY <1>1, ElementsOfOne DEF ToSet, Silent
  <2>3. <<"">> \in Seq(Segments)
    BY WordsAreSegments
  <2> QED  BY <2>1, <2>2, <2>3, NamedNothing
<1>2. CASE ~\A i \in DOMAIN p : p[i] = ""
  <2>1. PICK n \in DOMAIN p : LastName(p, n) /\ WithoutSlashes(p) = SubSeq(p, 1, n)
    BY <1>2, StemOfRoot
  <2>m. PICK m : m = Len(p)
    OBVIOUS
  <2>2. m \in Nat /\ DOMAIN p = 1..m /\ n \in 1..m /\ \A i \in 1..m : p[i] \in Segments
    BY <2>m, LenProperties, ElementOfSeq
  <2>r. PICK rest : rest = SubSeq(p, n + 1, m)
    OBVIOUS
  <2>3. SubSeq(p, 1, n) \in Seq(Segments)
    <3>1. \A i \in 1..n : p[i] \in Segments
      BY <2>2
    <3> QED  BY <2>2, <3>1, SubSeqProperties
  <2>4. /\ rest \in Seq(Segments)
        /\ Len(rest) = IF n + 1 <= m THEN m - (n + 1) + 1 ELSE 0
        /\ \A i \in 1..(m - (n + 1) + 1) : rest[i] = p[(n + 1) + i - 1]
    <3>1. \A i \in n + 1 .. m : p[i] \in Segments
      BY <2>2
    <3>2. n + 1 \in Int /\ m \in Int
      BY <2>2
    <3> QED  BY <2>r, <3>1, <3>2, SubSeqProperties
  <2>5. p = SubSeq(p, 1, n) \o rest
    <3>1. SubSeq(p, 1, n) \o SubSeq(p, n + 1, m) = SubSeq(p, 1, m)
      BY <2>2, <2>m, ConcatAdjacentSubSeq
    <3> QED  BY <2>m, <2>r, <3>1, SubSeqFull
  <2>6. ToSet(rest) \subseteq Silent
    <3>1. SUFFICES ASSUME NEW i \in DOMAIN rest PROVE rest[i] = ""
      BY DEF ToSet, Silent
    <3>2. DOMAIN rest = 1..Len(rest)
      BY <2>4, LenProperties
    <3>3. i \in 1..(m - (n + 1) + 1)
      BY <2>2, <2>4, <3>2
    <3>4. rest[i] = p[(n + 1) + i - 1] /\ (n + 1) + i - 1 \in n + 1 .. m
      BY <2>2, <2>4, <3>3
    <3> QED  BY <2>1, <2>m, <3>4 DEF LastName
  <2>7. Named(p) = Named(SubSeq(p, 1, n)) \o Named(rest) /\ Named(rest) = <<>>
    BY <2>3, <2>4, <2>5, <2>6, NamedConcat, NamedNothing
  <2> QED  BY <2>1, <2>3, <2>7, NamedSpreads, ConcatEmptySeq
<1> QED  BY <1>1, <1>2

(* The file that a path below a root leads to, however it is spelled.      *)
LEMMA AbsoluteLeads ==
  ASSUME NEW root \in Seq(Segments), NEW p \in Seq(Segments)
  PROVE  FileOf(Absolute(root, Normalized(p))) = FileOf(root) \o FileOf(p)
<1>1. Named(root) \in Seq(Segments) /\ Named(p) \in Seq(Segments)
  BY NamedSpreads
<1>2. CASE Named(p) = <<>>
  <2>1. Absolute(root, Normalized(p)) = root
    BY <1>2 DEF Normalized, Absolute
  <2> QED  BY <1>1, <1>2, <2>1, ConcatEmptySeq DEF FileOf
<1>3. CASE Named(p) # <<>>
  <2>1. Normalized(p) = Named(p)
    BY <1>3 DEF Normalized
  <2>2. Named(p) # <<".">>
    <3>1. "." \notin ToSet(Named(p)) /\ "." \in ToSet(<<".">>)
      BY NamedKeeps, ElementsOfOne DEF Silent
    <3> QED  BY <3>1
  <2>3. Absolute(root, Normalized(p)) = WithoutSlashes(root) \o Named(p)
    BY <2>1, <2>2 DEF Absolute
  <2>4. Named(WithoutSlashes(root) \o Named(p)) = Named(root) \o Named(p)
    <3>1. WithoutSlashes(root) \in Seq(Segments) /\ Named(WithoutSlashes(root)) = Named(root)
      BY StemNamed
    <3>2. Named(WithoutSlashes(root) \o Named(p)) = Named(WithoutSlashes(root)) \o Named(Named(p))
      BY <1>1, <3>1, NamedConcat
    <3> QED  BY <3>1, <3>2, NamedTwice
  <2> QED  BY <2>3, <2>4 DEF FileOf
<1> QED  BY <1>2, <1>3

-----------------------------------------------------------------------------
(* Spellings.                                                              *)

Plain(p) == IF Named(p) = <<>> THEN <<".">> ELSE Named(p)

(* The plain spelling of a path is well-formed if the path is, and it is   *)
(* its own normal form.                                                    *)
LEMMA PlainIsNormal ==
  ASSUME NEW p \in Seq(Segments), WellFormed(p)
  PROVE  /\ Normalized(p) = Plain(p)
         /\ Normalized(Plain(p)) = Plain(p)
         /\ WellFormed(Plain(p))
<1>1. Normalized(p) = Plain(p)
  BY DEF Normalized, Plain
<1>2. CASE Named(p) = <<>>
  <2>1. Plain(p) = <<".">> /\ <<".">> \in Seq(Segments)
    BY <1>2, WordsAreSegments DEF Plain
  <2>2. Named(<<".">>) = <<>>
    <3>1. ToSet(<<".">>) \subseteq Silent
      BY ElementsOfOne DEF Silent
    <3> QED  BY <2>1, <3>1, NamedNothing
  <2>3. Normalized(Plain(p)) = Plain(p)
    BY <2>1, <2>2 DEF Normalized
  <2>4. WellFormed(<<".">>)
    <3>1. "." # "" /\ "." # ".." /\ "." \notin OddSegments
      BY SegmentAssumption
    <3>2. PICK q : q = <<".">>
      OBVIOUS
    <3>3. \A i \in DOMAIN q : q[i] = "."
      BY <3>2
    <3>4. q[1] = "."
      BY <3>2
    <3>5. WellFormed(q)
      BY <3>1, <3>3, <3>4 DEF WellFormed
    <3> QED  BY <3>2, <3>5
  <2> QED  BY <1>1, <2>1, <2>3, <2>4
<1>3. CASE Named(p) # <<>>
  <2>q. PICK q : q = Named(p)
    OBVIOUS
  <2>1. Plain(p) = q /\ q # <<>> /\ q \in Seq(Segments) /\ Named(q) = q
    BY <1>3, <2>q, NamedSpreads, NamedTwice DEF Plain
  <2>2. Normalized(q) = q
    BY <2>1 DEF Normalized
  <2>3. \A x \in ToSet(q) : x # "" /\ x # ".." /\ x \notin OddSegments
    <3>1. ToSet(q) = ToSet(p) \ Silent
      BY <2>q, NamedKeeps
    <3>2. \A x \in ToSet(p) : x # ".." /\ x \notin OddSegments
      BY DEF WellFormed, ToSet
    <3> QED  BY <3>1, <3>2 DEF Silent
  <2>4. \A i \in DOMAIN q : q[i] \in ToSet(q)
    BY DEF ToSet
  <2>5. 1 \in DOMAIN q
    BY <2>1, EmptySeq, LenProperties
  <2>6. WellFormed(q)
    BY <2>3, <2>4, <2>5 DEF WellFormed
  <2> QED  BY <1>1, <2>1, <2>2, <2>6
<1> QED  BY <1>2, <1>3

LEMMA RootsArePaths ==
  ASSUME TypeOK, config # Down, NEW w, Found(InUse.workspaces, w)
  PROVE  RootOf(w) \in Seq(Segments) /\ Len(RootOf(w)) > 1 /\ RootOf(w)[1] = ""
<1>1. RootOf(w) \in SafePaths
  BY InUseSound DEF Sound, Found, RootOf
<1> QED  BY <1>1, PathAssumption

ForNamed(answer, w, p) ==
  /\ answer[1] = "sensitive_path" <=> ~Visible(Plain(p), PatternsOf(w))
  /\ answer[1] = "runs" => FileOf(answer[2].file) = FileOf(RootOf(w)) \o FileOf(p)

LEMMA ReadsAlike ==
  ASSUME TypeOK, config # Down, NEW w, NEW p \in AskedPaths, NEW start, NEW end,
         ReadAnswer(w, p, start, end)[1] \in {"sensitive_path", "runs"}
  PROVE  ForNamed(ReadAnswer(w, p, start, end), w, p)
<1> DEFINE answer == ReadAnswer(w, p, start, end)
<1>1. /\ Found(InUse.workspaces, w)
      /\ WellFormed(p)
      /\ answer[1] = "sensitive_path" <=> Sensitive(Normalized(p), PatternsOf(w))
      /\ answer[1] = "runs" => answer[2].file = Absolute(RootOf(w), Normalized(p))
  BY DEF ReadAnswer
<1> HIDE DEF answer
<1>2. p \in Seq(Segments) /\ RootOf(w) \in Seq(Segments)
  BY <1>1, PathAssumption, RootsArePaths
<1>3. /\ Normalized(p) = Plain(p)
      /\ Normalized(Plain(p)) = Plain(p)
      /\ WellFormed(Plain(p))
  BY <1>1, <1>2, PlainIsNormal
<1>4. Visible(Plain(p), PatternsOf(w)) <=> ~Sensitive(Normalized(p), PatternsOf(w))
  BY <1>3 DEF Visible
<1>5. FileOf(Absolute(RootOf(w), Normalized(p))) = FileOf(RootOf(w)) \o FileOf(p)
  BY <1>2, AbsoluteLeads
<1> QED  BY <1>1, <1>4, <1>5 DEF answer, ForNamed

(* SpellingIrrelevant: a path is judged and opened as what it names.       *)
THEOREM SpellingsAgree == Spec => []SpellingIrrelevant
<1>1. Init => SpellingIrrelevant
  BY DEF Init, SpellingIrrelevant, Answered
<1>2. TypeOK /\ SpellingIrrelevant /\ [Next]_vars => SpellingIrrelevant'
  <2> SUFFICES ASSUME TypeOK, SpellingIrrelevant, [Next]_vars PROVE SpellingIrrelevant'
    OBVIOUS
  <2>1. CASE UNCHANGED vars
    BY <2>1 DEF vars, SpellingIrrelevant, Answered, PatternsOf, RootOf, InUse
  <2>2. ASSUME NEW w \in AskedWorkspaces, NEW p \in AskedPaths, NEW lines \in AskedLines,
               ReadFile(w, p, lines)
        PROVE  SpellingIrrelevant'
    <3> DEFINE answer == ReadAnswer(w, p, lines[1], lines[2])
    <3>1. reply' = <<<<"read", w, p>>, answer>> /\ config' = config /\ config # Down
      BY <2>2 DEF ReadFile, Answers, Serves
    <3>2. answer[1] \in {"sensitive_path", "runs"} => ForNamed(answer, w, p)
      BY <3>1, ReadsAlike
    <3>3. PatternsOf(w)' = PatternsOf(w) /\ RootOf(w)' = RootOf(w)
      BY <3>1 DEF PatternsOf, RootOf, InUse
    <3> HIDE DEF answer
    <3>4. reply'[1][2] = w /\ reply'[1][3] = p /\ reply'[2] = answer
      BY <3>1
    <3> QED  BY <3>2, <3>3, <3>4 DEF SpellingIrrelevant, Plain, ForNamed
  <2>3. ASSUME ~Answered("read")' PROVE SpellingIrrelevant'
    BY <2>3 DEF SpellingIrrelevant
  <2>4. CASE TakeNote \/ Edit \/ Start \/ Stop \/ ListHosts \/ ListWorkspaces
    BY <2>3, <2>4, QuietSteps
  <2>5. CASE StartFails
    BY <2>3, <2>5 DEF StartFails, Answered
  <2>6. ASSUME NEW h \in AskedHosts, Observe(h) PROVE SpellingIrrelevant'
    BY <2>3, <2>6 DEF Observe, Answers, Answered
  <2>7. ASSUME NEW h \in AskedHosts, NEW kind \in Kinds, NEW x \in AskedResources,
               ObserveResource(h, kind, x)
        PROVE  SpellingIrrelevant'
    BY <2>3, <2>7 DEF ObserveResource, Answers, Answered
  <2>8. ASSUME NEW h \in AskedHosts, NEW call \in TmuxCalls, Tmux(h, call)
        PROVE  SpellingIrrelevant'
    BY <2>3, <2>8 DEF Tmux, Answers, Answered
  <2>9. ASSUME NEW w \in AskedWorkspaces, FindFails(w) \/ Finds(w)
        PROVE  SpellingIrrelevant'
    BY <2>3, <2>9, FindSteps
  <2>10. ASSUME NEW i \in AskedIds, NEW d \in Requests, Execute(i, d) PROVE SpellingIrrelevant'
    BY <2>3, <2>10 DEF Execute, Answered
  <2> QED BY <2>1, <2>2, <2>4, <2>5, <2>6, <2>7, <2>8, <2>9, <2>10 DEF Next
<1> QED BY <1>1, <1>2, TypeCorrect, PTL DEF Spec

-----------------------------------------------------------------------------
(* Listings of a workspace.                                                *)

(* Every line is the root, or begins with the root without its slashes and *)
(* goes on.                                                                *)
Below(stem, value) == IsPrefix(stem, value) /\ Len(value) > Len(stem)

LEMMA BelowSplits ==
  ASSUME NEW stem \in Seq(Segments), NEW value \in Seq(Segments), Below(stem, value)
  PROVE  /\ SubSeq(value, Len(stem) + 1, Len(value)) \in Seq(Segments)
         /\ value = stem \o SubSeq(value, Len(stem) + 1, Len(value))
<1>1. Len(stem) \in Nat /\ Len(value) \in Nat /\ Len(stem) <= Len(value)
  BY LenProperties DEF Below
<1>2. SubSeq(stem, 1, Len(stem)) = SubSeq(value, 1, Len(stem))
  BY DEF Below, IsPrefix
<1>3. SubSeq(stem, 1, Len(stem)) = stem
  BY SubSeqFull
<1> QED  BY <1>1, <1>2, <1>3, SplitAt

LEMMA BelowConcat ==
  ASSUME NEW s \in Seq(Segments), NEW e \in Seq(Segments), e # <<>>
  PROVE  /\ Below(s, s \o e)
         /\ SubSeq(s \o e, Len(s) + 1, Len(s \o e)) = e
<1>1. /\ s \o e \in Seq(Segments) /\ Len(s \o e) = Len(s) + Len(e)
      /\ Len(s) \in Nat /\ Len(e) \in Nat \ {0}
  BY ConcatProperties, LenProperties, EmptySeq
<1>2. SubSeq(s \o e, 1, Len(s)) = SubSeq(s, 1, Len(s))
  <2>1. Len(s) \in 0..Len(s)
    BY <1>1
  <2> QED  BY <2>1, CutInFirst
<1>3. Below(s, s \o e)
  BY <1>1, <1>2 DEF Below, IsPrefix
<1>4. /\ SubSeq(s \o e, Len(s) + 1, Len(s \o e)) \in Seq(Segments)
      /\ s \o e = s \o SubSeq(s \o e, Len(s) + 1, Len(s \o e))
  BY <1>1, <1>3, BelowSplits
<1> QED  BY <1>3, <1>4, ConcatSimplifications

(* What a root is made of: its stem is a beginning of what lines begin     *)
(* with, and all of that but where two slashes end the root.               *)
Blank(x) == x = ""

Base(root) == IF Blank(Last(root)) THEN Front(root) ELSE root

LEMMA LastNameIsLast ==
  ASSUME NEW p, NEW n, LastName(p, n)
  PROVE  ~Blank(p[n]) /\ \A i \in n + 1 .. Len(p) : Blank(p[i])
BY DEF LastName, Blank

LEMMA BlankEnds ==
  ASSUME NEW p, Len(p) > 2, Blank(p[Len(p)]), Blank(p[Len(p) - 1])
  PROVE  DoubledSlash(p)
BY DEF DoubledSlash, Blank

(* The last name of a root, which is not its first segment, against where  *)
(* the root ends without one slash.                                        *)
LEMMA LastNameAndEnd ==
  ASSUME NEW root, NEW m \in Nat, m > 1, NEW n \in 1..m, NEW b \in {m - 1, m},
         Blank(root[1]), ~Blank(root[n]), \A i \in n + 1 .. m : Blank(root[i]),
         b = m <=> ~Blank(root[m])
  PROVE  n <= b /\ (n = b \/ (m > 2 /\ Blank(root[m]) /\ Blank(root[m - 1])))
<1>1. n # 1
  OBVIOUS
<1>2. CASE b = m
  <2>1. ~(m \in n + 1 .. m)
    BY <1>2
  <2>2. n = m
    BY <2>1
  <2> QED  BY <1>2, <2>2
<1>3. CASE b = m - 1
  <2>1. Blank(root[m])
    BY <1>3
  <2>2. n < m
    <3>1. n # m
      BY <2>1
    <3> QED  BY <3>1
  <2>3. n = m - 1 \/ m - 1 \in n + 1 .. m
    BY <2>2
  <2>4. m > 2
    BY <1>1, <2>2
  <2> QED  BY <1>3, <2>1, <2>2, <2>3, <2>4
<1> QED  BY <1>2, <1>3

LEMMA EndOfBase ==
  ASSUME NEW root \in Seq(Segments), Len(root) > 1
  PROVE  \E b \in {Len(root) - 1, Len(root)} :
            Base(root) = SubSeq(root, 1, b) /\ (b = Len(root) <=> ~Blank(root[Len(root)]))
<1>1. SubSeq(root, 1, Len(root)) = root
  BY SubSeqFull
<1>2. Last(root) = root[Len(root)] /\ Front(root) = SubSeq(root, 1, Len(root) - 1)
  BY DEF Last, Front
<1>3. Len(root) \in Nat /\ Len(root) - 1 # Len(root)
  BY LenProperties
<1> QED  BY <1>1, <1>2, <1>3 DEF Base

LEMMA OnlySlashes ==
  ASSUME NEW root \in Seq(Segments), Len(root) > 1, \A i \in DOMAIN root : Blank(root[i])
  PROVE  /\ WithoutSlashes(root) = SubSeq(root, 1, 1)
         /\ Blank(root[Len(root)])
         /\ DoubledSlash(root) \/ Len(root) = 2
<1>m. PICK m : m = Len(root)
  OBVIOUS
<1>1. m \in Nat /\ m > 1 /\ \A i \in 1..m : Blank(root[i])
  BY <1>m, LenProperties
<1>f. PICK first : first = SubSeq(root, 1, 1)
  OBVIOUS
<1>2. first \in Seq(Segments) /\ Len(first) = 1 /\ first[1] = root[1]
  <2>1. 1 \in Nat /\ 1 <= Len(root)
    BY <1>1, <1>m
  <2>2. first \in Seq(Segments) /\ Len(first) = 1 /\ \A i \in 1..1 : first[i] = root[i]
    BY <1>f, <2>1, Beginning
  <2> QED  BY <2>2
<1>3. first = WithoutSlashes(root)
  <2>x. PICK x : Blank(x)
    BY DEF Blank
  <2>e. PICK e : e = <<x>>
    OBVIOUS
  <2>0. \A y : Blank(y) => y = x
    BY <2>x DEF Blank
  <2>1. <<x>> \in Seq(Segments) /\ WithoutSlashes(root) = <<x>>
    <3>1. \A i \in DOMAIN root : root[i] = ""
      BY DEF Blank
    <3>2. WithoutSlashes(root) = <<"">>
      BY <3>1 DEF WithoutSlashes
    <3>3. x = ""
      BY <2>x DEF Blank
    <3> QED  BY <3>2, <3>3, WordsAreSegments
  <2>2. e \in Seq(Segments) /\ Len(e) = 1 /\ e[1] = x
    BY <2>e, <2>1
  <2>3. 1 \in 1..m
    BY <1>1
  <2>4. root[1] = x
    BY <1>1, <2>0, <2>3
  <2>5. Len(first) = Len(e) /\ \A i \in 1..Len(first) : first[i] = e[i]
    BY <1>2, <2>2, <2>4
  <2>6. first = e
    BY <1>2, <2>2, <2>5, SeqEqual
  <2> QED  BY <2>1, <2>6, <2>e
<1>4. m \in 1..m /\ m - 1 \in 1..m
  BY <1>1
<1>5. Blank(root[m]) /\ Blank(root[m - 1])
  BY <1>1, <1>4
<1>6. m > 2 \/ m = 2
  BY <1>1
<1>7. m > 2 => DoubledSlash(root)
  BY <1>5, <1>m, BlankEnds
<1> QED  BY <1>3, <1>5, <1>6, <1>7, <1>f, <1>m

LEMMA StemAndBase ==
  ASSUME NEW root \in Seq(Segments), Len(root) > 1, Blank(root[1])
  PROVE  \E n \in Nat, b \in Nat :
            /\ n <= b /\ b <= Len(root)
            /\ WithoutSlashes(root) = SubSeq(root, 1, n) /\ Base(root) = SubSeq(root, 1, b)
            /\ n = b \/ DoubledSlash(root)
<1>m. PICK m : m = Len(root)
  OBVIOUS
<1>1. m \in Nat /\ m > 1 /\ DOMAIN root = 1..m
  BY <1>m, LenProperties
<1>b. PICK b \in {m - 1, m} : Base(root) = SubSeq(root, 1, b) /\ (b = m <=> ~Blank(root[m]))
  BY <1>m, EndOfBase
<1>2. b \in Nat /\ b <= m /\ 1 <= b
  BY <1>1
<1>3. CASE \A i \in DOMAIN root : Blank(root[i])
  <2>1. WithoutSlashes(root) = SubSeq(root, 1, 1) /\ Blank(root[m]) /\ (DoubledSlash(root) \/ m = 2)
    BY <1>3, <1>m, OnlySlashes
  <2>2. b = m - 1
    BY <1>b, <2>1
  <2>3. 1 \in Nat /\ (1 = b \/ DoubledSlash(root))
    BY <2>1, <2>2
  <2> QED  BY <1>2, <1>b, <1>m, <2>1, <2>3
<1>4. CASE ~\A i \in DOMAIN root : Blank(root[i])
  <2>0. \E i \in DOMAIN root : root[i] # ""
    BY <1>4 DEF Blank
  <2>1. PICK n \in DOMAIN root : LastName(root, n) /\ WithoutSlashes(root) = SubSeq(root, 1, n)
    BY <2>0, StemOfRoot
  <2>2. n \in 1..m /\ ~Blank(root[n]) /\ \A i \in n + 1 .. m : Blank(root[i])
    BY <1>1, <1>m, <2>1, LastNameIsLast
  <2>3. n <= b /\ (n = b \/ (m > 2 /\ Blank(root[m]) /\ Blank(root[m - 1])))
    BY <1>1, <1>b, <2>2, LastNameAndEnd
  <2>4. n = b \/ DoubledSlash(root)
    BY <1>m, <2>3, BlankEnds
  <2>5. n \in Nat
    BY <1>1, <2>2
  <2> QED  BY <1>2, <1>b, <1>m, <2>1, <2>3, <2>4, <2>5
<1> QED  BY <1>3, <1>4

LEMMA StemOfBase ==
  ASSUME NEW root \in Seq(Segments), Len(root) > 1, Blank(root[1])
  PROVE  /\ Base(root) \in Seq(Segments)
         /\ WithoutSlashes(root) \in Seq(Segments)
         /\ IsPrefix(WithoutSlashes(root), Base(root))
         /\ WithoutSlashes(root) = Base(root) \/ DoubledSlash(root)
<1>1. PICK n \in Nat, b \in Nat :
            /\ n <= b /\ b <= Len(root)
            /\ WithoutSlashes(root) = SubSeq(root, 1, n) /\ Base(root) = SubSeq(root, 1, b)
            /\ n = b \/ DoubledSlash(root)
  BY StemAndBase
<1>2. Base(root) \in Seq(Segments)
  BY <1>1, Beginning
<1>3. WithoutSlashes(root) \in Seq(Segments)
  BY StemNamed
<1>4. IsPrefix(WithoutSlashes(root), Base(root))
  BY <1>1, BeginningsAreOrdered
<1>5. WithoutSlashes(root) = Base(root) \/ DoubledSlash(root)
  BY <1>1
<1> QED  BY <1>2, <1>3, <1>4, <1>5

(* What find and fd print, and the row that is made of it.                 *)
IsLine(root, line) ==
  line = root \/ \E e \in Seq(Segments) : e # <<>> /\ line = Base(root) \o e

LEMMA UnderBase ==
  ASSUME NEW root, NEW e
  PROVE  Under(root, e) = Base(root) \o e
BY DEF Under, Base, Blank

LEMMA EntriesAreBelow ==
  ASSUME NEW e \in Entries
  PROVE  /\ e \in Seq(Segments) /\ e # <<>>
         /\ Append(e, "") \in Seq(Segments) /\ Append(e, "") # <<>>
         /\ e # <<".">>
         /\ \A i \in DOMAIN e : ~Blank(e[i])
<1>1. e \in Seq(Segments \ {"", ".", ".."}) /\ e # <<>>
  BY PathAssumption
<1>d. PICK N : N = Segments \ {"", ".", ".."}
  OBVIOUS
<1>2. N \subseteq Segments /\ e \in Seq(N)
  BY <1>1, <1>d
<1>3. \A i \in 1..Len(e) : e[i] \in N
  BY <1>2, ElementOfSeq
<1>4. e \in Seq(Segments)
  <2>1. \A i \in 1..Len(e) : e[i] \in Segments
    BY <1>2, <1>3
  <2>2. Len(e) \in Int /\ SubSeq(e, 1, Len(e)) = e
    BY <1>2, LenProperties, SubSeqFull
  <2> QED  BY <2>1, <2>2, SubSeqProperties
<1>5. \A x \in Segments : Append(e, x) \in Seq(Segments) /\ Append(e, x) # <<>>
  <2>1. SUFFICES ASSUME NEW x \in Segments
                 PROVE  Append(e, x) \in Seq(Segments) /\ Append(e, x) # <<>>
    OBVIOUS
  <2>2. /\ Append(e, x) \in Seq(Segments) /\ Len(Append(e, x)) = Len(e) + 1
        /\ Len(e) \in Nat
    BY <1>4, AppendProperties, LenProperties
  <2>3. Len(Append(e, x)) # 0
    BY <2>2
  <2> QED  BY <2>2, <2>3, EmptySeq
<1>6. "" \in Segments
  BY SegmentAssumption
<1>7. \A i \in DOMAIN e : e[i] \in N
  BY <1>2, <1>3, LenProperties
<1>8. \A i \in DOMAIN e : ~Blank(e[i])
  BY <1>7, <1>d DEF Blank
<1>9. e # <<".">>
  <2>1. "." \in ToSet(<<".">>)
    BY ElementsOfOne
  <2>2. "." \notin ToSet(e)
    BY <1>7, <1>d DEF ToSet
  <2> QED  BY <2>1, <2>2
<1> QED  BY <1>1, <1>4, <1>5, <1>6, <1>8, <1>9

LEMMA LinesAreBelow ==
  ASSUME NEW root, NEW backend, NEW line \in Printed(backend, root, Entries, Directories)
  PROVE  IsLine(root, line)
<1>1. CASE line = root
  BY <1>1 DEF IsLine
<1>2. ASSUME NEW e \in Entries, line = Under(root, e) PROVE IsLine(root, line)
  BY <1>2, UnderBase, EntriesAreBelow DEF IsLine
<1>3. ASSUME NEW e \in Entries, line = Under(root, Append(e, "")) PROVE IsLine(root, line)
  BY <1>3, UnderBase, EntriesAreBelow DEF IsLine
<1> QED  BY <1>1, <1>2, <1>3 DEF Printed

LEMMA LineIsBelowStem ==
  ASSUME NEW root \in Seq(Segments), Len(root) > 1, Blank(root[1]),
         NEW e \in Seq(Segments), e # <<>>
  PROVE  Base(root) \o e \in Seq(Segments) /\ Below(WithoutSlashes(root), Base(root) \o e)
<1>b. PICK base : base = Base(root)
  OBVIOUS
<1>s. PICK stem : stem = WithoutSlashes(root)
  OBVIOUS
<1>1. base \in Seq(Segments) /\ stem \in Seq(Segments) /\ IsPrefix(stem, base)
  BY <1>b, <1>s, StemOfBase
<1>2. /\ base \o e \in Seq(Segments) /\ Below(base, base \o e)
      /\ Len(base \o e) \in Nat /\ Len(base) \in Nat /\ Len(stem) \in Nat
  BY <1>1, BelowConcat, ConcatProperties, LenProperties
<1>3. Len(stem) <= Len(base) /\ SubSeq(stem, 1, Len(stem)) = SubSeq(base, 1, Len(stem))
  BY <1>1 DEF IsPrefix
<1>4. SubSeq(base \o e, 1, Len(stem)) = SubSeq(base, 1, Len(stem))
  <2>1. Len(stem) \in 0..Len(base)
    BY <1>2, <1>3
  <2> QED  BY <1>1, <2>1, CutInFirst
<1>5. Len(stem) <= Len(base \o e) /\ Len(stem) < Len(base \o e)
  BY <1>2, <1>3 DEF Below
<1>6. Below(stem, base \o e)
  BY <1>2, <1>3, <1>4, <1>5 DEF Below, IsPrefix
<1> QED  BY <1>2, <1>6, <1>b, <1>s

(* A row leads back to the file that its line was printed for.             *)
LEMMA RowLeadsBack ==
  ASSUME NEW root \in Seq(Segments), Len(root) > 1, Blank(root[1]),
         NEW line, IsLine(root, line)
  PROVE  FileOf(Absolute(root, Normalized(Relative(root, line)))) = FileOf(line)
<1>1. CASE line = root
  <2>1. Relative(root, line) = <<".">>
    BY <1>1 DEF Relative
  <2>2. <<".">> \in Seq(Segments) /\ Named(<<".">>) = <<>>
    <3>1. ToSet(<<".">>) \subseteq Silent
      BY ElementsOfOne DEF Silent
    <3> QED  BY <3>1, NamedNothing, WordsAreSegments
  <2>3. Named(root) \in Seq(Segments)
    BY NamedSpreads
  <2>4. FileOf(root) \o FileOf(<<".">>) = FileOf(root)
    BY <2>2, <2>3, ConcatEmptySeq DEF FileOf
  <2> QED  BY <1>1, <2>1, <2>2, <2>4, AbsoluteLeads
<1>2. CASE line # root
  <2>1. PICK e \in Seq(Segments) : e # <<>> /\ line = Base(root) \o e
    BY <1>2 DEF IsLine
  <2>s. PICK stem : stem = WithoutSlashes(root)
    OBVIOUS
  <2>2. /\ line \in Seq(Segments) /\ Below(stem, line)
        /\ stem \in Seq(Segments) /\ Named(stem) = Named(root)
    BY <2>1, <2>s, LineIsBelowStem, StemNamed
  <2>r. PICK rest : rest = SubSeq(line, Len(stem) + 1, Len(line))
    OBVIOUS
  <2>3. Relative(root, line) = rest
    BY <1>2, <2>2, <2>r, <2>s DEF Relative, Below
  <2>4. rest \in Seq(Segments) /\ line = stem \o rest
    BY <2>2, <2>r, BelowSplits
  <2>5. FileOf(line) = FileOf(root) \o FileOf(rest)
    BY <2>2, <2>4, NamedConcat DEF FileOf
  <2> QED  BY <2>3, <2>4, <2>5, AbsoluteLeads
<1> QED  BY <1>1, <1>2

(* With find, the rows of a root are what lies below it, and the root.     *)
LEMMA EntryComesBack ==
  ASSUME NEW root \in Seq(Segments), Len(root) > 1, Blank(root[1]), ~DoubledSlash(root),
         NEW e \in Entries
  PROVE  Relative(root, Under(root, e)) = e
<1>b. PICK base : base = Base(root)
  OBVIOUS
<1>1. /\ base \in Seq(Segments) /\ WithoutSlashes(root) = base
      /\ e \in Seq(Segments) /\ e # <<>>
      /\ \A i \in DOMAIN e : ~Blank(e[i])
  BY <1>b, StemOfBase, EntriesAreBelow
<1>2. /\ Below(base, base \o e)
      /\ SubSeq(base \o e, Len(base) + 1, Len(base \o e)) = e
  BY <1>1, BelowConcat
<1>3. base \o e # root
  <2>1. SUFFICES ASSUME base \o e = root PROVE FALSE
    OBVIOUS
  <2>m. PICK m : m = Len(root)
    OBVIOUS
  <2>k. PICK k : k = Len(base)
    OBVIOUS
  <2>2. /\ m \in Nat /\ k \in Nat /\ Len(e) \in Nat \ {0} /\ m = k + Len(e)
        /\ DOMAIN e = 1..Len(e)
        /\ \A i \in 1..m : root[i] = IF i <= k THEN base[i] ELSE e[i - k]
    BY <1>1, <2>1, <2>k, <2>m, ConcatProperties, LenProperties, EmptySeq
  <2>3. m \in 1..m /\ ~(m <= k) /\ m - k \in DOMAIN e
    BY <2>2
  <2>4. root[m] = e[m - k]
    BY <2>2, <2>3
  <2>5. ~Blank(root[m])
    BY <1>1, <2>3, <2>4
  <2>6. base = root
    BY <1>b, <2>5, <2>m DEF Base, Last
  <2> QED  BY <2>2, <2>6, <2>k, <2>m
<1>4. IsPrefix(base, base \o e) /\ Len(base \o e) > Len(base)
  BY <1>2 DEF Below
<1> QED  BY <1>1, <1>2, <1>3, <1>4, <1>b, UnderBase DEF Relative

LEMMA LinesComeBack ==
  ASSUME NEW root \in Seq(Segments), Len(root) > 1, Blank(root[1]), ~DoubledSlash(root)
  PROVE  {Relative(root, l) : l \in Printed("find", root, Entries, Directories)}
           = Entries \cup {<<".">>}
<1> DEFINE lines == Printed("find", root, Entries, Directories)
<1>1. lines = {root} \cup {Under(root, e) : e \in Entries}
  BY DEF Printed
<1>2. Relative(root, root) = <<".">>
  BY DEF Relative
<1>3. \A e \in Entries : Relative(root, Under(root, e)) = e
  BY EntryComesBack
<1> HIDE DEF lines
<1>4. {Relative(root, l) : l \in lines} = Entries \cup {<<".">>}
  BY <1>1, <1>2, <1>3
<1> QED  BY <1>4 DEF lines

LEMMA RootsAreRoots ==
  ASSUME TypeOK, config # Down, NEW w, Found(InUse.workspaces, w)
  PROVE  RootOf(w) \in Seq(Segments) /\ Len(RootOf(w)) > 1 /\ Blank(RootOf(w)[1])
BY RootsArePaths DEF Blank

RowIsReadable(row) ==
  /\ Visible(row[2], PatternsOf(row[1]))
  /\ FileOf(Absolute(RootOf(row[1]), Normalized(row[2]))) = row[3]

LEMMA RowsAreReadable ==
  ASSUME TypeOK, config # Down, NEW w, Found(InUse.workspaces, w), NEW backend,
         NEW row \in RowsFiles(w, backend)
  PROVE  RowIsReadable(row)
<1>1. PICK line \in Printed(backend, RootOf(w), Entries, Directories) :
         /\ Visible(Relative(RootOf(w), line), PatternsOf(w))
         /\ row = <<w, Relative(RootOf(w), line), FileOf(line)>>
  BY DEF RowsFiles, Shown, Shows, Lines
<1>r. PICK relative : relative = Relative(RootOf(w), line)
  OBVIOUS
<1>f. PICK f : f = FileOf(line)
  OBVIOUS
<1>2. row[1] = w /\ row[2] = relative /\ row[3] = f
  BY <1>1, <1>f, <1>r
<1>3. IsLine(RootOf(w), line)
  BY <1>1, LinesAreBelow
<1>4. FileOf(Absolute(RootOf(w), Normalized(relative))) = f
  BY <1>3, <1>f, <1>r, RootsAreRoots, RowLeadsBack
<1> QED  BY <1>1, <1>2, <1>4, <1>r DEF RowIsReadable

(* FoundIsReadable: rows outlive edits, and end with the server.           *)
THEOREM RowsStayReadable == Spec => []FoundIsReadable
<1>0. FoundIsReadable <=> \A row \in found : RowIsReadable(row)
  BY DEF FoundIsReadable, RowIsReadable
<1>1. Init => FoundIsReadable
  BY DEF Init, FoundIsReadable
<1>2. TypeOK /\ FoundIsReadable /\ [Next]_vars => FoundIsReadable'
  <2> SUFFICES ASSUME TypeOK, FoundIsReadable, [Next]_vars PROVE FoundIsReadable'
    OBVIOUS
  <2>1. CASE UNCHANGED <<config, found>>
    BY <2>1 DEF FoundIsReadable, PatternsOf, RootOf, InUse
  <2>2. CASE Start
    <3>1. found' = {}
      BY <2>2 DEF Start, TypeOK
    <3> QED  BY <3>1 DEF FoundIsReadable
  <2>3. CASE Stop
    <3>1. found' = {}
      BY <2>3 DEF Stop
    <3> QED  BY <3>1 DEF FoundIsReadable
  <2>4. ASSUME NEW w \in AskedWorkspaces, FindFails(w) \/ Finds(w)
        PROVE  FoundIsReadable'
    <3>1. config' = config /\ config # Down
      BY <2>4, FindKeeps
    <3>2. ASSUME NEW row \in found' PROVE RowIsReadable(row)
      <4>1. CASE row \in found
        BY <1>0, <4>1
      <4>2. CASE row \notin found
        <5>1. ~FindFails(w)
          BY <4>2 DEF FindFails, Answers
        <5>2. PICK backend \in {"fd", "find"} :
                row \in RowsFiles(w, backend) /\ Found(InUse.workspaces, w)
          BY <2>4, <4>2, <5>1 DEF Finds, Find
        <5> QED  BY <3>1, <5>2, RowsAreReadable
      <4> QED  BY <4>1, <4>2
    <3>3. \A x : PatternsOf(x)' = PatternsOf(x) /\ RootOf(x)' = RootOf(x)
      BY <3>1 DEF PatternsOf, RootOf, InUse
    <3> QED  BY <3>2, <3>3 DEF FoundIsReadable, RowIsReadable
  <2>5. \/ UNCHANGED <<config, found>> \/ Start \/ Stop
        \/ \E w \in AskedWorkspaces : FindFails(w) \/ Finds(w)
    BY DEF Next, vars, TakeNote, Edit, StartFails, ListHosts, ListWorkspaces, Observe,
           ObserveResource, Tmux, ReadFile, Answers, Serves, Execute
  <2> QED  BY <2>1, <2>2, <2>3, <2>4, <2>5
<1> QED  BY <1>1, <1>2, TypeCorrect, PTL DEF Spec

(* What ListingExact says of one listing.                                  *)
RowsExact(w, backend, code, rows, truncated) ==
  backend = "find" /\ ~DoubledSlash(RootOf(w)) =>
    /\ \A p, q \in rows \ Seen(w) : p = q /\ truncated
    /\ code = 0 /\ ~truncated => rows = Seen(w)

LEMMA ShownAreSeen ==
  ASSUME TypeOK, config # Down, NEW w, Found(InUse.workspaces, w), ~DoubledSlash(RootOf(w))
  PROVE  RowsOf(w, Shown(w, "find")) = Seen(w)
<1>r. PICK root : root = RootOf(w)
  OBVIOUS
<1>l. PICK lines : lines = Printed("find", root, Entries, Directories)
  OBVIOUS
<1>1. {Relative(root, l) : l \in lines} = Entries \cup {<<".">>}
  BY <1>l, <1>r, RootsAreRoots, LinesComeBack
<1>2. RowsOf(w, Shown(w, "find"))
        = {Relative(root, l) : l \in {l \in lines : Visible(Relative(root, l), PatternsOf(w))}}
  BY <1>l, <1>r DEF RowsOf, Shown, Shows, Lines
<1> QED  BY <1>1, <1>2 DEF Seen

LEMMA ListingIsExact ==
  ASSUME TypeOK, config # Down, NEW w, Found(InUse.workspaces, w),
         NEW backend, NEW code, NEW cut \in BOOLEAN, NEW limit \in Int,
         NEW lines \in Received(w, backend, code, cut), NEW taken \in Taken(lines, limit),
         NEW last \in LastRow(w, backend, cut /\ Cardinality(taken) < limit)
  PROVE  RowsExact(w, backend, code, RowsOf(w, taken) \cup last, Truncated(taken, limit, cut))
<1> SUFFICES ASSUME backend = "find", ~DoubledSlash(RootOf(w))
             PROVE  RowsExact(w, "find", code, RowsOf(w, taken) \cup last,
                              Truncated(taken, limit, cut))
  BY DEF RowsExact
<1>1. RowsOf(w, Shown(w, "find")) = Seen(w)
  BY ShownAreSeen
<1>2. lines \subseteq Shown(w, "find") /\ taken \subseteq lines
  BY DEF Received, Taken
<1>3. RowsOf(w, taken) \subseteq Seen(w)
  BY <1>1, <1>2 DEF RowsOf
<1>4. last = {} \/ (cut /\ \E p : last = {p})
  <2>1. CASE cut /\ Cardinality(taken) < limit
    BY <2>1 DEF LastRow, RowsOf
  <2>2. CASE ~(cut /\ Cardinality(taken) < limit)
    BY <2>2 DEF LastRow
  <2> QED  BY <2>1, <2>2
<1>5. cut => Truncated(taken, limit, cut)
  BY DEF Truncated
<1>6. ASSUME code = 0, ~Truncated(taken, limit, cut)
      PROVE  RowsOf(w, taken) \cup last = Seen(w)
  <2>1. ~cut /\ ~(Cardinality(taken) >= limit)
    BY <1>6 DEF Truncated
  <2>2. lines = Shown(w, "find")
    BY <1>6, <2>1 DEF Received
  <2>3. taken = lines
    BY <2>1 DEF Taken
  <2> QED  BY <1>1, <1>4, <2>1, <2>2, <2>3
<1> QED  BY <1>3, <1>4, <1>5, <1>6 DEF RowsExact

(* ListingExact: a listing that is not marked is of all that may be seen,  *)
(* for every limit, however large the tree is and wherever it is cut.      *)
THEOREM ListingsAreExact == Spec => []ListingExact
<1>1. Init => ListingExact
  BY DEF Init, ListingExact, Answered
<1>2. TypeOK /\ ListingExact /\ [Next]_vars => ListingExact'
  <2> SUFFICES ASSUME TypeOK, ListingExact, [Next]_vars PROVE ListingExact'
    OBVIOUS
  <2>1. CASE UNCHANGED vars
    BY <2>1 DEF vars, ListingExact, Answered, Seen, PatternsOf, RootOf, InUse
  <2>2. ASSUME NEW w \in AskedWorkspaces, Finds(w)
        PROVE  ListingExact'
    <3>1. PICK backend \in {"fd", "find"}, asked \in AskedLimits, code \in {0, 1},
               cut \in BOOLEAN :
            Find(w, backend, asked, code, cut)
      BY <2>2 DEF Finds
    <3> DEFINE limit == Limit(asked)
    <3>2. /\ config' = config /\ config # Down
          /\ Found(InUse.workspaces, w)
          /\ limit \in Int
      BY <3>1, AskAssumption DEF Find, Serves, Limit, MaxRows
    <3>3. PICK lines \in Received(w, backend, code, cut) : \E taken \in Taken(lines, limit) :
            \E last \in LastRow(w, backend, cut /\ Cardinality(taken) < limit) :
              reply' = <<<<"find", w, backend, code>>,
                         <<"rows", RowsOf(w, taken) \cup last, Truncated(taken, limit, cut)>>>>
      BY <3>1 DEF Find
    <3>4. PICK taken \in Taken(lines, limit) :
            \E last \in LastRow(w, backend, cut /\ Cardinality(taken) < limit) :
              reply' = <<<<"find", w, backend, code>>,
                         <<"rows", RowsOf(w, taken) \cup last, Truncated(taken, limit, cut)>>>>
      BY <3>3
    <3>5. PICK last \in LastRow(w, backend, cut /\ Cardinality(taken) < limit) :
              reply' = <<<<"find", w, backend, code>>,
                         <<"rows", RowsOf(w, taken) \cup last, Truncated(taken, limit, cut)>>>>
      BY <3>4
    <3> DEFINE rows == RowsOf(w, taken) \cup last
               truncated == Truncated(taken, limit, cut)
    <3>6. RowsExact(w, backend, code, rows, truncated)
      BY <3>2, ListingIsExact
    <3>7. PatternsOf(w)' = PatternsOf(w) /\ RootOf(w)' = RootOf(w)
      BY <3>2 DEF PatternsOf, RootOf, InUse
    <3> HIDE DEF rows, truncated
    <3>8. /\ reply'[1][2] = w /\ reply'[1][3] = backend /\ reply'[1][4] = code
          /\ reply'[2][2] = rows /\ reply'[2][3] = truncated
      BY <3>5 DEF rows, truncated
    <3> QED  BY <3>6, <3>7, <3>8 DEF ListingExact, RowsExact, Seen
  <2>3. ASSUME ~Answered("find")' PROVE ListingExact'
    BY <2>3 DEF ListingExact
  <2>4. CASE TakeNote \/ Edit \/ Start \/ Stop \/ ListHosts \/ ListWorkspaces
    BY <2>3, <2>4, QuietSteps
  <2>5. CASE StartFails
    BY <2>3, <2>5 DEF StartFails, Answered
  <2>6. ASSUME NEW h \in AskedHosts, Observe(h) PROVE ListingExact'
    BY <2>3, <2>6 DEF Observe, Answers, Answered
  <2>7. ASSUME NEW h \in AskedHosts, NEW kind \in Kinds, NEW x \in AskedResources,
               ObserveResource(h, kind, x)
        PROVE  ListingExact'
    BY <2>3, <2>7 DEF ObserveResource, Answers, Answered
  <2>8. ASSUME NEW h \in AskedHosts, NEW call \in TmuxCalls, Tmux(h, call)
        PROVE  ListingExact'
    BY <2>3, <2>8 DEF Tmux, Answers, Answered
  <2>9. ASSUME NEW w \in AskedWorkspaces, NEW p \in AskedPaths, NEW lines \in AskedLines,
               ReadFile(w, p, lines)
        PROVE  ListingExact'
    BY <2>3, <2>9 DEF ReadFile, Answers, Answered
  <2>10. ASSUME NEW i \in AskedIds, NEW d \in Requests, Execute(i, d) PROVE ListingExact'
    BY <2>3, <2>10 DEF Execute, Answered
  <2>11. ASSUME NEW w \in AskedWorkspaces, FindFails(w) PROVE ListingExact'
    BY <2>11 DEF FindFails, Answers, ListingExact
  <2> QED BY <2>1, <2>2, <2>4, <2>5, <2>6, <2>7, <2>8, <2>9, <2>10, <2>11 DEF Next
<1> QED BY <1>1, <1>2, TypeCorrect, PTL DEF Spec
=============================================================================
