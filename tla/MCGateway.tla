----------------------------- MODULE MCGateway -----------------------------
(* A gateway with a host behind ssh and a workspace, and config.toml files *)
(* and requests that differ in one place from a good one.                  *)
EXTENDS Gateway, TLC

With(t, key, v) == (key :> v) @@ t
Without(t, key) == [k \in DOMAIN t \ {key} |-> t[k]]

Prose == Str("text")
Bad == Str("-bad-")

-----------------------------------------------------------------------------
(* Names.                                                                  *)
Names == {"here", "gpu", "gpu.ssh", "emma", "code", "other", "web", "stranger"}
Units == Names \cup {"web.service"}
App == <<"", "srv", "app">>
Roots == {App, App \o <<"">>, App \o <<"", "">>, <<"", "srv", ".", "app">>}

Undot(s) == CASE s \in {".", "..", ""} -> ""
              [] s = ".env" -> "env"
              [] s = ".private" -> "private"
              [] OTHER -> s

CutTo(s) == CASE s = "app" -> {"a"}
              [] s = "key.pem" -> {"key"}
              [] OTHER -> {}

Fits(p, pattern) ==
  CASE pattern = ".env" -> p = <<".env">>
    [] pattern = "**/.env" -> Len(p) > 1 /\ Last(p) = ".env"
    [] pattern = "*.pem" -> Last(p) = "key.pem"
    [] pattern = "private/*" -> Len(p) > 1 /\ p[1] = "private"

Defaults == {".env", "**/.env", "*.pem"}

-----------------------------------------------------------------------------
(* config.toml.                                                            *)
Here == [transport |-> Str("local"), tmux_user |-> Str("emma"), gpu |-> Bool(TRUE),
         services |-> Table([web |-> Table([unit |-> Str("web.service")])]),
         repos |-> Table([code |-> Table([path |-> Str(App)])])]
Gpu == [transport |-> Str("ssh"), ssh_alias |-> Str("gpu.ssh"),
        containers |-> Table([web |-> Table([name |-> Str("web"), logs |-> Bool(FALSE)])]),
        processes |-> Table([web |-> Table([name |-> Str("web")])])]
Code == [host |-> Str("gpu"), root |-> Str(App),
         secret_patterns |-> Array(<<Str("private/*")>>), compose |-> Bool(TRUE)]

File(here, gpu, code) ==
  Table([hosts |-> Table([here |-> Table(here), gpu |-> Table(gpu)]),
         workspaces |-> Table([code |-> Table(code)])])
Good == File(Here, Gpu, Code)

GoodFiles ==
  {Good,
   Table([hosts |-> Table([here |-> Table(Without(Without(Here, "tmux_user"), "repos"))])]),
   File(Here, [transport |-> Str("local")],
        [Code EXCEPT !.root = Str(App \o <<"">>), !.host = Str("here")]),
   File(Here, Gpu, [host |-> Str("here"), root |-> Str(App \o <<"", "">>)]),
   File(Without(Here, "gpu"), Gpu, Without([Code EXCEPT !.root = Str(<<"", "srv", ".", "app">>)], "compose"))}

BadFiles ==
  {Null,
   Table([hosts |-> Table([here |-> Table(Here)]), workspaces |-> Table([code |-> Table(Code)])]),
   File(Here, Without(Gpu, "ssh_alias"), Code),
   File(Here, [Gpu EXCEPT !.ssh_alias = Bad], Code),
   File(With(Here, "ssh_alias", Str("gpu.ssh")), Gpu, Code),
   File(Here, With(Gpu, "tmux_user", Str("emma")), Code),
   File(With(Here, "port", Num(22)), Gpu, Code),
   File([Here EXCEPT !.gpu = Num(1)], Gpu, Code),
   File(Here, Gpu, [Code EXCEPT !.secret_patterns = Array(<<Num(1)>>)]),
   File(Here, Gpu, [Code EXCEPT !.root = Str(<<"srv">>)]),
   File(Here, [Gpu EXCEPT !.processes = Array(<<>>)], Code)}

AllFiles == GoodFiles \cup BadFiles

-----------------------------------------------------------------------------
(* What clients ask.                                                       *)
Call(tool, session, window, pane, lines) ==
  [tool |-> tool, session |-> session, window |-> window, pane |-> pane, lines |-> lines]
Calls ==
  {Call("tmux_sessions", "main", NoWindow, "%1", 1),
   Call("tmux_windows", "main", NoWindow, "%1", 1),
   Call("tmux_windows", "@1", NoWindow, "%1", 1),
   Call("tmux_panes", "main", NoWindow, "%1", 1),
   Call("tmux_panes", "main", "@1", "%1", 1),
   Call("tmux_panes", "main", "%1", "%1", 1)}
    \cup {Call("tmux_capture", "main", NoWindow, "%1", lines) : lines \in {0, 1, 500, 501}}
    \cup {Call("tmux_capture", "main", NoWindow, "main", 1)}

Paths ==
  {<<".">>, <<"">>, <<"", "a">>, <<"..", "a">>, <<"a", "..", "b">>, <<"odd">>,
   <<"a">>, <<".", "a">>, <<"a", "">>, <<"a", "", "b">>, <<"a", ".", "b">>,
   <<".env">>, <<".", ".env">>, <<"a", ".env">>, <<"a", "", ".env", ".">>, <<"a", "key.pem", "">>,
   <<"private">>, <<"private", "">>, <<"private", "x">>, <<".", "private", "x">>, <<".private", "x">>}
LinePairs == {<<1, NoEnd>>, <<-3, 5>>, <<7, 3>>, <<2, 5000>>}

Tree == {<<"a">>, <<"a", "b">>, <<"a", "key.pem">>, <<".env">>, <<"private">>, <<"private", "x">>}
Folders == {<<"a">>, <<"private">>}

-----------------------------------------------------------------------------
(* Requests.                                                               *)
Argv(words) == Array([i \in DOMAIN words |-> Str(words[i])])
Target(h, w) == Table([host |-> Str(h), workspace |-> Str(w)])
Ask ==
  [schema_version |-> Num(1), request_id |-> Str("exec-1"), target |-> Target("gpu", "code"),
   mode |-> Str("argv"), argv |-> Argv(<<"ls", "two words">>), timeout_seconds |-> Num(900),
   risk |-> Str("R1"), reason |-> Prose]
Shell ==
  With(Without([Ask EXCEPT !.mode = Str("shell"), !.risk = Str("R4")], "argv"), "script", Prose)

Documents ==
  {Ask, Shell,
   [Ask EXCEPT !.target = Table([host |-> Str("gpu")])],
   [Ask EXCEPT !.target = Table([host |-> Str("here"), workspace |-> Null])],
   [Ask EXCEPT !.target = Target("here", "code")],
   [Ask EXCEPT !.target = Target("gpu", "other")],
   [Ask EXCEPT !.target = Target("gpu", "other"), !.argv = Argv(<<"-c", "ls">>)],
   [Ask EXCEPT !.target = Table([workspace |-> Str("code")])],
   [Ask EXCEPT !.target = Table([host |-> Str("gpu")]), !.argv = Argv(<<"A=B", "ls">>)],
   [Ask EXCEPT !.argv = Argv(<<"A=B", "ls">>)],
   [Ask EXCEPT !.argv = Argv(<<"ls", "A", "B", "two words", "A", "B">>), !.schema_version = Real(1)],
   [Ask EXCEPT !.argv = Argv(<<>>)],
   [Ask EXCEPT !.argv = Argv(<<"ls", "key">>), !.schema_version = Bool(TRUE)],
   [Ask EXCEPT !.schema_version = Num(2)],
   [Ask EXCEPT !.request_id = Str("exec-2")],
   [Ask EXCEPT !.timeout_seconds = Num(0)],
   [Ask EXCEPT !.timeout_seconds = Bool(TRUE)],
   [Ask EXCEPT !.risk = Str("R5")],
   [Shell EXCEPT !.risk = Str("R3")],
   [Shell EXCEPT !.mode = Str("argv")],
   With(Ask, "script", Prose),
   With(Ask, "cwd", Prose),
   Without(Ask, "reason")}
Documented == {Table(d) : d \in Documents} \cup {Null}
=============================================================================
