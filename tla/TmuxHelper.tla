----------------------------- MODULE TmuxHelper -----------------------------
(***************************************************************************)
(* observers/tmux.py and tmux_helper.py: the tmux command a tool builds,   *)
(* and its way to the tmux of another user.  There it is translated into   *)
(* the arguments of a helper, which sudo starts as that user, and which    *)
(* builds the command anew from them.                                      *)
(*                                                                         *)
(* A command is the sequence of its words.  Both files write the grammars  *)
(* of names out; each grammar is one set here.                             *)
(***************************************************************************)
EXTENDS Integers, Sequences

CONSTANTS
  Sessions,  \* strings that match _SESSION_RE
  Windows,   \* ... _WINDOW_RE
  Panes,     \* ... _PANE_RE
  NoWindow   \* window=None

SessionFormat == "session_format"
WindowFormat == "window_format"
PaneFormat == "pane_format"

MaxLines == 500

(* str(n), and f"-{n}"                                                     *)
Decimal(n) == <<"decimal", n>>
Minus(n) == <<"minus", n>>

Unsupported == <<"unsupported">>

-----------------------------------------------------------------------------
(* The tools.  A call names its tool, session, window, pane and lines.     *)

Accepted(call) ==
  CASE call.tool = "tmux_windows" -> call.session \in Sessions
    [] call.tool = "tmux_panes" ->
         call.session \in Sessions /\ (call.window = NoWindow \/ call.window \in Windows)
    [] call.tool = "tmux_capture" -> call.pane \in Panes
    [] OTHER -> TRUE

(* min(max(int(lines), 1), 500)                                            *)
Bounded_Above(n) == IF n > MaxLines THEN MaxLines ELSE n
Bounded(n) == IF n < 1 THEN 1 ELSE IF n > MaxLines THEN MaxLines ELSE n

PaneTarget(call) == IF call.window = NoWindow THEN call.session ELSE call.window

ToolArgv(call) ==
  CASE call.tool = "tmux_sessions" -> <<"tmux", "list-sessions", "-F", SessionFormat>>
    [] call.tool = "tmux_windows" ->
         <<"tmux", "list-windows", "-t", call.session, "-F", WindowFormat>>
    [] call.tool = "tmux_panes" ->
         <<"tmux", "list-panes", "-t", PaneTarget(call), "-F", PaneFormat>>
    [] call.tool = "tmux_capture" ->
         <<"tmux", "capture-pane", "-p", "-t", call.pane, "-S", Minus(Bounded(call.lines))>>

-----------------------------------------------------------------------------
(* _helper_args.  _CAPTURE_LINES_RE takes one to three digits without a    *)
(* leading zero.                                                           *)
Captures(argv) ==
  \E n \in 1..999 : argv = <<"tmux", "capture-pane", "-p", "-t", argv[5], "-S", Minus(n)>>

HelperArgs(argv) ==
  IF Len(argv) = 4 /\ argv = <<"tmux", "list-sessions", "-F", SessionFormat>>
    THEN <<"sessions">>
  ELSE IF /\ Len(argv) = 6
          /\ argv = <<"tmux", "list-windows", "-t", argv[4], "-F", WindowFormat>>
          /\ argv[4] \in Sessions
    THEN <<"windows", argv[4]>>
  ELSE IF /\ Len(argv) = 6
          /\ argv = <<"tmux", "list-panes", "-t", argv[4], "-F", PaneFormat>>
          /\ argv[4] \in Sessions \cup Windows
    THEN <<"panes", argv[4]>>
  ELSE IF /\ Len(argv) = 7
          /\ Captures(argv)
          /\ argv[5] \in Panes
          /\ argv[7][2] <= MaxLines
    THEN <<"capture", argv[5], Decimal(argv[7][2])>>
  ELSE Unsupported

(* CrossUserTmuxTransport.run                                              *)
SudoArgv(user, args) ==
  <<"/usr/bin/sudo", "-n", "-u", user, "--", "/usr/local/libexec/remote-observer-tmux-read">> \o args

(* sudo (external): the helper gets what follows its path, as that user.   *)
SudoRuns(argv) == [user |-> argv[4], args |-> SubSeq(argv, 7, Len(argv))]

-----------------------------------------------------------------------------
(* tmux_helper.build_tmux_command.                                         *)

PanesOf_SessionOnly == Sessions
PanesOf == Sessions \cup Windows  \* _require_window_or_session

LinesRead == {Decimal(n) : n \in 1..MaxLines}  \* _require_lines

Built(args) ==
  IF args = <<"sessions">>
    THEN <<"/usr/bin/tmux", "list-sessions", "-F", SessionFormat>>
  ELSE IF Len(args) = 2 /\ args[1] = "windows" /\ args[2] \in Sessions
    THEN <<"/usr/bin/tmux", "list-windows", "-t", args[2], "-F", WindowFormat>>
  ELSE IF Len(args) = 2 /\ args[1] = "panes" /\ args[2] \in PanesOf
    THEN <<"/usr/bin/tmux", "list-panes", "-t", args[2], "-F", PaneFormat>>
  ELSE IF Len(args) = 3 /\ args[1] = "capture" /\ args[2] \in Panes /\ args[3] \in LinesRead
    THEN <<"/usr/bin/tmux", "capture-pane", "-p", "-t", args[2], "-S", Minus(args[3][2])>>
  ELSE Unsupported

-----------------------------------------------------------------------------
(* What reaches a tmux, and whose, over a transport of Registry.           *)

ThroughHelper(user, call) ==
  LET args == HelperArgs(ToolArgv(call))
      sudo == SudoRuns(SudoArgv(user, args))
  IN  IF args = Unsupported THEN [user |-> user, argv |-> Unsupported]  \* invalid_tmux_command
      ELSE [user |-> sudo.user, argv |-> Built(sudo.args)]              \* Unsupported: exit 64
=============================================================================
