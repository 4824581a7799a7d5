------------------------- MODULE ExecutionRequests -------------------------
(***************************************************************************)
(* execution/model.py and secrets.py: which request documents are          *)
(* accepted, by the validator and by the executor alike; and executor.py:  *)
(* the command line an accepted request becomes, and what its target makes *)
(* of that.                                                                *)
(***************************************************************************)
EXTENDS Documents

CONSTANTS
  RequestIds,   \* strings that match _REQUEST_ID_RE
  LogicalIds,   \* ... _LOGICAL_ID_RE
  Reasons,      \* strings that are fit to be a reason ...
  Words,        \* ... an item of argv
  Scripts,      \* ... a script
  Secrets,      \* strings that match one of _SECRET_PATTERNS
  BareWords,    \* words that shlex.quote leaves as they are
  ShellOwn,     \* words that begin a command otherwise for a shell than as
                \* the name of a program: A=B, if, cd
  ExecOptions   \* words that begin with "-": options to exec, as -c is

ASSUME WordAssumption == "&&" \notin BareWords /\ None \notin Scripts

RootKeys == {"schema_version", "request_id", "target", "mode", "argv", "script",
             "timeout_seconds", "risk", "reason"}
MaxTimeout == 900
MaxItems == 256

-----------------------------------------------------------------------------
(* ExecutionRequest.from_json_bytes.                                       *)

(* Python finds True and 1.0 equal to 1.                                   *)
VersionOk(v) == v \in {Num(1), Real(1), Bool(TRUE)}

TargetOk(v) ==
  /\ IsA(v, "table")
  /\ OnlyKeys(v[2], {"host", "workspace"})
  /\ Matches(Get(v[2], "host"), LogicalIds)
  /\ \/ Get(v[2], "workspace")[1] \in {"absent", "null"}
     \/ Matches(Get(v[2], "workspace"), LogicalIds)

TimeoutOk(v) == IsA(v, "integer") /\ v[2] \in 1..MaxTimeout

ArgvOk(v) ==
  /\ IsA(v, "array")
  /\ \E n \in 1..MaxItems : DOMAIN v[2] = 1..n
  /\ \A i \in DOMAIN v[2] : Matches(v[2][i], Words)

CommandOk_AnyRisk(t) ==
  \/ Matches(t["mode"], {"argv"}) /\ "script" \notin DOMAIN t /\ ArgvOk(Get(t, "argv"))
  \/ Matches(t["mode"], {"shell"}) /\ "argv" \notin DOMAIN t /\ Matches(Get(t, "script"), Scripts)
CommandOk(t) ==
  \/ Matches(t["mode"], {"argv"}) /\ "script" \notin DOMAIN t /\ ArgvOk(Get(t, "argv"))
  \/ /\ Matches(t["mode"], {"shell"}) /\ "argv" \notin DOMAIN t
     /\ Matches(t["risk"], {"R4"})
     /\ Matches(Get(t, "script"), Scripts)

DocumentOk(v) ==
  /\ IsA(v, "table")
  /\ OnlyKeys(v[2], RootKeys)
  /\ RootKeys \ {"argv", "script"} \subseteq DOMAIN v[2]
  /\ VersionOk(v[2]["schema_version"])
  /\ Matches(v[2]["request_id"], RequestIds)
  /\ TargetOk(v[2]["target"])
  /\ Matches(v[2]["mode"], {"argv", "shell"})
  /\ TimeoutOk(v[2]["timeout_seconds"])
  /\ Matches(v[2]["risk"], {"R1", "R2", "R3", "R4"})
  /\ Matches(v[2]["reason"], Reasons)
  /\ CommandOk(v[2])

TextOf(t, key) == IF IsA(Get(t, key), "string") THEN t[key][2] ELSE None

Request(v) ==
  LET t == v[2]
  IN  [request_id |-> t["request_id"][2],
       host       |-> t["target"][2]["host"][2],
       workspace  |-> TextOf(t["target"][2], "workspace"),
       mode       |-> t["mode"][2],
       argv       |-> IF "argv" \in DOMAIN t
                        THEN [i \in DOMAIN t["argv"][2] |-> t["argv"][2][i][2]] ELSE <<>>,
       script     |-> TextOf(t, "script"),
       timeout    |-> t["timeout_seconds"][2],
       risk       |-> t["risk"][2],
       reason     |-> t["reason"][2]]

(* reject_secret_literals                                                  *)
HasSecret(q) == (({q.argv[i] : i \in DOMAIN q.argv} \cup {q.script, q.reason}) \cap Secrets) # {}

Accepts(v) == DocumentOk(v) /\ ~HasSecret(Request(v))

(* The error code of from_json_bytes, when it does not accept.             *)
Refusal(v) == IF DocumentOk(v) THEN "secret_in_execution_request" ELSE "invalid_execution_request"

-----------------------------------------------------------------------------
(* executor.py.                                                            *)

(* _request_argv                                                           *)
RequestArgv(q) ==
  IF q.mode = "argv" THEN q.argv
  ELSE IF q.risk # "R4" \/ q.script = None THEN <<>>  \* invalid_execution_request
  ELSE <<"bash", "-lc", q.script>>

(* shlex.quote, shlex.join                                                 *)
Bare(w) == <<"bare", w>>
Quoted(w) == <<"quoted", w>>
Quote(w) == IF w \in BareWords THEN Bare(w) ELSE Quoted(w)
Join(argv) == [i \in DOMAIN argv |-> Quote(argv[i])]

(* _ssh_argv: the last word, which is the command line of the target.      *)
(* Whether the directory has quotes makes no difference.                   *)
RemoteLine_NoExec(argv, cwd) ==
  IF cwd = None THEN Join(argv)
  ELSE <<Bare("cd"), Bare("--"), Quoted(cwd), Bare(";")>> \o Join(argv)
RemoteLine(argv, cwd) ==
  IF cwd = None THEN Join(argv)
  ELSE <<Bare("cd"), Bare("--"), Quoted(cwd), Bare("&&"), Bare("exec")>> \o Join(argv)

(* The shell of the target (external).  It takes a quoted word as it is,   *)
(* and exec takes the name of a program, unless an option comes first.     *)
Read(tokens) == [i \in DOMAIN tokens |-> tokens[i][2]]

ShellRuns(line) ==
  IF /\ Len(line) >= 6 /\ line[1] = Bare("cd") /\ line[2] = Bare("--")
     /\ line[4] = Bare("&&") /\ line[5] = Bare("exec")
    THEN IF line[6][2] \in ExecOptions
           THEN [cwd |-> line[3][2], argv |-> <<>>]  \* something else
           ELSE [cwd |-> line[3][2], argv |-> Read(SubSeq(line, 6, Len(line)))]
  ELSE IF line[1][1] = "bare" /\ line[1][2] \in ShellOwn
    THEN [cwd |-> None, argv |-> <<>>]  \* something else
  ELSE [cwd |-> None, argv |-> Read(line)]

(* execute_request: what runs in the end, where create_subprocess_exec     *)
(* gets the words of a local command and ssh gets one line.                *)
Runs(transport, argv, cwd) ==
  IF transport = "local" THEN [cwd |-> cwd, argv |-> argv]
  ELSE ShellRuns(RemoteLine(argv, cwd))
=============================================================================
