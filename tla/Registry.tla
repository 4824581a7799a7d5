------------------------------ MODULE Registry ------------------------------
(***************************************************************************)
(* config.py: which config.toml is accepted, the AppConfig it becomes, and *)
(* what the rest of the program looks up in that and takes for granted.    *)
(*                                                                         *)
(* The strings that match a regular expression are a set.  A file that     *)
(* does not load is one thing, whatever error says so.                     *)
(***************************************************************************)
EXTENDS Documents

CONSTANTS
  Ids,        \* strings that match _ID_RE
  Resources,  \* ... _RESOURCE_RE
  SafePaths,  \* ... _SAFE_PATH_RE
  Patterns    \* ... _SECRET_PATTERN_RE

ASSUME NoneAssumption == None \notin Ids /\ None \notin SafePaths

-----------------------------------------------------------------------------
(* What is accepted.  None of these checks has a side effect, so that of   *)
(* several that fail it does not matter which is made first.               *)

(* _boolean(raw.get(key, False))                                           *)
FlagOk(t, key) == key \notin DOMAIN t \/ IsA(Get(t, key), "boolean")

PatternsOk(t) ==
  LET v == Get(t, "secret_patterns")
  IN  \/ "secret_patterns" \notin DOMAIN t
      \/ IsA(v, "array") /\ \A i \in DOMAIN v[2] : Matches(v[2][i], Patterns)

ServiceOk(t) ==
  OnlyKeys(t, {"unit", "logs"}) /\ Matches(Get(t, "unit"), Resources) /\ FlagOk(t, "logs")

RepoOk(t) ==
  OnlyKeys(t, {"path", "secret_patterns"}) /\ Matches(Get(t, "path"), SafePaths) /\ PatternsOk(t)

ContainerOk(t) ==
  OnlyKeys(t, {"name", "logs"}) /\ Matches(Get(t, "name"), Resources) /\ FlagOk(t, "logs")

ProcessOk(t) == OnlyKeys(t, {"name"}) /\ Matches(Get(t, "name"), Resources)

(* A table of tables under IDs.                                            *)
IdTable(v) == IsA(v, "table") /\ \A x \in DOMAIN v[2] : x \in Ids /\ IsA(v[2][x], "table")

Kinds == {"services", "repos", "containers", "processes"}

Section(t, key) == IF key \in DOMAIN t THEN t[key] ELSE Table(<<>>)

ResourcesOk(t) ==
  /\ \A kind \in Kinds : IdTable(Section(t, kind))
  /\ \A x \in DOMAIN Section(t, "services")[2] : ServiceOk(Section(t, "services")[2][x][2])
  /\ \A x \in DOMAIN Section(t, "repos")[2] : RepoOk(Section(t, "repos")[2][x][2])
  /\ \A x \in DOMAIN Section(t, "containers")[2] : ContainerOk(Section(t, "containers")[2][x][2])
  /\ \A x \in DOMAIN Section(t, "processes")[2] : ProcessOk(Section(t, "processes")[2][x][2])

AliasOk_AnyTransport(t) ==
  "ssh_alias" \notin DOMAIN t \/ Matches(Get(t, "ssh_alias"), Ids)
AliasOk(t) ==
  IF Matches(Get(t, "transport"), {"ssh"}) THEN Matches(Get(t, "ssh_alias"), Ids)
  ELSE "ssh_alias" \notin DOMAIN t

TmuxUserOk_AnyTransport(t) ==
  "tmux_user" \notin DOMAIN t \/ Matches(Get(t, "tmux_user"), Ids)
TmuxUserOk(t) ==
  \/ "tmux_user" \notin DOMAIN t
  \/ Matches(Get(t, "tmux_user"), Ids) /\ Matches(Get(t, "transport"), {"local"})

HostOk(t) ==
  /\ OnlyKeys(t, {"transport", "ssh_alias", "tmux_user", "gpu"} \cup Kinds)
  /\ Matches(Get(t, "transport"), {"local", "ssh"})
  /\ AliasOk(t)
  /\ TmuxUserOk(t)
  /\ FlagOk(t, "gpu")
  /\ ResourcesOk(t)

HostKnown_AnyId(t, hosts) == Matches(Get(t, "host"), Ids)
HostKnown(t, hosts) == Matches(Get(t, "host"), Ids) /\ Get(t, "host")[2] \in hosts

WorkspaceOk(t, hosts) ==
  /\ OnlyKeys(t, {"host", "root", "secret_patterns", "compose"})
  /\ HostKnown(t, hosts)
  /\ Matches(Get(t, "root"), SafePaths)
  /\ PatternsOk(t)
  /\ FlagOk(t, "compose")

(* load_config                                                             *)
Loads(file) ==
  /\ IsA(file, "table")
  /\ OnlyKeys(file[2], {"hosts", "workspaces"})
  /\ "hosts" \in DOMAIN file[2] /\ IdTable(file[2]["hosts"])
  /\ \A h \in DOMAIN file[2]["hosts"][2] : HostOk(file[2]["hosts"][2][h][2])
  /\ IdTable(Section(file[2], "workspaces"))
  /\ \A w \in DOMAIN Section(file[2], "workspaces")[2] :
       WorkspaceOk(Section(file[2], "workspaces")[2][w][2], DOMAIN file[2]["hosts"][2])

-----------------------------------------------------------------------------
(* What it becomes.                                                        *)

Text(t, key) == IF key \in DOMAIN t THEN t[key][2] ELSE None
Flag(t, key) == IF key \in DOMAIN t THEN t[key][2] ELSE FALSE

SecretPatterns(t) ==
  IF "secret_patterns" \in DOMAIN t
    THEN [i \in DOMAIN t["secret_patterns"][2] |-> t["secret_patterns"][2][i][2]]
    ELSE <<>>

Services(t) == [x \in DOMAIN Section(t, "services")[2] |->
  LET s == Section(t, "services")[2][x][2] IN [unit |-> Text(s, "unit"), logs |-> Flag(s, "logs")]]

Repos(t) == [x \in DOMAIN Section(t, "repos")[2] |->
  LET s == Section(t, "repos")[2][x][2]
  IN  [path |-> Text(s, "path"), secret_patterns |-> SecretPatterns(s)]]

Containers(t) == [x \in DOMAIN Section(t, "containers")[2] |->
  LET s == Section(t, "containers")[2][x][2] IN [name |-> Text(s, "name"), logs |-> Flag(s, "logs")]]

Processes(t) == [x \in DOMAIN Section(t, "processes")[2] |->
  [name |-> Text(Section(t, "processes")[2][x][2], "name")]]

HostConfig(t) ==
  [transport |-> Text(t, "transport"), ssh_alias |-> Text(t, "ssh_alias"),
   tmux_user |-> Text(t, "tmux_user"), gpu |-> Flag(t, "gpu"),
   services |-> Services(t), repos |-> Repos(t),
   containers |-> Containers(t), processes |-> Processes(t)]

WorkspaceConfig(t) ==
  [host_id |-> Text(t, "host"), root |-> Text(t, "root"),
   secret_patterns |-> SecretPatterns(t), compose |-> Flag(t, "compose")]

AppConfig(file) ==
  [hosts |-> [h \in DOMAIN file[2]["hosts"][2] |-> HostConfig(file[2]["hosts"][2][h][2])],
   workspaces |-> [w \in DOMAIN Section(file[2], "workspaces")[2] |->
                     WorkspaceConfig(Section(file[2], "workspaces")[2][w][2])]]

-----------------------------------------------------------------------------
(* What others make of it.                                                 *)

(* AppConfig.host, AppConfig.workspace, _resource: an ID that is not well  *)
(* formed is not looked for.                                               *)
Found(mapping, x) == x \in Ids /\ x \in DOMAIN mapping

(* transport_for_host, and the checks of SshTransport itself, which raise  *)
(* ValueError.                                                             *)
TransportOf(host) ==
  IF host.transport = "local" THEN <<"local">>
  ELSE IF host.transport = "ssh" /\ host.ssh_alias # None
    THEN IF host.ssh_alias \in Ids THEN <<"ssh", host.ssh_alias>> ELSE <<"internal_error">>
  ELSE <<"invalid_configuration">>

(* transport_for_tmux_host                                                 *)
TmuxTransportOf(host) ==
  IF host.tmux_user = None THEN TransportOf(host)
  ELSE IF host.transport = "local" THEN <<"sudo", host.tmux_user>>
  ELSE <<"invalid_configuration">>

(* server._public_host_summary of every host, and list_workspaces: what a  *)
(* client is told there is.                                                *)
ListedHosts(config) ==
  {<<"host", h>> : h \in DOMAIN config.hosts}
    \cup UNION {{<<kind, h, x>> : x \in DOMAIN config.hosts[h][kind]} :
                  h \in DOMAIN config.hosts, kind \in Kinds}

ListedWorkspaces(config) ==
  {<<"workspace", w, config.workspaces[w].host_id>> : w \in DOMAIN config.workspaces}

(* What the tools find of that when they are asked for it.                 *)
Resolves(config, item) ==
  CASE item[1] = "host" -> Found(config.hosts, item[2])
    [] item[1] = "workspace" -> /\ Found(config.workspaces, item[2])
                                /\ Found(config.hosts, config.workspaces[item[2]].host_id)
                                /\ config.workspaces[item[2]].host_id = item[3]
    [] OTHER -> Found(config.hosts, item[2]) /\ Found(config.hosts[item[2]][item[1]], item[3])
=============================================================================
