--------------------------- MODULE ObserverTools ---------------------------
(***************************************************************************)
(* The observation tools of observers/*.py as data: for every tool what it *)
(* looks up, what it checks before it runs anything, which commands it     *)
(* runs in which order, what it makes of their exit codes and output, and  *)
(* which facts about the output it passes on.  ToolCall runs them.         *)
(*                                                                         *)
(* Left out: argv templates, field names, and the texts themselves.  An    *)
(* exit is "zero", "one", "missing" (127, or a message that says the       *)
(* command was not found), "denied" (a message that says permission        *)
(* denied) or "other".                                                     *)
(***************************************************************************)
EXTENDS Sequences, FiniteSets, Integers

Exits == {"zero", "one", "missing", "denied", "other"}

(* What a tool does after an exit: go on with the output ("use"), go on    *)
(* without it ("skip"), return at once without rows ("empty"), or raise    *)
(* the error with this code.                                               *)

-----------------------------------------------------------------------------
(* _ok, _run_checked and their like: zero or command_failed.               *)
Checked == [e \in Exits |-> IF e = "zero" THEN "use" ELSE "command_failed"]

Tolerated == [e \in Exits |-> IF e = "zero" THEN "use" ELSE "skip"]

OrUnsupported == [e \in Exits |-> IF e = "zero" THEN "use" ELSE "unsupported_capability"]

(* workspace._check_result: grep and find end with 1 without a match, too. *)
ZeroOrOne == [Checked EXCEPT !["one"] = "use"]

MissingUnsupported == [Checked EXCEPT !["missing"] = "unsupported_capability"]

(* git._check_git_result *)
GitResult == [MissingUnsupported EXCEPT !["denied"] = "permission_denied"]

(* docker._check_docker_result, container_ext._docker_error *)
DockerResult == [MissingUnsupported EXCEPT !["denied"] = "permission_denied"]

(* gpu._check_gpu_result *)
GpuResult == [MissingUnsupported EXCEPT !["denied"] = "permission_denied"]

(* tmux._check; exit 1 stands for the message of _no_server.               *)
TmuxResult == [MissingUnsupported EXCEPT !["one"] = "no_tmux_server"]

-----------------------------------------------------------------------------
(* A command: its executable, what follows its exit, and how its output is *)
(* read: as text; as rows, leaving out the ones it does not understand; as *)
(* rows that must be understood; as one document of rows; or as one value. *)
(* otherwise: what may follow output that is not what the tool looks for.  *)
Command(exe, on, reading, otherwise) ==
  [exe |-> exe, on |-> on, reading |-> reading, otherwise |-> otherwise]

Text(exe, on) == Command(exe, on, "text", {"use"})
Rows(exe, on) == Command(exe, on, "rows", {"use"})
Strict(exe, on, code) == Command(exe, on, "strict", {code})
DocumentOf(exe, on, otherwise) == Command(exe, on, "document", {otherwise})
Value(exe, on, otherwise) == Command(exe, on, "value", otherwise)

(* finds: what the tool looks up, see ToolCall.  checks: the codes of its  *)
(* checks before anything is run, in order.  choice: backends, of which    *)
(* the first that is there is run (backends/__init__.py, and _available of *)
(* diagnostics.py); refuses: backends it gives up on after the choice.     *)
(* commands: run one after the other; needs: all of them, the first that   *)
(* is used, or some.  rows: whether rows beyond a number are left out.     *)
(* says: what becomes the truncated flag of the data (output that was cut, *)
(* more rows than the number, or as many) and the redacted flag.           *)
Tool(finds, checks, choice, commands, rows, says) ==
  [finds |-> finds, checks |-> checks, choice |-> choice, refuses |-> {},
   commands |-> commands, needs |-> "all", rows |-> rows, says |-> says]

Plainly(finds, checks, commands) == Tool(finds, checks, <<>>, commands, "all", {})
Limited(finds, checks, commands) == Tool(finds, checks, <<>>, commands, "limited", {})
Faithfully(finds, checks, commands) ==
  Tool(finds, checks, <<>>, commands, "all", {"cut", "redacted"})

(* Started by name on any host: env is there to start brew.                *)
Always == {"sh", "env"}

(* What starts another executable, which may be missing.                   *)
Starters == Always \cup {"sudo"}

-----------------------------------------------------------------------------
(* server.py, observers/system.py                                          *)
list_hosts == Plainly("registry", <<>>, <<>>)
list_workspaces == Plainly("registry", <<>>, <<>>)

(* The output of all four is parsed after the last.                        *)
system_status == Plainly("host", <<>>,
  << Strict("uname", Checked, "unsupported_capability"), Text("uptime", Checked),
     Text("cat", Checked), Strict("free", Checked, "command_failed") >>)

disk_usage == Plainly("host", <<>>, <<Strict("df", Checked, "command_failed")>>)

process_status == Plainly("host", <<"unknown_resource">>,
  <<Strict("pgrep", [Checked EXCEPT !["one"] = "empty"], "command_failed")>>)

host_overview == Plainly("host", <<>>, system_status.commands \o disk_usage.commands)

(* observers/diagnostics.py                                                *)
process_list == Tool("host", <<>>,
  <<DocumentOf("procs", Checked, "skip"), Rows("ps", Checked)>>, <<>>, "limited", {})

process_tree == Tool("host", <<>>, <<>>, <<Text("ps", Checked)>>, "limited", {"cut", "more"})

network_listeners == Tool("host", <<>>,
  <<Text("ss", Checked), Text("lsof", Checked)>>, <<>>, "limited", {"cut"})

network_interfaces == Tool("host", <<>>,
  <<Text("ip", Checked), Text("ifconfig", Checked)>>, <<>>, "limited", {})

network_routes == Tool("host", <<>>,
  <<Text("ip", Checked), Text("netstat", Checked)>>, <<>>, "limited", {})

dns_lookup == Limited("host", <<"invalid_dns_name">>, <<Text("getent", Checked)>>)

filesystem_status == Limited("host", <<>>,
  <<Text("df", Checked), Text("findmnt", Tolerated), Text("lsblk", Tolerated)>>)

disk_hotspots == Tool("host", <<>>,
  <<Text("dust", ZeroOrOne), Text("du", ZeroOrOne)>>, <<>>, "limited", {"cut"})

user_sessions == Limited("host", <<>>, <<Text("who", Checked)>>)

hardware_info == [Limited("host", <<>>,
  <<Text("uname", Tolerated), Text("lscpu", Tolerated), Text("free", Tolerated)>>)
  EXCEPT !.needs = "some"]

sensor_status == Limited("host", <<>>, <<Text("sensors", MissingUnsupported)>>)

(* observers/git.py                                                        *)
repo_status == Plainly("host", <<"unknown_resource">>, <<Rows("git", GitResult)>>)
repo_diff == Faithfully("host", <<"unknown_resource">>, <<Text("git", GitResult)>>)
repo_log == Plainly("host", <<"unknown_resource">>, <<Strict("git", GitResult, "command_failed")>>)

(* observers/docker.py, container_ext.py; two registered containers.       *)
container_list == Plainly("host", <<>>,
  [i \in 1..2 |-> Strict("docker", DockerResult, "command_failed")])

container_logs == Faithfully("host", <<"unknown_resource", "unsupported_capability">>,
  <<Text("docker", DockerResult)>>)

container_stats == Plainly("host", <<>>, <<Rows("docker", DockerResult)>>)

compose_status == Plainly("workspace", <<"unsupported_capability">>, <<Rows("docker", DockerResult)>>)

(* observers/systemd.py, service_ext.py                                    *)
service_status == Plainly("host", <<"unknown_resource">>,
  <<Strict("systemctl", Checked, "command_failed")>>)

service_logs == Faithfully("host", <<"unknown_resource", "unsupported_capability">>,
  <<Text("journalctl", Checked)>>)

journal_query == Faithfully("host",
  <<"unknown_resource", "unsupported_capability", "invalid_filter">>, <<Text("journalctl", Checked)>>)

service_failures == Limited("host", <<>>, <<Text("systemctl", Checked)>>)
systemd_timers == Limited("host", <<>>, <<Text("systemctl", Checked)>>)

(* observers/gpu.py, gpu_ext.py                                            *)
gpu_status == Plainly("host", <<"unsupported_capability">>,
  <<Strict("nvidia-smi", GpuResult, "command_failed")>>)

gpu_processes == Plainly("host", <<"unsupported_capability">>,
  <<Strict("nvidia-smi", MissingUnsupported, "command_failed")>>)

(* observers/tmux.py on an ordinary host.                                  *)
tmux_sessions == Plainly("host", <<>>, <<Rows("tmux", [TmuxResult EXCEPT !["one"] = "empty"])>>)
tmux_windows == Plainly("host", <<"invalid_tmux_target">>, <<Rows("tmux", TmuxResult)>>)
tmux_panes == Plainly("host", <<"invalid_tmux_target">>, <<Rows("tmux", TmuxResult)>>)
tmux_capture == Faithfully("host", <<"invalid_tmux_target">>, <<Text("tmux", TmuxResult)>>)

(* observers/workspace.py                                                  *)
workspace_find == Tool("workspace", <<"invalid_filter">>,
  <<Rows("fd", ZeroOrOne), Rows("find", ZeroOrOne)>>, <<>>, "limited", {"cut", "atLimit"})

(* grep cannot express the path patterns a workspace may have configured.  *)
workspace_search == [Tool("workspace", <<"invalid_query", "invalid_filter">>,
  <<Rows("rg", ZeroOrOne), Rows("grep", ZeroOrOne)>>, <<>>, "limited", {"cut", "atLimit"})
  EXCEPT !.refuses = {"grep"}]

workspace_read == Faithfully("workspace", <<"invalid_path", "sensitive_path">>,
  <<Text("sed", Checked)>>)

workspace_tree == Tool("workspace", <<"invalid_path", "sensitive_path">>,
  <<Rows("eza", Checked), Rows("find", Checked)>>, <<>>, "limited", {"cut", "atLimit"})

file_info == Plainly("workspace", <<"invalid_path", "sensitive_path">>,
  <<Strict("stat", Checked, "command_failed")>>)

checksum == Tool("workspace", <<"invalid_path", "sensitive_path">>,
  [i \in 1..3 |-> Strict(<<"b3sum", "sha256sum", "shasum">>[i], Checked, "command_failed")],
  <<>>, "all", {})

(* observers/structured.py; a document that is cut cannot be parsed.       *)
code_search == Limited("workspace", <<"invalid_language", "invalid_query">>,
  <<Rows("ast-grep", [MissingUnsupported EXCEPT !["one"] = "use"])>>)

json_query == Plainly("workspace",
  <<"unsupported_capability", "invalid_path", "sensitive_path", "invalid_selector">>,
  <<Value("cat", Checked, {"invalid_document", "selector_not_found"})>>)

structured_query == Plainly("workspace",
  <<"invalid_path", "sensitive_path", "invalid_selector", "unsupported_capability">>,
  <<Value("yq", MissingUnsupported, {"invalid_document", "selector_not_found"})>>)

(* observers/environment.py; its workspace tools look the workspace up     *)
(* before run_observed_tool is entered.  Of many probes that are alike the *)
(* first few stand for all.                                                *)
tool_availability == Plainly("host", <<>>, [i \in 1..2 |-> Text("sh", Tolerated)])

runtime_versions == Plainly("host", <<>>,
  <<Text("python3", Tolerated), Text("uv", Tolerated), Text("node", Tolerated)>>)

python_environment == Plainly("early", <<>>, <<Text("python3", Tolerated), Text("uv", Tolerated)>>)
node_environment == Plainly("early", <<>>, <<Text("node", Tolerated), Text("npm", Tolerated)>>)
rust_environment == Plainly("early", <<>>, <<Text("rustc", Tolerated), Text("cargo", Tolerated)>>)

cargo_metadata == Plainly("early", <<>>, <<Value("cargo", Checked, {"command_failed"})>>)

nix_environment == Plainly("early", <<>>,
  <<Text("nix", OrUnsupported), Value("nix", Tolerated, {"skip"})>>)

mise_environment == Plainly("early", <<>>, <<Value("mise", OrUnsupported, {"use"})>>)

archive_list == Limited("early", <<"invalid_path", "sensitive_path", "unsupported_capability">>,
  <<Text("tar", Checked)>>)

package_info == [Limited("host", <<"invalid_package">>,
  <<Text("dpkg-query", Tolerated), Value("env", OrUnsupported, {"unsupported_capability"})>>)
  EXCEPT !.needs = "first"]

-----------------------------------------------------------------------------
Program == [
  list_hosts |-> list_hosts, list_workspaces |-> list_workspaces,
  system_status |-> system_status, disk_usage |-> disk_usage,
  process_status |-> process_status, host_overview |-> host_overview,
  process_list |-> process_list, process_tree |-> process_tree,
  network_listeners |-> network_listeners, network_interfaces |-> network_interfaces,
  network_routes |-> network_routes, dns_lookup |-> dns_lookup,
  filesystem_status |-> filesystem_status, disk_hotspots |-> disk_hotspots,
  user_sessions |-> user_sessions, hardware_info |-> hardware_info,
  sensor_status |-> sensor_status, repo_status |-> repo_status,
  repo_diff |-> repo_diff, repo_log |-> repo_log, container_list |-> container_list,
  container_logs |-> container_logs, container_stats |-> container_stats,
  compose_status |-> compose_status, service_status |-> service_status,
  service_logs |-> service_logs, journal_query |-> journal_query,
  service_failures |-> service_failures, systemd_timers |-> systemd_timers,
  gpu_status |-> gpu_status, gpu_processes |-> gpu_processes,
  tmux_sessions |-> tmux_sessions, tmux_windows |-> tmux_windows,
  tmux_panes |-> tmux_panes, tmux_capture |-> tmux_capture,
  workspace_find |-> workspace_find, workspace_search |-> workspace_search,
  workspace_read |-> workspace_read, workspace_tree |-> workspace_tree,
  file_info |-> file_info, checksum |-> checksum, code_search |-> code_search,
  json_query |-> json_query, structured_query |-> structured_query,
  tool_availability |-> tool_availability, runtime_versions |-> runtime_versions,
  python_environment |-> python_environment, node_environment |-> node_environment,
  rust_environment |-> rust_environment, cargo_metadata |-> cargo_metadata,
  nix_environment |-> nix_environment, mise_environment |-> mise_environment,
  archive_list |-> archive_list, package_info |-> package_info]

AllTools == DOMAIN Program
=============================================================================
