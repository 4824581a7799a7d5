----------------------------- MODULE MCToolCall -----------------------------
(* Small instances of ToolCall: the gateway itself and a host behind ssh,  *)
(* each with a workspace.                                                  *)
EXTENDS ToolCall, TLC

TwoHosts == {"here", "gpu1"}
TransportOf == [h \in TwoHosts |-> IF h = "here" THEN "local" ELSE "ssh"]
TwoWorkspaces == {"home", "paper"}
TmuxUser == {"here"}
OwnerOf == [w \in TwoWorkspaces |-> IF w = "home" THEN "here" ELSE "gpu1"]

(* The first call asks any tool for any target; the others ask for one     *)
(* host's disks, or a tool that refuses before there is anything to audit. *)
CONSTANT First
Of(tools) == {q \in Requests : q.tool \in tools}
AnyAndFew ==
  [c \in Calls |-> IF c = First THEN Requests
                   ELSE {[tool |-> "disk_usage", target |-> "gpu1"],
                         [tool |-> "python_environment", target |-> Stranger]}]

Lossy == [c \in Calls |-> Of({"network_listeners"})]
Disks == [c \in Calls |-> Of({"filesystem_status"})]
Early == [c \in Calls |-> Of({"python_environment"})]
=============================================================================
