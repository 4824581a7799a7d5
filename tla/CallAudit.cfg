\* One call of a tool that looks its workspace up early.
SPECIFICATION Spec
CONSTANTS
  Calls = {c1}
  First = c1
  Asks <- Early
  Hosts <- TwoHosts
  Transport <- TransportOf
  TmuxUsers <- TmuxUser
  Workspaces <- TwoWorkspaces
  Owner <- OwnerOf
  Stranger = "stranger"
  Malformed = "-bad-"
  Nobody = "nobody"
  NoRequest = NoRequest
  NoAnswer = NoAnswer
INVARIANTS
  EveryCallAudited
\* A run ends when every call is settled.
CHECK_DEADLOCK FALSE
