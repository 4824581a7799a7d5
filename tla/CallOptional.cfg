\* One call of a tool with optional commands.
SPECIFICATION Spec
CONSTANTS
  Calls = {c1}
  First = c1
  Asks <- Disks
  Hosts <- TwoHosts
  Transport <- TransportOf
  TmuxUsers <- TmuxUser
  Workspaces <- TwoWorkspaces
  Owner <- OwnerOf
  Stranger = "stranger"
  Malformed = "-bad-"
  Nobody = "nobody"
  NoRequest = NoRequest
  NoAnswer = NoAnswer
INVARIANTS
  OptionalToolsTolerated
\* A run ends when every call is settled.
CHECK_DEADLOCK FALSE
