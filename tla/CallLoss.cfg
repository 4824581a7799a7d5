\* One call of a tool that leaves rows out.
SPECIFICATION Spec
CONSTANTS
  Calls = {c1}
  First = c1
  Asks <- Lossy
  Hosts <- TwoHosts
  Transport <- TransportOf
  TmuxUsers <- TmuxUser
  Workspaces <- TwoWorkspaces
  Owner <- OwnerOf
  Stranger = "stranger"
  Malformed = "-bad-"
  Nobody = "nobody"
  NoRequest = NoRequest
  NoAnswer = NoAnswer
INVARIANTS
  LossIsAudited
\* A run ends when every call is settled.
CHECK_DEADLOCK FALSE
