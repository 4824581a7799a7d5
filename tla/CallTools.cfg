\* A call of every tool, and next to it one of a few.
SPECIFICATION FairSpec
CONSTANTS
  Calls = {c1, c2}
  First = c1
  Asks <- AnyAndFew
  Hosts <- TwoHosts
  Transport <- TransportOf
  TmuxUsers <- TmuxUser
  Workspaces <- TwoWorkspaces
  Owner <- OwnerOf
  Stranger = "stranger"
  Malformed = "-bad-"
  Nobody = "nobody"
  NoRequest = NoRequest
  NoAnswer = NoAnswer
INVARIANTS
  TypeOK
  AuditMatchesAnswers
  FirstAvailable
  FallbackExhausted
  StaysInRegistry
  TextToolsTell
  ListingsTell
PROPERTIES
  ImplementsAuditTrail
  EveryCallSettles
\* A run ends when every call is settled.
CHECK_DEADLOCK FALSE
