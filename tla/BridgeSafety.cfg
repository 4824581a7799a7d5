\* Two runs of one request ID, two commits, two attempts; every document.
SPECIFICATION Spec
CONSTANTS
  Missing = Missing
  Hosts <- TwoHosts
  Transport <- TransportOf
  Workspaces <- OneWorkspace
  Owner <- HostOf
  NoWorkspace = NoWorkspace
  Runs = {r1, r2}
  Ids = {"exec1"}
  Docs <- AllDocs
  ExitCodes = {0, 255}
  Runners = 2
  MaxCommits = 2
  MaxAttempts = 2
SYMMETRY RunsAlike
INVARIANTS
  TypeOK
  OneExecutorPerRequest
  LaunchedAsWritten
  SuccessIsEvidence
PROPERTIES
  ImplementsApprovedExecution
\* A run ends when every workflow run has used its attempts.
CHECK_DEADLOCK FALSE
