\* One attempt of one dispatched request.
SPECIFICATION Spec
CONSTANTS
  Missing = Missing
  Hosts <- TwoHosts
  Transport <- TransportOf
  Workspaces <- OneWorkspace
  Owner <- HostOf
  NoWorkspace = NoWorkspace
  Runs = {r1}
  Ids = {"exec1"}
  Docs <- GoodDocs
  ExitCodes = {0}
  Runners = 1
  MaxCommits = 1
  MaxAttempts = 1
INVARIANTS
  EvidenceOfEveryExecution
\* A run ends when every workflow run has used its attempts.
CHECK_DEADLOCK FALSE
