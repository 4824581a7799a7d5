\* Three runs, so that a pending one can be replaced, and two request IDs, so
\* that runs of different groups wait for the one runner; good documents only,
\* so that every obstacle is the environment's doing.
SPECIFICATION CooperativeSpec
CONSTANTS
  Missing = Missing
  Hosts <- TwoHosts
  Transport <- TransportOf
  Workspaces <- OneWorkspace
  Owner <- HostOf
  NoWorkspace = NoWorkspace
  Runs = {r1, r2, r3}
  Ids = {"exec1", "exec2"}
  Docs <- OneOfEach
  ExitCodes = {0}
  Runners = 1
  MaxCommits = 1
  MaxAttempts = 1
PROPERTIES
  EveryRunConcludes
\* A run ends when every workflow run has used its attempts.
CHECK_DEADLOCK FALSE
