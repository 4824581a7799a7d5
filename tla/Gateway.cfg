\* Every file, every question, in any order.
SPECIFICATION Spec
CONSTANTS
  None = None
  Ids <- Names
  Resources <- Units
  SafePaths <- Roots
  Patterns = {"private/*"}
  Sessions = {"main"}
  Windows = {"@1"}
  Panes = {"%1"}
  NoWindow = NoWindow
  Segments = {"", ".", "..", "srv", "app", "a", "b", "x", "odd", ".env", "key.pem", "private", ".private", "key"}
  OddSegments = {"odd"}
  Undotted <- Undot
  Beginnings <- CutTo
  Fnmatch <- Fits
  DefaultPatterns <- Defaults
  NoEnd = NoEnd
  RequestIds = {"exec-1", "exec-2"}
  LogicalIds <- Names
  Reasons = {"text"}
  Words = {"ls", "A", "B", "A=B", "-c", "two words", "key"}
  Scripts = {"text"}
  Secrets = {"key"}
  BareWords = {"ls", "A", "B", "A=B", "-c", "key", "bash", "-lc"}
  ShellOwn = {"A=B", "cd"}
  ExecOptions = {"-c", "-lc"}
  Files <- AllFiles
  AskedHosts = {"here", "gpu", "stranger"}
  AskedResources = {"web", "stranger"}
  AskedWorkspaces = {"code", "other"}
  AskedPaths <- Paths
  AskedLines <- LinePairs
  AskedLimits = {0, 4, 501}
  TmuxCalls <- Calls
  AskedIds = {"exec-1", "1"}
  Requests <- Documented
  Entries <- Tree
  Directories <- Folders
  Down = Down
  NoReply = NoReply
INVARIANTS
  TypeOK
  NeverMisconfigured
  ListedResolves
  TmuxAgrees
  SpellingIrrelevant
  FoundIsReadable
  ListingExact
  RunsAsRequested
\* The executor can always be asked.
