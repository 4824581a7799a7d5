\* The same instance; nothing is assumed of descendants.
SPECIFICATION FairSpec
CONSTANTS
  Child = child
  Heirs = {heir}
  Codes <- ZeroOnly
  KillCode <- SigKill
  NoCode <- None
  NoReply = NoReply
  Cap = 2
  Chunk = 2
  PipeSize = 2
  MaxBytes = 4
PROPERTIES
  DeadlineEnforced
\* A run ends when the call has returned and every process is gone.
CHECK_DEADLOCK FALSE
