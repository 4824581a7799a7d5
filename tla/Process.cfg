\* One descendant; up to four bytes a stream through a two byte pipe.
SPECIFICATION CooperativeSpec
CONSTANTS
  Child = child
  Heirs = {heir}
  Codes <- ZeroOnly
  KillCode <- SigKill
  NoCode <- None
  NoReply = NoReply
  Cap = 2
  Chunk = 2
  PipeSize = 2
  MaxBytes = 4
INVARIANTS
  TypeOK
  ReaderAccounting
  ResultIsComplete
  NothingLeftBehind
PROPERTIES
  ImplementsBoundedRun
  DeadlineEnforced
  WriterNeverStalls
\* A run ends when the call has returned and every process is gone.
CHECK_DEADLOCK FALSE
