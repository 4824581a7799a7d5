\* Texts of up to four characters, every limit up to thirteen bytes, markers
\* longer than the credential they replace.
SPECIFICATION Spec
CONSTANTS
  Plain = plain
  Wide = wide
  KeyStart = keystart
  KeyRest = keyrest
  Mark = mark
  MarkerSize = 3
  HardLimit = 13
  MaxLength = 4
INVARIANTS
  TypeOK
  WithinLimit
  LongestPrefixes
  NoCredentialPart
  FlagsHonest
  NoStreamStarves
\* A call returns once.
CHECK_DEADLOCK FALSE
