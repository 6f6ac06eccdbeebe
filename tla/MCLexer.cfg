CONSTANTS
  WordBits = 8
  StreamSize = 3
  Nul = "NUL"
  MaxIdent = 3
  FirstTypes = {"ERROR", "COMMENT"}
  Code <- MCCode
  Keywords <- MCKeywords
  Files <- MCFiles
SPECIFICATION Spec
CHECK_DEADLOCK FALSE
INVARIANTS
  TypeOK
  WindowOnFile
  NotPastEnd
  TokensCoverFile
  PositionsAreTrue
  MaximalMunch
  ValuesAreRead
  NumbersRefusedRightly
PROPERTY Termination
