CONSTANTS
  WordBits = 8
  StreamSize = 3
  Nul = "NUL"
  MaxIdent = 3
  FirstTypes = {"ERROR"}
  Code <- MCCode
  Keywords <- MCKeywords
  Files <- MCFiles
SPECIFICATION Spec
CHECK_DEADLOCK FALSE
INVARIANT FloatConstantsAreTokens
