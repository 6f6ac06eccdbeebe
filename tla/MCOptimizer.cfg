CONSTANTS
  WordBits = 15
  Inputs <- MCInputs
SPECIFICATION Spec
INVARIANTS
  TypeOK
  WindowInBounds
  CompactBetweenRounds
PROPERTIES
  LinesKept
  PassesShrink
  Termination
  ImplementsRewriting
CHECK_DEADLOCK FALSE
