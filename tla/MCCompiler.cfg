CONSTANTS
  WordBits = 15
  StackTop = 160
  DataBase = 160
  DataTop = 256
  Junk = 77
  Fuel = 11
  Programs <- MCPrograms
SPECIFICATION Spec
INVARIANTS
  RoundsPreserveMeaning
  FrameBalanced
  FpuBalanced
CHECK_DEADLOCK FALSE
