CONSTANTS
  WordBits = 15
  StackTop = 160
  DataBase = 160
  DataTop = 256
  Junk = 77
  Fuel = 11
  Programs <- RemainderOfTwo
SPECIFICATION Spec
INVARIANT RoundsPreserveMeaning
CHECK_DEADLOCK FALSE
