CONSTANTS
  Chars = {x, y}
  Junk = junk
  InitialSize = 2
  MaxUsed = 4
SPECIFICATION Spec
INVARIANTS
  TypeOK
  TextInMemory
PROPERTY ImplementsText
