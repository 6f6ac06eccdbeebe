CONSTANTS
  Ptrs = {p1, p2, p3, p4, p5}
  BlockCapacity = 2
  MaxBlocks = 3
  Entries = {"parse_expr", "parse"}
  Statements = {"parse"}
SYMMETRY Symmetry
SPECIFICATION Spec
INVARIANTS
  FreedOnce
  HeadHasRoom
PROPERTIES
  ErrorFreesNodes
  ImplementsTracker
CHECK_DEADLOCK FALSE
