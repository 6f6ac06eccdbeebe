CONSTANTS
  Ptrs = {p1, p2, p3, p4, p5}
  BlockCapacity = 2
  MaxBlocks = 4
  Entries = {"parse_stmt"}
  Statements = {"parse_stmt"}
SPECIFICATION Spec
INVARIANTS FreedOnce
CHECK_DEADLOCK FALSE
