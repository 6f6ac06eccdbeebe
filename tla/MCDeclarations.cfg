CONSTANTS
  NoName = NoName
  Names <- MCNames
  Programs <- MCPrograms
SPECIFICATION Spec
CHECK_DEADLOCK FALSE
INVARIANTS
  TypeOK
  ScopesBalanced
  LocalsHaveTheirPlaces
  FieldsHaveTheirPlaces
PROPERTIES
  Termination
  BlocksRestoreNames
  SignaturesFixed
