CONSTANTS
  WordBits = 8
  Names <- MCNames
  Classes = {SC_NAME, SC_TAG}
  Values = {v1, v2}
  NoValue = NULL
  MaxSize = 3
  Capacity = 4
  CharMin <- MCCharMin
SPECIFICATION Spec
INVARIANTS
  TypeOK
  NodesOnTheirChain
  ListInOrder
  KeysAreUnique
PROPERTY ImplementsMap
