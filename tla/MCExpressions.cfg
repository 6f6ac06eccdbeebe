CONSTANT
  Texts <- MCTexts
SPECIFICATION Spec
CHECK_DEADLOCK FALSE
INVARIANTS
  GrammarIsParsed
  OnlyGrammarIsParsed
