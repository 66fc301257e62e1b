SPECIFICATION Spec
CONSTANT Inputs <- MCInputs
INVARIANTS
  Precedence
  TypeOK
  AcceptsExpressions
  BracketsNested
  EndConsumedAsName
PROPERTY ParsingEnds
CHECK_DEADLOCK FALSE
