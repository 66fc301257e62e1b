SPECIFICATION LSpec
CONSTANTS
  Samples <- MCSamples
  Arguments <- MCArguments
  Names = {"x"}
  Funcs = {f, g}
  Params <- NoParams
  Classes <- StructuredClasses
  Numbers = {0}
  Byte = 256
  MaxPool = 256
  MaxOpen = 2
  MaxStack = 6
  MaxCalls = 4
  MaxJournal = 2
  MaxInt = 4
INVARIANTS
  LTypeOK
  EndTryMatched
  SuccessMeansReturned
PROPERTIES
  StructuredControlFlow
  RequireReverts
SYMMETRY FuncSymmetry
CHECK_DEADLOCK FALSE
