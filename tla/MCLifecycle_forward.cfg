SPECIFICATION LSpec
CONSTANTS
  Samples <- MCSamples
  Arguments <- MCArguments
  Names = {"x"}
  Funcs = {f, g}
  Params <- NoParams
  Classes <- ForwardClasses
  Numbers = {0}
  Byte = 256
  MaxPool = 256
  MaxOpen = 2
  MaxStack = 6
  MaxCalls = 4
  MaxJournal = 2
  MaxInt = 4
INVARIANTS
  SuccessMeansReturned
SYMMETRY FuncSymmetry
CHECK_DEADLOCK FALSE
