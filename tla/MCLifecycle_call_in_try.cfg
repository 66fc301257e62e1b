SPECIFICATION LSpec
CONSTANTS
  Samples <- MCSamples
  Arguments <- MCArguments
  Names = {"x"}
  Funcs = {f, g}
  Params <- NoParams
  Classes <- CallInTryClasses
  Numbers = {0}
  Byte = 256
  MaxPool = 256
  MaxOpen = 2
  MaxStack = 6
  MaxCalls = 4
  MaxJournal = 2
  MaxInt = 4
INVARIANTS
  EndTryMatched
CONSTRAINT NumbersAreConditions
SYMMETRY FuncSymmetry
CHECK_DEADLOCK FALSE
