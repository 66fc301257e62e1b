SPECIFICATION LFairSpec
CONSTANTS
  Samples <- MCSamples
  Arguments <- MCArguments
  Names = {"x"}
  Funcs = {f}
  Params <- NoParams
  Classes <- AnswersClasses
  Numbers = {0}
  Byte = 2
  MaxPool = 2
  MaxOpen = 2
  MaxStack = 6
  MaxCalls = 4
  MaxJournal = 2
  MaxInt = 24

  
PROPERTIES
  CallsAreAnswered
CHECK_DEADLOCK FALSE
