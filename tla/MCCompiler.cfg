SPECIFICATION Spec
CONSTANTS
  Samples <- MCSamples
  Names = {"x", "y"}
  Funcs = {"f", "g"}
  Params <- MCParams
  Classes <- MCClasses
  Numbers = {1}
  Byte = 256
  MaxPool = 2
  MaxOpen = 3
INVARIANTS
  TypeOK
  CompiledIsWellFormed
  FunctionBodiesClosed
  BackwardJumpsAreLoops
  HandlersFollowTheirTry
  SlotsDistinct
  
  CallsBindTheirCallee
  ParametersStayInside
CHECK_DEADLOCK FALSE
