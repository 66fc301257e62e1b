SPECIFICATION Spec
CONSTANTS
  Programs <- MCPrograms
  MaxFrames = 5
INVARIANT
  AgentHashIsItsOwn
CHECK_DEADLOCK FALSE
