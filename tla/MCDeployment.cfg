SPECIFICATION Spec
CONSTANTS
  Programs <- MCPrograms
  MaxFrames = 5
INVARIANTS
  TypeOK
  ModulesFollowImports
  CrashedOnlyOnCycles
  DeclarationsStand
  SingleAgentHash
PROPERTIES
  SoundProgramsDeploy
CHECK_DEADLOCK FALSE
