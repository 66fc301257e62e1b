SPECIFICATION FairSpec
CONSTANTS
  Samples <- MCSamples
  Artifacts <- MCArtifacts
  Requests <- MCRequests
  MaxStack = 6
  MaxCalls = 3
  MaxJournal = 2
  MaxInt = 4
INVARIANTS
  TypeOK
  IpInCode
  ReturnsThroughHalt
PROPERTIES
  UncaughtErrorIsFinal
  ForwardCodeEnds
CHECK_DEADLOCK FALSE
