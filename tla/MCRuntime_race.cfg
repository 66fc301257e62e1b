SPECIFICATION Spec
CONSTANTS
  Conns = {c1, c2, c3}
  Messages <- MCMessages
  NoMessage = NoMessage
  Hashes = {"h", "k"}
  NoArtifact = NoArtifact
  Garbled = Garbled
INVARIANTS
  LongLived
CHECK_DEADLOCK FALSE
