SPECIFICATION FairSpec
CONSTANTS
  Conns = {c1, c2, c3}
  Messages <- MCMessages
  NoMessage = NoMessage
  Hashes = {"h", "k"}
  NoArtifact = NoArtifact
  Garbled = Garbled
INVARIANTS
  TypeOK
  StaysUp
PROPERTIES
  ServiceImplemented
  RequestsEnd
CHECK_DEADLOCK FALSE
