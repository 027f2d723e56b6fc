SPECIFICATION FairSpec
INVARIANTS
  TypeOK
  EventProtocol
  PenaltyPrecedesFailure
  BodyIsClosed
PROPERTIES
  CancelledGoroutineEnds
