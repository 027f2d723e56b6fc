SPECIFICATION FairSpec
CONSTANTS
  opA = opA
  opB = opB
  OperatorNames = {opA, opB}
  NumLogs = 3
  Timers <- LateOrSlow
  Strategies <- AllStrategies
  Requests <- AllRequests
INVARIANTS
  TypeOK
  InFlightAccounting
  ReplyIsCompliant
  OutcomesMatchReply
  BoundedConcurrency
  NoGoroutineLeftBehind
  LoopMissesNoQuorum
PROPERTIES
  ImplementsService
  LaunchOnceAndInTime
  SubmitReturns
