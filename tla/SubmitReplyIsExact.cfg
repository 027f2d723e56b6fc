SPECIFICATION Spec
CONSTANTS
  opA = opA
  opB = opB
  OperatorNames = {opA, opB}
  NumLogs = 3
  Timers <- LateOrSlow
  Strategies <- AllStrategies
  Requests <- AllRequests
INVARIANTS
  ReplyIsExact
