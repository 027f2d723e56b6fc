SPECIFICATION Spec
CONSTANTS
  OperatorNames = {opA, opB, opC}
  MaxSCTs = 3
  MaxAnswers = 6
  Requests <- MCRequests
INVARIANTS
  TypeOK
  TrimKeepsQuorum
  TrimIsExact
  TrimPrefersStatic
  NothingNeededIsDiscarded
CHECK_DEADLOCK FALSE
