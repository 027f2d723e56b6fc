SPECIFICATION Spec
CONSTANTS
  NumRequests = 1
  Probes = {p1}
  Loops = {"UptimeFetcher"}
  RequestTimeout = 1
  ProbeTimeout = 1
  RememberBusyTimeout = 1
  MaxTime = 4
INVARIANT OKMeansGranted
CHECK_DEADLOCK FALSE
