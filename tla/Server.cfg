SPECIFICATION FairSpec
CONSTANTS
  NumRequests = 2
  Probes = {p1}
  Loops = {"UptimeFetcher"}
  RequestTimeout = 1
  ProbeTimeout = 1
  RememberBusyTimeout = 1
  MaxTime = 4
INVARIANTS
  TypeOK
  TimeoutIsRemembered
  ReadyMeansNotBusy
  NobodyIsCutOff
  ResultIsSentAsOK
PROPERTIES
  ProbeIsAnswered
  ShutdownEnds
CHECK_DEADLOCK FALSE
