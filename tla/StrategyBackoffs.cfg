SPECIFICATION Spec
CONSTANTS
  NumLogs = 3
  Monitored = {1, 2}
  Period <- OneTick
  RetryAfters <- Headers
  DurationRange = 16
  RefreshInterval = 10
  HTTPTimeout = 1
  StartupTime = 1
  PublishInterval = 0
  CsvFiles <- Files
  FailingKinds = {"5xx"}
  MaxTime = 3
  MaxFailures = 2
  Excluded = {3}
  Preferred = {2}
  MMD = 20
  SubmitEndpoint24h = 95
  LowestEndpoint90d = 99
INVARIANTS
  PenaltyIsRespected
