SPECIFICATION Spec
CONSTANTS
  NumLogs = 1
  Monitored = {1}
  Period <- OneTick
  RetryAfters <- NoHeader
  DurationRange = 16
  RefreshInterval = 2
  HTTPTimeout = 1
  StartupTime = 2
  PublishInterval = 0
  CsvFiles <- FineOrNotListed
  FailingKinds = {"timeout", "4xx"}
  MaxTime = 6
  MaxFailures = 3
  Excluded = {}
  Preferred = {}
  MMD = 4
  SubmitEndpoint24h = 95
  LowestEndpoint90d = 99
INVARIANTS
  TypeOK
  HealthyLogIsNotDemoted
