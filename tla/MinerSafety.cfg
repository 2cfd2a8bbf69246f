SPECIFICATION ProxySpec
CONSTANTS
  ChanCap = 2
  Timeout = 1
  MetricPeriod = 1
  ExpirePeriod = 0
  j1 = j1
  JobIds = {j1}
  NoJob = NoJob
  NoSample = NoSample
  LoginId = 1
  Reports = TRUE
  MaxFound = 2
  Routes <- LongRoute
INVARIANTS TypeOK CountersBalance SharesApart AnswerExpected TunnelOpen
PROPERTY ImplementsLedger
