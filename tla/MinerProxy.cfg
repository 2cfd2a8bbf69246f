SPECIFICATION ProxyFairSpec
CONSTANTS
  ChanCap = 2
  Timeout = 1
  MetricPeriod = 1
  ExpirePeriod = 1
  j1 = j1
  JobIds = {j1}
  NoJob = NoJob
  NoSample = NoSample
  LoginId = 0
  Reports = FALSE
  MaxFound = 1
  Routes <- HttpRoute
PROPERTIES ErrorEndsConnection ShareSettled StuckJobEndsConnection NoZombie
