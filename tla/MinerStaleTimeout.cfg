SPECIFICATION Spec
CONSTANTS
  ChanCap = 2
  Timeout = 1
  MetricPeriod = 1
  ExpirePeriod = 1
  j1 = j1
  j2 = j2
  JobIds = {j1, j2}
  NoJob = NoJob
  NoSample = NoSample
  LoginId = 0
  Reports = FALSE
  MaxFound = 1
INVARIANT StaleTimeoutSkipped
