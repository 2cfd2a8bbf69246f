SPECIFICATION FairSpec
CONSTANTS
  NWorkers = 2
  Base = 3
  Width = 2
  NonceSize = 2
  Unit = 2
  Diffs = {0, 1}
  Extranonces <- MCExtranonces
  NoNonce1 = 0
  NotHex = 9
  MaxJobs = 2
  MaxN2 = 3
INVARIANTS SlotCarriesSession WorkerCurrent ShareRebuilt LanesDisjoint WorkersSurvive
PROPERTIES LaneAdvances ImplementsBoard WorkersCatchUp
CHECK_DEADLOCK FALSE
