SPECIFICATION FairSpec
CONSTANTS
  NWorkers = 2
  Base = 2
  Digits = 4
  Extranonces <- MCExtranonces
  Targets = {t1}
  NoTarget = NoTarget
  RandMax = 1
  MaxJobs = 2
  MaxTries = 1
INVARIANTS WorkerCurrent SlotCarriesSession ShareRebuilt LanesDisjoint
PROPERTIES ImplementsBoard WorkersCatchUp
CHECK_DEADLOCK FALSE
