SPECIFICATION Spec
CONSTANTS
  NWorkers = 2
  Base = 2
  Digits = 4
  Extranonces <- MCExtranonces
  Targets = {t1, t2}
  NoTarget = NoTarget
  RandMax = 1
  MaxJobs = 2
  MaxTries = 1
INVARIANT JobKeepsExtranonce
