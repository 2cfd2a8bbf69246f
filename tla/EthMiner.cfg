SPECIFICATION BuildFairSpec
CONSTANTS
  NWorkers = 2
  Epochs <- ThreeEpochs
  Etc = TRUE
  MaxJobs = 2
  Items = 5
  Threads = 2
INVARIANTS WorkerCurrent DatasetReleased DatasetWhole
PROPERTIES ImplementsBoard OldDatasetFreed WorkersCatchUp
