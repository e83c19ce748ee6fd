SPECIFICATION MCSpec
CONSTANTS
  Batchers <- MCBatchers
  Records <- MCRecords
  Table <- MCTable
  Batches <- MCBatches
  BatchSize = 2
  Workers = 1
  None = None
INVARIANTS TypeOK CallbackTruthful OnePlace NothingPilesUp
PROPERTIES ImplementsBatchedTable AnsweredUnlessStuck
CHECK_DEADLOCK FALSE
