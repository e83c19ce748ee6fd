SPECIFICATION MCSpec
CONSTANTS
  Batchers <- MCBatchers
  Records <- MCRecords
  Table <- MCTable
  Batches <- MCBatches
  BatchSize = 2
  Workers = 1
  None = None
PROPERTIES EveryRecordAnswered
CHECK_DEADLOCK FALSE
