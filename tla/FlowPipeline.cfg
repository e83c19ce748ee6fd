SPECIFICATION MCSpec
CONSTANTS
  Batchers <- MCBatchers
  Records <- MCRecords
  Table <- MCTable
  Batches <- MCBatches
  BatchSize = 2
  Workers = 1
  None = None
  Flows <- MCFlows
  Items <- MCItems
  Indexes <- MCIndexes
  ItemsOf <- MCItemsOf
  IndexesOf <- MCIndexesOf
INVARIANTS GivenUpIffNoItem
PROPERTIES ImplementsFlowStore ImplementsFlowCatalog InsertEndsUnlessStuck
CHECK_DEADLOCK FALSE
