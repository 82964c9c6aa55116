SPECIFICATION BatchSpec
CONSTANTS
  Batches <- MCBatches
  MaxBatch = 5
  MaxInput = 6
  MaxExchanges = 6
  MaxResult = 3
INVARIANTS ProgressIsTrue ReadyForCard
