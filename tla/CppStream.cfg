SPECIFICATION FairSpec
CONSTANTS
  Batches <- MCBatches
  MaxTasks = 3
  MaxPayload = 3
  ChunkMaxSize = 2
INVARIANTS WireIntact FulfilledMeansAll
PROPERTY Finishes
CHECK_DEADLOCK FALSE
