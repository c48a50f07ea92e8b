SPECIFICATION FairSpec
CONSTANTS
  Batches <- MCBatches
  MaxTasks = 3
  MaxPayload = 5
  ChunkMaxSize = 2
INVARIANTS WireIntact ReplyMeansAll
PROPERTY Finishes
CHECK_DEADLOCK FALSE
