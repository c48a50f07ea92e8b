SPECIFICATION Spec
CONSTANTS
  Batches <- MCBatches
  MaxTasks = 1
  MaxPayload = 1
  ChunkMaxSize = 2
INVARIANT OptionsAreTheCallers
CHECK_DEADLOCK FALSE
