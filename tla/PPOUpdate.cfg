\* Three ranks, two epochs: the FSDP workers in the plan's order, and the engine
\* workers in any order with a divisor that makes them refuse some mini-batches.
SPECIFICATION Spec
CONSTANTS
  DpSize = 3
  MiniBatchSize = 2
  Batches <- MCBatches
  MCMaxSteps = 3
  MicroBatchSize = 2
  DividedBy = 2
  PpoEpochs = 2
  Shuffle = TRUE
INVARIANTS
  SameWork
  FailTogether
PROPERTIES
  UpdateEnds
  KeepsPromise
