\* Two epochs of three batches; the driver is started again up to twice.
CONSTANTS
  StepsPerEpoch = 3
  TotalEpochs = 2
  MaxRestarts = 2
  Configs <- MCConfigs
SPECIFICATION Spec
INVARIANTS
  TrainedInOrder
  LittleIsLost
  FinalModelKept
CHECK_DEADLOCK FALSE
