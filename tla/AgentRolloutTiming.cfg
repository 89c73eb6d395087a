\* One worker with two trajectories is enough to pick the wrong one.
SPECIFICATION Spec
CONSTANTS
  Trajectories = {1, 2}
  MaxSteps = 3
  MaxToolCalls = 1
  ToolRewards = {}
  Scores = {1}
  NoReward = NoReward
  NumWorkers = 1
  PromptCounts = {2}
  RolloutN = 1
INVARIANTS
  SlowestIsSlowest
CHECK_DEADLOCK FALSE
