\* Two trajectories of each of one or two prompts, so two workers run two loops
\* each: they share an event loop and a gather.
SPECIFICATION ValidationSpec
CONSTANTS
  Trajectories = {1, 2, 3, 4}
  MaxSteps = 2
  MaxToolCalls = 1
  ToolRewards = {}
  Scores = {1}
  NoReward = NoReward
  NumWorkers = 2
  PromptCounts = {1, 2}
  RolloutN = 2
INVARIANTS
  EpisodesWhole
  FinalAnswersScored
  AwakeWhileInUse
  CallNeverStuck
  ReportsItsOwn
PROPERTIES
  KeepsPromise
CHECK_DEADLOCK FALSE
