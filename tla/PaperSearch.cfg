\* Two steps of up to two concurrent calls over two queries and two papers.
CONSTANTS
  Papers = {p1, p2}
  SearchQueries = {q1, q2}
  MaxSteps = 2
  MaxParallelCalls = 2
  RewardTopK = 1
  Relevances = {1, 2}
  ScoreThreshold = 2
  DiscreteReward = FALSE
  MaxFound = 2
SPECIFICATION AnsweringSpec
INVARIANTS
  PaidOnce
  ExpandedOnce
PROPERTY EpisodeEnds
CHECK_DEADLOCK FALSE
