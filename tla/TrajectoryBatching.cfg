\* Up to four trajectories and four steps on two ranks, padded to six rows: a
\* rank may hold two trajectories of a mini-batch, or nothing but padding.
SPECIFICATION BatchingSpec
CONSTANTS
  DpSize = 2
  RefDpSize = 3
  MiniBatchSize = 3
  MaxTrajectories = 4
  MaxSteps = 2
  MaxRows = 4
  MaxTokens = 1
INVARIANTS
  RanksAligned
  GlobalInfoExact
  ImplementsPlan
