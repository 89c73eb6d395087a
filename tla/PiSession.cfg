\* Three turns: a first, one with a predecessor and a successor, and the limit.
SPECIFICATION Spec
CONSTANTS
    MaxTurns = 3
    Rewards = {0, 1}
INVARIANTS
    NoStrayGeneration
    RewardsKept
PROPERTIES
    KeepsPromise
    FlowEnds
CHECK_DEADLOCK FALSE
