\* One step, the router answers its first post.
SPECIFICATION Spec
CONSTANTS
  Items = {i1}
  MaxRetries = 2
INVARIANTS
  DisrmScores
CHECK_DEADLOCK FALSE
