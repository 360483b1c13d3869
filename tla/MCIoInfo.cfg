CONSTANTS
  Sizes = {0, 3}
  Costs = {0, 1, 2}
  Gaps = {2, 8}
  Jumps <- MCJumps
  Start = 10
  kContinualThreshold = 8
  MaxOps = 3
SPECIFICATION Spec
INVARIANTS CostsOrdered RwWithinLifetime CountersExact
CHECK_DEADLOCK FALSE
