CONSTANTS
  MaxTopics = 2
  MaxPartitions = 3
  MaxParallelism = 5
  NotFound = NotFound
SPECIFICATION Spec
INVARIANT NoPanic
CHECK_DEADLOCK FALSE
