CONSTANTS
  MaxTopics = 2
  MaxPartitions = 3
  MaxParallelism = 5
  NotFound = NotFound
SPECIFICATION Spec
INVARIANT NoPartitionDropped
CHECK_DEADLOCK FALSE
