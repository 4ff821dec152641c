CONSTANTS
  MaxTopics = 2
  MaxPartitions = 3
  MaxParallelism = 5
  NotFound = NotFound
SPECIFICATION Spec
INVARIANT OneKafkaConsumerPerPartition
CHECK_DEADLOCK FALSE
