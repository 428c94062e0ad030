CONSTANTS
  p1 = p1
  p2 = p2
  Partitions <- OnePartition
  Threshold = 2
  ConsumeTypes = {"PRE_COMMIT_BATCH"}
  RetryCount = 1
  MaxLog <- TwoMessages
  MaxFaults = 1
  MaxRestarts = 0
SPECIFICATION Spec
INVARIANTS FailedBatchIsRetried
CHECK_DEADLOCK FALSE
