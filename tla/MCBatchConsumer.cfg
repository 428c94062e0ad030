CONSTANTS
  p1 = p1
  p2 = p2
  Partitions <- TwoPartitions
  Threshold = 2
  ConsumeTypes = {"PRE_COMMIT_BATCH", "EACH_MESSAGE"}
  RetryCount = 1
  MaxLog <- TwoAndOne
  MaxFaults = 2
  MaxRestarts = 1
SPECIFICATION FairSpec
INVARIANTS TypeOK SessionAtMostOnce ProcessAtMostOnce
INVARIANTS NoSilentLoss LargeBatchPreCommitted StopLeavesNothingUncommitted
PROPERTIES EarlyAcknowledgement EventuallyAccounted
CHECK_DEADLOCK FALSE
