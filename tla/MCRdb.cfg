CONSTANTS
  Plain = {p1, p2}
  Transactional = {t1, t2, t3}
SPECIFICATION FairSpec
INVARIANTS TypeOK ResolvedIsDurable RejectedLeavesNothing IdleHasNoTransaction
PROPERTY EveryCallSettles
CHECK_DEADLOCK FALSE
