CONSTANTS
  Plain = {}
  Transactional = {t1, t2}
SPECIFICATION Spec
INVARIANT TransactionIsItsOwn
CHECK_DEADLOCK FALSE
