CONSTANTS
  Members = {m1, m2}
  Deserializers = {"plain", "errorHandling"}
  MaxLog = 3
  MaxFaults = 1
  MaxLosses = 2
  None = None

SPECIFICATION FairSpec

INVARIANTS TypeOK DuplicatesAreExplained
PROPERTIES AtLeastOnceDelivery EventuallyHandled

CHECK_DEADLOCK FALSE
