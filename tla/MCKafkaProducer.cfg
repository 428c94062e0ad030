CONSTANTS
  Calls = {c1, c2, c3}
  ReconnectCount = 2
  MaxFast = 2
  None = None
SPECIFICATION FairSpec
INVARIANTS TypeOK NoOrphan ResultTellsConnection
PROPERTIES CallsSettle
CHECK_DEADLOCK FALSE
