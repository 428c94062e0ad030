CONSTANTS
  Resources <- OneEach
  Names <- MCNames
  NameOf <- OneEachNameOf
  TermSignals = {"SIGTERM"}
  AbnormalSignals = {"SIGINT", "SIGUSR1", "SIGUSR2"}
  Benign = {"SIGUSR1"}
  None = None
SPECIFICATION Spec
INVARIANTS EveryRegisteredResourceIsClosed
CHECK_DEADLOCK FALSE
