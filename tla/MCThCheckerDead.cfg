CONSTANTS
  MaxInstances = 3
  App = App
  None = None
  TermSignals = {"SIGTERM"}
  AbnormalSignals = {"SIGUSR1"}
  Benign = {"SIGUSR1"}
SPECIFICATION FairSpec
PROPERTIES DeadConsumerShutsDown
CHECK_DEADLOCK FALSE
