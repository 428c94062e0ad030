CONSTANTS
  MaxInstances = 3
  App = App
  None = None
  TermSignals = {"SIGTERM"}
  AbnormalSignals = {"SIGUSR1"}
  Benign = {"SIGUSR1"}
SPECIFICATION FairSpec
INVARIANTS TypeOK CleanShutdownIsFinal OneConsumerAtATime
PROPERTIES RestartFollowsCrash ShutdownEnds
CHECK_DEADLOCK FALSE
