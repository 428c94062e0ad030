CONSTANTS
  Resources <- MCResources
  Names <- MCNames
  NameOf <- MCNameOf
  TermSignals = {"SIGTERM"}
  AbnormalSignals = {"SIGINT", "SIGUSR1", "SIGUSR2"}
  Benign = {"SIGUSR1"}
  None = None
SPECIFICATION FairSpec
INVARIANTS TypeOK CallbackAtMostOnce EndMeansSettled NoKillBeforeShutdown
PROPERTIES ShutdownEnds
CHECK_DEADLOCK FALSE
