CONSTANTS
  PerTick = 1
  MaxTicks = 3
  MaxFaults = 2
  TermSignals = {"SIGTERM"}
  AbnormalSignals = {}
  Benign = {"SIGUSR1"}
  None = None
SPECIFICATION FairSpec
INVARIANTS TypeOK ResolvedIsAppended CleanShutdownDrains
PROPERTIES FailureStopsServer EverySendSettles
CHECK_DEADLOCK FALSE
