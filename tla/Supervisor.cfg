SPECIFICATION FairSpec
CONSTANTS
  MaxSignals = 3
  MaxFaults = 1
INVARIANTS
  NoProcessLeft NoSilentFailure
PROPERTIES
  ImplementsServerRunSafely ImplementsServerRun EndsWhenItMust
CHECK_DEADLOCK FALSE
