SPECIFICATION FairSpec
CONSTANTS
  h1 = h1  h2 = h2  h3 = h3
  Handlers = {h1, h2}
  MaxUnloads = 2  MaxCancels = 2
  Faults = {"load", "hook"}  MaxFaults = 2
  WithShutdown = TRUE
  CancelAt <- SafePhases
  RecancelSticks = FALSE
INVARIANTS LoadTaskLive NoStrayEngine
PROPERTIES EveryAcquireEnds ShutdownEnds
CHECK_DEADLOCK FALSE
