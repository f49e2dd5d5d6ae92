SPECIFICATION Spec
CONSTANTS
  h1 = h1  h2 = h2  h3 = h3
  Handlers = {h1, h2}
  MaxUnloads = 0  MaxCancels = 2
  Faults = {}  MaxFaults = 1
  WithShutdown = FALSE
  CancelAt <- AllPhases
  RecancelSticks = FALSE
INVARIANT LoadTaskLive
CHECK_DEADLOCK FALSE
