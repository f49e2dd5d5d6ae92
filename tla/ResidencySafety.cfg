SPECIFICATION Spec
CONSTANTS
  h1 = h1  h2 = h2  h3 = h3
  Handlers = {h1, h2, h3}
  MaxUnloads = 1  MaxCancels = 2
  Faults = {"load", "hook"}  MaxFaults = 1
  WithShutdown = TRUE
  CancelAt <- AllPhases
  RecancelSticks = TRUE
SYMMETRY Symmetry
INVARIANTS TypeOK OneLoadAtATime CountsExact HeldEngineLives
CHECK_DEADLOCK FALSE
