SPECIFICATION Spec
CONSTANTS
  r1 = r1  r2 = r2  r3 = r3  hot = hot  cold = cold
  Requests = {r1, r2, r3}
  SamplerParams = {hot, cold}
  ParamsOf <- MCParamsOf
  Streamers = {r1, r3}
  MaxNumSeqs = 2  MaxTokens = 1  MaxPrefill = 0  MaxRetries = 1
  PauseModes = {"keep"}  MaxPauses = 1
  Faults = {"fatal", "cleanup"}  MaxFaults = 1
SYMMETRY Symmetry
INVARIANTS TypeOK BatchAgrees WithinLimits NoOrphanedConsumer FCFS
