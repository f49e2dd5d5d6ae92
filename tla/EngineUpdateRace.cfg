SPECIFICATION Spec
CONSTANTS
  r1 = r1  r2 = r2  r3 = r3  hot = hot  cold = cold
  Requests = {r1, r2}
  SamplerParams = {hot, cold}
  ParamsOf <- MCParamsOf
  Streamers = {r1}
  MaxNumSeqs = 1  MaxTokens = 2  MaxPrefill = 0  MaxRetries = 1
  PauseModes = {"update"}  MaxPauses = 1
  Faults = {}  MaxFaults = 1
INVARIANT NoForwardPassDuringLoad
