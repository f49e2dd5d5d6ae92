SPECIFICATION Spec
CONSTANTS
  r1 = r1  r2 = r2  r3 = r3  hot = hot  cold = cold
  Requests = {r1, r2}
  SamplerParams = {hot, cold}
  ParamsOf <- MCParamsOf
  Streamers = {r1}
  MaxNumSeqs = 2  MaxTokens = 2  MaxPrefill = 0  MaxRetries = 1
  PauseModes = {"abort"}  MaxPauses = 1
  Faults = {"insert", "corrupt"}  MaxFaults = 2
INVARIANTS OnePlace TokensConserved HandOver
PROPERTY ServesCallers
