--------------------------- MODULE MCEngineScheduler ---------------------------
\* Instances of EngineScheduler for TLC.
EXTENDS EngineScheduler

CONSTANTS r1, r2, r3, hot, cold

\* The second request to be named asks for another sampler than the others.
MCParamsOf == [r \in Requests |-> IF r = r2 THEN cold ELSE hot]

\* r1 and r3 ask for the same and may be exchanged.
Symmetry == Permutations({r1, r3})
================================================================================
