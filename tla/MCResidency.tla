------------------------------ MODULE MCResidency ------------------------------
\* Instances of Residency for TLC.
EXTENDS Residency, TLC

CONSTANTS h1, h2, h3

\* The handlers do the same.
Symmetry == Permutations(Handlers)

\* Every phase of a load, and those in which a cancellation unwinds it.
AllPhases == Live
SafePhases == {"factory", "prepare", "start", "hook"}
================================================================================
