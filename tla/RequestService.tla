---------------------------- MODULE RequestService ----------------------------
(***************************************************************************)
(* What continuous batching promises the callers of stream_outputs and     *)
(* generate (vllm_mlx/engine_core.py): who asks is given the tokens made   *)
(* for it, each once, and is told once why they ended; when it is told, it *)
(* has them all and no more are made.  A caller may leave before that, and *)
(* tokens may go on being made for one that left.  Queue, batch, threads,  *)
(* errors and restarts are nobody's business here.                         *)
(***************************************************************************)
EXTENDS Integers

CONSTANT Callers   \* each asks at most once

VARIABLES
  phase,   \* "idle", "open" while it waits, then "served" or "left"
  made,    \* tokens made for the caller
  given,   \* tokens the caller has
  told     \* why they ended, or "none"

serviceVars == <<phase, made, given, told>>

ServiceInit ==
  /\ phase = [r \in Callers |-> "idle"]
  /\ made = [r \in Callers |-> 0]
  /\ given = [r \in Callers |-> 0]
  /\ told = [r \in Callers |-> "none"]

Ask(r) ==
  /\ phase[r] = "idle"
  /\ phase' = [phase EXCEPT ![r] = "open"]
  /\ UNCHANGED <<made, given, told>>

\* One step of the batch makes at most one token for a caller.
Make(S) ==
  /\ \A r \in S : phase[r] \in {"open", "left"}
  /\ made' = [r \in Callers |-> IF r \in S THEN made[r] + 1 ELSE made[r]]
  /\ UNCHANGED <<phase, given, told>>

\* The caller is given some more of what was made for it.
Give(r) ==
  /\ phase[r] = "open"
  /\ \E n \in 1..(made[r] - given[r]) : given' = [given EXCEPT ![r] = @ + n]
  /\ UNCHANGED <<phase, made, told>>

\* It is given the rest and told that there is no more.
End(r) ==
  /\ phase[r] = "open"
  /\ phase' = [phase EXCEPT ![r] = "served"]
  /\ given' = [given EXCEPT ![r] = made[r]]
  /\ \E why \in {"stop", "length", "error"} : told' = [told EXCEPT ![r] = why]
  /\ UNCHANGED made

Leave(r) ==
  /\ phase[r] = "open"
  /\ phase' = [phase EXCEPT ![r] = "left"]
  /\ UNCHANGED <<made, given, told>>

ServiceNext ==
  \/ \E S \in SUBSET Callers : Make(S)
  \/ \E r \in Callers : Ask(r) \/ Give(r) \/ End(r) \/ Leave(r)

ServiceSpec == ServiceInit /\ [][ServiceNext]_serviceVars

================================================================================
