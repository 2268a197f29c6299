---------------------------- MODULE MCSandboxLive ----------------------------
(* Instances of SandboxLifecycle with its fairness and of SandboxTimers, for *)
(* TLC, each on its own: part says which of the two moves.                   *)
EXTENDS SandboxLifecycle, SandboxTimers

VARIABLE part

allVars == <<part, vars, timersVars>>

LiveInit ==
  /\ Init /\ TimersInit
  /\ \/ part = "lifecycle" /\ idleTimeout = 0 /\ maxRuntime = 0
     \/ part = "timers"

LiveNext ==
  \/ part = "lifecycle" /\ Next /\ UNCHANGED <<part, timersVars>>
  \/ part = "timers" /\ TimersNext /\ UNCHANGED <<part, vars>>

LiveSpec == LiveInit /\ [][LiveNext]_allVars /\ (part = "timers" \/ Fairness)
=============================================================================
