---------------------------- MODULE SandboxPhases ----------------------------
(***************************************************************************)
(* What a Sandbox promises its user, whatever the controller, the Router,  *)
(* the informers and the cluster do: the phase machine of state_machine.go *)
(* with the restart budget of sandbox_controller.go.  The phase moves only *)
(* along these actions; a sandbox that stopped, or whose budget is spent,  *)
(* moves again only on a resume; the controller restarts a failed sandbox  *)
(* by itself only while budget is left, and the budget is given back only  *)
(* by a stable run.                                                        *)
(***************************************************************************)
EXTENDS Naturals

CONSTANT MaxRestartCount   \* failures that exhaust the budget (5 in the code)

VARIABLES
  phase,     \* Status.Phase ("New" is the empty phase, "Gone" a deleted object)
  restarts,  \* Status.RestartCount; every count >= MaxRestartCount is the same
  retry,     \* Status.Message says that an automatic restart is due
  deleting   \* DeletionTimestamp is set

vars == <<phase, restarts, retry, deleting>>

Phases == {"New", "Creating", "Running", "Stopped", "Error", "Gone"}

Init ==
  /\ phase = "New"
  /\ restarts = 0
  /\ retry = FALSE
  /\ deleting = FALSE

\* The controller leaves a sandbox alone once its deletion was requested.
Active(from) == phase \in from /\ ~deleting

\* The controller accepts a new sandbox.
Accept ==
  /\ Active({"New"})
  /\ phase' = "Creating"
  /\ UNCHANGED <<restarts, retry, deleting>>

\* A pod is ready and the sandbox starts to run.
Start ==
  /\ Active({"Creating"})
  /\ phase' = "Running"
  /\ UNCHANGED <<restarts, retry, deleting>>

\* The controller gives up: nothing but a resume or a delete moves it again.
GiveUp ==
  /\ Active({"Creating", "Running"})
  /\ phase' = "Error"
  /\ UNCHANGED <<restarts, retry, deleting>>

\* The failure that exhausts the budget: no restart follows.
Exhaust ==
  /\ Active({"Running"})
  /\ restarts + 1 >= MaxRestartCount
  /\ phase' = "Error"
  /\ restarts' = MaxRestartCount
  /\ UNCHANGED <<retry, deleting>>

\* An infrastructure failure within the budget: a restart is scheduled.
Break ==
  /\ Active({"Running"})
  /\ restarts + 1 < MaxRestartCount
  /\ phase' = "Error"
  /\ retry' = TRUE
  /\ restarts' = restarts + 1
  /\ UNCHANGED deleting

\* The back-off elapsed: the controller restarts the sandbox by itself.
Restart ==
  /\ Active({"Error"})
  /\ retry
  /\ restarts < MaxRestartCount
  /\ phase' = "Creating"
  /\ retry' = FALSE
  /\ UNCHANGED <<restarts, deleting>>

\* A stable run gives the budget back.
Stabilize ==
  /\ Active({"Running"})
  /\ restarts' = 0
  /\ UNCHANGED <<phase, retry, deleting>>

Stop ==
  /\ Active({"Running"})
  /\ phase' = "Stopped"
  /\ UNCHANGED <<restarts, retry, deleting>>

\* The user's resume: from rest only, and it cancels a pending restart.
Resume ==
  /\ phase \in {"Stopped", "Error"}
  /\ phase' = "Creating"
  /\ retry' = FALSE
  /\ UNCHANGED <<restarts, deleting>>

Delete ==
  /\ phase # "Gone"
  /\ deleting' = TRUE
  /\ phase' \in {phase, "Gone"}
  /\ UNCHANGED <<restarts, retry>>

Vanish ==
  /\ deleting
  /\ phase' = "Gone"
  /\ UNCHANGED <<restarts, retry, deleting>>

Next ==
  \/ Accept \/ Start \/ GiveUp \/ Exhaust \/ Break \/ Restart \/ Stabilize
  \/ Stop \/ Resume \/ Delete \/ Vanish

Spec == Init /\ [][Next]_vars
=============================================================================
