------------------------- MODULE MCSandboxLifecycle -------------------------
(* Instances of SandboxLifecycle for TLC. *)
EXTENDS SandboxLifecycle

\* The pool is empty: its pods went to other sandboxes.
EmptyPool ==
  /\ sb = NewSandbox /\ seen = NewSandbox /\ seenCurrent = TRUE
  /\ pods = [n \in Names |-> NoSuchPod] /\ podSeen = pods /\ vols = [n \in Names |-> "none"]
  /\ netpol = FALSE
  /\ pc = "idle" /\ loc = NewSandbox /\ locCurrent = FALSE /\ claimed = NoPod
  /\ hist = [home |-> NoPod, asked |-> FALSE]
  /\ faults = MaxFaults

\* Cold starts, with pods that end and users who annotate; or warm starts,
\* with pods that may only vanish.
Warm == \E p \in PoolPods : vols[p] # "none"

MCInit == Init \/ EmptyPool

MCNext ==
  /\ Next
  /\ Warm =>
       /\ \A n \in Names : pods'[n].st \in PodEnds => pods[n].st \in PodEnds
       /\ sb'.action = "stop" => sb.action = "stop" \/ hist'.asked
       /\ sb'.restarts < MaxRestartCount - 1

MCSpec == MCInit /\ [][MCNext]_vars
=============================================================================
