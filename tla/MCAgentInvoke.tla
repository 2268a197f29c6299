--------------------------- MODULE MCAgentInvoke ---------------------------
(* Instances of AgentInvoke for TLC.                                       *)
EXTENDS AgentInvoke

\* One request with a fault, or two invokes that compete without one.
MCInit ==
  /\ Init
  /\ LET Live == {c \in Calls : call[c].pc = "new"} IN
       \/ Cardinality(Live) = 1 /\ faults = 0
       \/ Live = Invokes /\ faults = MaxFaults

MCSpec == MCInit /\ [][Next]_vars /\ Fairness
=============================================================================
