-------------------------- MODULE MCAgentConfigure --------------------------
(* Instances of AgentConfigure for TLC.                                    *)
EXTENDS AgentConfigure

CONSTANTS q3, v1, v2, i1, e1

\* A file and an install, the file changed, an entrypoint alone.
MCInputs ==
  {[files |-> [p \in Paths |-> v1], install |-> i1, entry |-> Absent],
   [files |-> [p \in Paths |-> v2], install |-> i1, entry |-> Absent],
   [files |-> [p \in Paths |-> Absent], install |-> Absent, entry |-> e1]}

\* Two requests side by side, with a fault and the controller between, or three
\* one after the other.
MCInit ==
  /\ ConfigureInit /\ ~rest
  /\ spec \in {[agent |-> TRUE, cap |-> 0, ceiling |-> 1, allowed |-> TRUE],
              [agent |-> FALSE, cap |-> 0, ceiling |-> 1, allowed |-> TRUE]}
  /\ \A q \in Configures \ {q3} : conf[q].pc = "new"
  /\ conf[q3].pc = "done" => input[q3].entry # Absent /\ spec.agent

MCNext ==
  /\ ConfigureNext
  /\ spec'.allowed => spec.allowed
  /\ (\A q \in Configures : conf[q].alone) =>
       /\ \A q \in Configures : conf'[q].alone
       /\ upsets' = 0 /\ rest' = rest

MCSpec == MCInit /\ [][MCNext]_configureVars /\ \A q \in Configures : WF_configureVars(Step(q))
=============================================================================
