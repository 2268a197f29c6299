------------------------ MODULE MCTerminalSessions ------------------------
(* Instances of TerminalSessions for TLC.                                  *)
EXTENDS TerminalSessions

\* One session with all its resizes, or two without: the second is a browser
\* that reconnects when the Router is done with the first.
MCInit ==
  /\ SessionInit
  /\ LET New == {k \in Sessions : ses[k].pc = "new"} IN
       \/ New = Sessions /\ \A k \in New : ses[k].resizes = MaxResizes
       \/ New = {1} /\ ses[1].resizes = 0
  /\ \A k \in Sessions : ses[k].pc = "refused" => ses[k].resizes = 0

OneAtATime ==
  /\ Cardinality(registered') <= 1
  /\ ses[1].pc = "new" => ses'[2] = ses[2]

MCSpec == MCInit /\ [][SessionNext /\ OneAtATime]_sessionVars /\ SessionFairness
=============================================================================
