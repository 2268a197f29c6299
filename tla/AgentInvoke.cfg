SPECIFICATION MCSpec
CONSTANTS
  Replicas = {r1}
  Invokes = {i1, i2}
  Execs = {e1}
  Caps = {1}
  None = None
  MaxFaults = 1
INVARIANTS SlotsHold CompletedMeansExited
 
CHECK_DEADLOCK FALSE
