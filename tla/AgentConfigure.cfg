SPECIFICATION MCSpec
CONSTANTS
  Configures = {q1, q2, q3}
  Inputs <- MCInputs
  Paths = {p1}
  Contents = {v1, v2}
  Commands = {i1}
  Entries = {e1}
  Ceilings = {1, 2}
  q3 = q3
  v1 = v1
  v2 = v2
  i1 = i1
  e1 = e1
  Absent = Absent
  MaxUpsets = 1
 
PROPERTIES  ControllerStatusKept ConfigureEnds
CHECK_DEADLOCK FALSE
