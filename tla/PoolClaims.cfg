SPECIFICATION Spec
CONSTANTS
  t1 = t1
  Templates = {t1}
  Sandboxes = {s1, s2}
  PodNames = {p1, p2, p3}
  None = None
  MaxDesired = 2
  Configs <- TwoThenOff
  MaxAttempts = 2
  MaxFaults = 1
  MaxEdits = 2
SYMMETRY Symmetric
INVARIANTS ClaimedOnce LivePodsKeepVolumes 
CHECK_DEADLOCK FALSE
