SPECIFICATION MCSpec
CONSTANTS
  Sessions = {1, 2}
  Dims = {0, 80, 65536}
  MaxResizes = 2
  Unset = Unset
INVARIANTS TerminalIsWhole
PROPERTIES SessionsEnd
CHECK_DEADLOCK FALSE
