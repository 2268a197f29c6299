SPECIFICATION MCSpec
CONSTANTS
  u1 = u1
  u2 = u2
  n1 = n1
  n2 = n2
  n3 = n3
  coder = coder
  agent = agent
  approved = approved
  other = other
  Users = {u1, u2}
  Names = {n1, n2, n3}
  Templates = {coder, agent}
  AgentTemplates = {agent}
  Images = {approved, other}
  Router = Router
  None = None
  Policies <- MCPolicies
  Orders <- MCOrders
  Admins = {u2}
  Requests = {r1, r2}
  Editors = {e1, e2}
  Interval = 2
  Retention = 2
  MaxTime = 4
  MaxFaults = 1
  MaxWarm = 1
SYMMETRY Symmetry
INVARIANTS OvershootIsAccounted SnapshotsKept
PROPERTIES  WritersKeepOthers
CHECK_DEADLOCK FALSE
