SPECIFICATION MCSpec
CONSTANTS
  PoolPods = {p1}
  Own = own
  NoPod = none
  KubectlActions = {"stop"}
  PodEnds = {"FailedInfra", "FailedApp", "Succeeded"}
  MaxRestartCount = 3
  MaxFaults = 1
INVARIANTS StoppedReleasesPods IsolatedWhenRunning RunsOnOwnedPod
PROPERTIES FollowsPhases QuietStopIsFinal
CHECK_DEADLOCK FALSE
