SPECIFICATION LiveSpec
CONSTANTS
  PoolPods = {}
  Own = own
  NoPod = none
  KubectlActions = {}
  PodEnds = {"FailedInfra", "FailedApp"}
  MaxRestartCount = 2
  MaxFaults = 1
  PollDelay = 3
  StableWindow = 2
  RestartLimit = 2
  IdleTimeouts = {0, 2}
  MaxRuntimes = {0, 4}
  LastTick = 9
  NoTime = NoTime
INVARIANTS StopsOnTime RestartsCount
PROPERTIES TimersFollowPhases DeletionCompletes AnnouncedRestartHappens 
CHECK_DEADLOCK FALSE
