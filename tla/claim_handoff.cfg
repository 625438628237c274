SPECIFICATION FairSpec
CONSTANTS
  Proc = {1, 2, 3}
  MaxLaunch = 2
  MaxKeys = 1
  Faults = {}
PROPERTY AgentBack
CHECK_DEADLOCK FALSE
