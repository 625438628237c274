SPECIFICATION UpkeepSpec
CONSTANTS
  Scenes = {"provision"}
  Hour = 2
  Day = 2
  Week = 2
  Interval = 2
  Keep = 1
  MaxAge = 3
  Named = {"own"}
  MaxClock = 6
  MaxRows = 2
  MaxPosts = 1
  Request = {q1}
  Calls = {"start", "stop", "restart", "suspend", "pause", "put", "clear", "apply"}
  MaxVerbs = 1
  MaxOutside = 1
  Runs = {"provision", "provisioners", "narrowed", "sync", "syncback"}
PROPERTY ClaimCancelStopsRun
CHECK_DEADLOCK FALSE
