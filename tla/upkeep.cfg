SPECIFICATION UpkeepSpec
CONSTANTS
  Scenes = {"rotation", "power", "provision"}
  Hour = 2
  Day = 2
  Week = 2
  Interval = 2
  Keep = 1
  MaxAge = 3
  Named = {"own"}
  MaxClock = 5
  MaxRows = 2
  MaxPosts = 1
  Request = {q1, q2, q3}
  Calls = {"start", "stop", "restart", "suspend", "pause", "resume", "reset", "put", "clear", "apply"}
  MaxVerbs = 1
  MaxOutside = 1
  Runs = {"provision", "provisioners", "narrowed", "sync", "syncback"}
SYMMETRY RequestSymmetry
INVARIANTS
  PowerEditKept
  ProvisionStampLast
PROPERTIES
  SnapshotRotationSingle
  PowerBootsApplied
  ProvisionDocumentOrder
CHECK_DEADLOCK FALSE
