SPECIFICATION SceneSpec
CONSTANTS
  Client = {c1}
  RingMin = 1
  Backlog = 1
  MaxEvents = 3
  MaxBreaks = 2
  MaxExits = 1
  Device = {d1}
  Code = {k1}
  Silent = {s1}
  Account = {a, b}
  Admitted = {b}
  Kept = 1
  MaxSignIns = 2
  MaxIncidents = 1
  Nobody = Nobody
INVARIANTS
  Delivery
  SignInLeavesNothing
PROPERTIES
  CaughtUp
  SignInCompletes
CHECK_DEADLOCK FALSE
