SPECIFICATION SceneSpec
CONSTANTS
  None = None
  Empty = Empty
  Logins = 2
  Goroutine = {l1, l2, l3}
  MaxRotations = 1
  MaxLost = 1
  MaxExits = 1
  Casts = {{m1, m2}, {m1, handler}}
  Place = {library, elsewhere}
  Library = library
  Handler = handler
  Worker = worker
  MaxRows = 3
  MaxEvents = 2
INVARIANTS
  TokensInStep
  LinkedBaseKept
PROPERTIES
  GrantKept
  AccessReturns
  EndedGrantUnused
  TemplateReturns
CHECK_DEADLOCK FALSE
