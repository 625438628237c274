SPECIFICATION TokensSpec
CONSTANTS
  Empty = Empty
  Logins = 2
  Goroutine = {l1, l2, l3}
  MaxRotations = 1
  MaxLost = 0
  MaxExits = 0
PROPERTY
  SignInAgainRestores
CHECK_DEADLOCK FALSE
