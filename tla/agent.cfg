SPECIFICATION AgentSpec
CONSTANTS
  Name = {n1, n2, n3}
  Foreign = {f1, f2}
  Creator = {c1, c2}
  Discover = {d}
  Import = {i}
  MaxOutside = 4
  Prefixed = TRUE
  Writer = {1, 2, 3}
  File = {1, 2}
  Overlap = 2
  WriterOps = {"put", "flag", "paths", "setup", "restore", "restart"}
  Actor = {1, 2, 3}
  Tokens = 2
  Kept = 1
  MaxKeys = 3
  Proc = {1, 2, 3}
  MaxLaunch = 2
  Faults = {"spawn", "kill", "quit"}
  MaxFaults = 1
PROPERTIES
  RegistrySafe
  RegistryConverges
  ConfigAgrees
  KeysAccepted
  KeysReaped
  HandoffOneServer
CHECK_DEADLOCK FALSE
