SPECIFICATION SceneSpec
CONSTANTS
  Writer = {w1, w2}
  Flusher = {f1, f2}
  Room = 1
  MaxChunks = 2
  Run = {r1, r2, r3}
  MaxListeners = 2
  MaxChanges = 3
  Loop = {l1, l2}
  MaxWatchers = 2
  MaxSaves = 2
  MaxArrivals = 3
  Ssh = {s}
  Host = {h}
  Socket = {k1, k2}
  MaxSockets = 3
INVARIANT OutputStored
PROPERTIES
  OutputStreamEnds
  HubOneStream
  LiveConverges
  TerminalEndsOnce
CHECK_DEADLOCK FALSE
