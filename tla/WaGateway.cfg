\* Two requests, bursts of two and three messages a minute of five ticks.
SPECIFICATION WaFairSpec
CONSTANTS
  Grain = 1
  Capacity = 2
  PerMinute = 3
  Minute = 5
  Callers = {c1, c2}
  Sockets = {k1, k2}
  NoSocket = NoSocket
  MaxReconnects = 1
  MaxRestarts = 1
INVARIANTS OneSocketAtATime GivenWithinLimits
PROPERTY RefusalsEnd
CHECK_DEADLOCK FALSE
