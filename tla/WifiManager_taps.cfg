SPECIFICATION Spec
CONSTANTS
  Ssids = {a, b}
  Copies = 2
  MaxTurns = 1
  Workers = {w1, w2}
  MaxTaps = 2
  None = None
INVARIANT ShowsTheDevice
PROPERTY NothingStale
CHECK_DEADLOCK FALSE
