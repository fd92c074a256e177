CONSTANTS
  AsyncKeys = {a, b}
  AsyncValues = {on, off}
  MaxQueue = 3
SPECIFICATION FairSpec
INVARIANT LastWins
PROPERTY ThreadTakesAll
CHECK_DEADLOCK FALSE
