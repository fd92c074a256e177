CONSTANTS
  Tolerance = 2
  Period = 10
  Gaps = {10, 13}
  Staggers = {0, 1}
  MaxTriggers = 4
  MaxDelay = 2
SPECIFICATION Spec
INVARIANTS SamePicture NearestSlot OnceAndNoneLost
CHECK_DEADLOCK FALSE
