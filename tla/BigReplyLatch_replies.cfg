CONSTANTS
  Warmup = 2
  Fade = 2
  MaxFrames = 5
  MaxSequences = 1
SPECIFICATION Spec
INVARIANTS AnswerIsSound OneFate HoldEnds
CHECK_DEADLOCK FALSE
