SPECIFICATION MCSpec
CONSTANTS
  Gop = 3
  WidePhase = 2
  DropWindow = 32
  MaxConnections = 2
  MaxFrames = 4
  MaxSkip = 1
  EncoderDepth = 2
  Swallows = TRUE
  LargeSegments = TRUE
INVARIANTS
  NoMixedConnections
  MissIsStale
  PredictionTrue
  GateIsServed
PROPERTIES
  HeadIsDualIdr
  ServerGetsAStream
  DecodeChain
CHECK_DEADLOCK FALSE
