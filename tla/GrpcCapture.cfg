SPECIFICATION GrpcSpec
CONSTANTS
  DisplaySizes <- TwoSizes
  Options <- TwoOptions
  MaxBytes = 5
  MaxEncoders = 3
  MaxFrames = 3
  MaxUnits = 3
\* The session ends closed.
CHECK_DEADLOCK FALSE
INVARIANTS
  ReaderDecodes
  EncoderFitsImage
  NoImageStranded
  ClosedLeavesNothing
