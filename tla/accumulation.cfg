\* Four frames of two sizes; sums that overflow, any writes and resets between.
SPECIFICATION Spec
CONSTANTS
  MaxFrames = 4
  Sizes = {1, 2}
  Counts = {2}
  MaxSum = 3
  MaxWritten = 3
INVARIANTS
  TypeOK
  RunningIsHistory
  BufferIsNewest
  CopyStaysInBounds
  ShownIsCurrent
PROPERTIES
  StreamedStep
