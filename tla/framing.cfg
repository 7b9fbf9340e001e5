\* Every way recv() can cut five frames of three pixels; the buffer can overrun.
SPECIFICATION FairSpec
CONSTANTS
  NumFrames = 5
  NumPixels = 3
  BufferSize = 5
INVARIANTS
  TypeOK
  PixelsInPlace
  NoGaps
  SeparateIsExact
PROPERTIES
  RefinesFrameOrder
  SeparateIsComplete
CHECK_DEADLOCK FALSE
