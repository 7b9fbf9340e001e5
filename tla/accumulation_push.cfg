SPECIFICATION Spec
CONSTANTS
  MaxFrames = 4
  Sizes = {1}
  Counts = {2}
  MaxSum = 3
  MaxWritten = 3
INVARIANT PushedIsMean
