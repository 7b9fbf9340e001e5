\* Two channels on four ports: an image channel and PrvHst.
SPECIFICATION Spec
CONSTANTS
  NumChannels = 2
  MaxPort = 4
  Contested = {2}
INVARIANTS
  ForcedIsDistinct
  RetryIsEnough
PROPERTY AgreeAtStartStep
