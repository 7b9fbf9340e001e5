SPECIFICATION Spec
CONSTANTS
  NumChannels = 2
  Port = port
  Callbacks = {c1}
  Workers = {w1, w2, w3}
  w1 = w1
  w2 = w2
  w3 = w3
  ChannelOf <- TwoHstWorkers
  NoThread = none
  SelfEnding = TRUE
  FrameCap = 1
INVARIANT NoDoubleJoin
CHECK_DEADLOCK FALSE
SYMMETRY HstSymmetry
