\* Acquisitions that Serval may end by itself: the callback thread then runs
\* acquireStop beside the port thread. A suspended thread or a crashed worker
\* really stops the system.
SPECIFICATION Spec
CONSTANTS
  NumChannels = 2
  Port = port
  Callbacks = {c1}
  Workers = {w1, w2}
  w1 = w1
  w2 = w2
  w3 = w3
  ChannelOf <- TwoImgWorkers
  NoThread = none
  SelfEnding = TRUE
  FrameCap = 0
INVARIANTS
  ConnectedHasReader
CHECK_DEADLOCK FALSE
SYMMETRY ImgSymmetry
