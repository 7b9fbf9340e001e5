\* Continuous acquisition: only the port thread ends it, or asyn's shutdown of the
\* port at the exit of the IOC. Serval answers or closes.
SPECIFICATION ShutdownSpec
CONSTANTS
  NumChannels = 2
  Port = port
  Callbacks = {c1, c2}
  Workers = {w1, w2, w3}
  w1 = w1
  w2 = w2
  w3 = w3
  ChannelOf <- TwoHstWorkers
  NoThread = none
  SelfEnding = FALSE
  FrameCap = 2
INVARIANTS
  OneReader
  NoThreadLost
  OffIsQuiet
  ClosedBeforeStop
  DownIsQuiet
PROPERTY PortReturns
