CONSTANTS
  HeaderSize = 2
  MaxPayload = 1
  RecvSize = 3
  MaxRead = 2
  MaxWrite = 3
  SndSize = 3
  Threshold = 2
  MessageSize = 2
  UpdateSize = 1
  Rate = 1
  Burst = 2
  Cost = 2
  Interval = 2
  TimeoutTicks = 3
  MaxStall = 1
  MaxInputs = 2
  MaxTime = 3
SPECIFICATION ConnectionSpec
INVARIANTS
  FramesExact
  StreamExact
  RateBounded
  OnlySilenceTimesOut
CHECK_DEADLOCK FALSE
