CONSTANTS
  NumFrames = 3
  Crypto = {1}
  Control = {3}
  MaxPings = 1
  MaxPacket = 15
  Cwnd = 2
  Nacks = 2
  MaxTlp = 1
  MaxRtoPackets = 2
  MaxMishaps = 2
SPECIFICATION Spec
INVARIANT AlarmSetIfNothingToSend
CHECK_DEADLOCK FALSE
