CONSTANTS
  CountModulus = 4
  PacketPairs = 2
  FftSize = 4
  QueueLimit = 1
  FirstTime = 1
  Silence = 1
  Bounds <- Restart
SPECIFICATION Spec
INVARIANT ValidWindowsContiguous
