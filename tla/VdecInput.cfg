CONSTANTS
  Kinds <- MCKinds
  Resolutions = {1, 2}
  Alignment = 16
  ExtraSize <- MCExtraSize
  HdrSize = 1
  MinIn = 1
  MinOut = 1
  MaxCount = 2
  Options <- MCOptions
  MaxCall = 6
  MaxSet = 2
  MaxRounds = 2
  StreamOf <- MCStreamOf
  ClientBufs = {i1, i2}
  DecBufs = {d1, d2}
  NoBuf = NoBuf
  Chunks = {1, 2, 3, 4, 5, 7, 11}
  MaxFlushes = 1
SPECIFICATION InputSpec
INVARIANTS DriverAgrees NothingLost ExtradataFits StreamFramed
