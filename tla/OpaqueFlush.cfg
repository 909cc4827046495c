SPECIFICATION OpqSpec
CONSTANTS
  Sources = {s1, s2, s3}
  Dests = {d1, d2}
  NoFrame = NoFrame
  FrameKinds <- RgbaFrames
  MayFlush = TRUE
  MayFail = {}
  MaxFaults = 0
PROPERTIES
  FlushReturnsQueue
CHECK_DEADLOCK FALSE
