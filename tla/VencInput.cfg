SPECIFICATION Spec
CONSTANTS
  Codecs = {"MPEG4", "H263", "H264"}
  Frames <- MCFrames
  FrameRates <- MCFrameRates
  Bitrates <- MCBitrates
  Counts = {2, 9}
  MinCount = 2
  MaxCount = 8
  MaxIoctl = 10
  MaxCalls = 3
  MaxFaulty = 2
  MaxHeaders = 2
  Sources = {s1, s2}
  Dests = {d1, d2}
  NoFrame = NoFrame
  FrameKinds <- EveryFrame
  MayFlush = TRUE
  MayFail = {"open", "convert", "use_buf", "empty"}
  MaxFaults = 1
INVARIANTS LayersAgree LevelCoversStream HeaderOkMeansStopped FramesInOrder
CHECK_DEADLOCK FALSE
