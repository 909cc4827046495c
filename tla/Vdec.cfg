SPECIFICATION Spec
CONSTANTS
  InBuffers = {i1}
  OutBuffers = {o1}
  Commands <- DecoderCommands
  MayFail = {"start", "stop", "pause", "resume", "flush", "empty", "fill", "buffer_req", "status", "bitstream"}
  Sizes = {0, 1}
  MAX_INPUT_ERROR = 1
  MaxQueued = 1
  MaxUnacked = 1
INVARIANTS
  OneOwner
  DriverBuffersFit
PROPERTIES
  KeepsContract
  FlushesEnd
  CommandCompletes
CHECK_DEADLOCK FALSE
