SPECIFICATION Spec
CONSTANTS
  player = player
  other = other
  Clients = {player, other}
  Offload = offload
  NoThread = none
  Calls <- OneOwner
  MayFail <- AnyFailure
  MaxCmds = 1
INVARIANT DeviceOutlivesCall
PROPERTIES FlushIsQuiet CallsReturn
