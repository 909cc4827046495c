SPECIFICATION Spec
CONSTANTS
  player = player
  other = other
  Clients = {player, other}
  Offload = offload
  NoThread = none
  Calls <- RoutingElsewhere
  MayFail = {}
  MaxCmds = 1
INVARIANTS NoLockCycle
