SPECIFICATION RuntimeSpec
CONSTANTS
  ObjWords = 2
  Fds = {1, 2, 3}
  Names = {"a", "b"}
  Writers = {"a"}
  BinderUses = {"BINDER"}
  Lengths <- MCLengths
  MaxWords = 6
  MaxBad = 2
  MaxCalls = 4
  Systems <- MCSystems
  MaxOpens = 4
  MaxUnlucky = 3
CHECK_DEADLOCK FALSE
INVARIANTS HeldOnce ObjectsFound CountsAreUsers BindingsReady
