SPECIFICATION Spec
CONSTANTS
  FrameIds = {1, 2, 3, 4}
  Users = {"jni", "tool"}
  Millis = {1, 250, 4901}
  Settings <- MCSettings
  FwTypes <- MCFwTypes
  FwFiles <- MCFwFiles
  EventKinds = {"rdOn", "fieldOn", "exception"}
  Lists <- MCLists
  MaxCalls = 4
  MaxSide = 1
  MaxFaults = 2
  MaxEvents = 1
CHECK_DEADLOCK FALSE
INVARIANTS CallbackFindsFrame StackMatchesService TimeoutHonoured WaitAnswered

