SPECIFICATION Spec
CONSTANTS
  i1 = i1
  o1 = o1
  InBuffers = {i1}
  OutBuffers = {o1, o2}
  Scenarios <- MCScenarios
INVARIANTS
  OneOwner
PROPERTIES
  KeepsContract
  CommandCompletes
CHECK_DEADLOCK FALSE
