CONSTANTS
  RGBPipes = 2
  VGPipes = 2
  Scenarios <- MCScenarios
  MaxLayers = 3
  MaxFailures = 1
  sMaxPipesPerMixer = 4
  CbLayers <- MCLayers
  CbDests <- MCDests
  MaxSurfaces <- MCMax
  MaxBlits = 3
  MaxDrawn = 3
  MaxFaults = 1
SPECIFICATION DisplaySpec
INVARIANTS FrameComplete BlitsAreRight WaiterServes
PROPERTY UsesPipeBook
