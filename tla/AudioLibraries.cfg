SPECIFICATION Spec
CONSTANTS
  Outs = {"LOW_LATENCY", "MULTI_CH"}
  OutRoutes <- Profiles
  InDevices = {"BUILTIN_MIC", "WIRED_HEADSET"}
  Sources = {"MIC", "VOICE_COMMUNICATION"}
  ChannelMasks = {"MONO"}
  Modes = {"NORMAL", "IN_CALL"}
  TtyModes = {"OFF", "FULL"}
  DualMic = "none"
  Fluence = {}
  FxMixes = {{"eq"}, {"virt"}, {"aux_reverb"}, {"bass", "insert_reverb"}}
  FxOutputs = {o1, o2}
  FxNone = none
  Strengths = {0, 1}
  EqPresets <- MCEqPresets
  BandLevels <- MCBandLevels
  VisEffects = {v1, v2}
  VisOutputs = {o1, o2}
  VisNone = none
  CaptureBuf = 3
  CapturePeriod = 2
  CaptureSizes = {1, 2, 3}
  VolStreams = {music, ring}
  VolDevices = {{"speaker"}, {"headset"}}
  Volumes = {0, 1, 2, 5, 8}
  Unity = 8
  AmpTable <- MCAmpTable
  VoiceIds = {aec, ns}
  VoiceInputs = {i1, i2}
  VoiceRates = {8000, 16000}
INVARIANTS RefCountsUsers MixerFollowsUsecases DspFollows CaptureIsLatest GainFollowsVolume MasksFollowEffects
PROPERTY SwitchMovesAll
