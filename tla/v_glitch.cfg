CONSTANTS
  VoltageSamples <- FewVoltages
  CurrentSamples <- FewCurrents
  TemperatureSamples <- FewTemperatures
  Window = 1
  UvLimit = 2
  UvRecovery = 4
  OvRecovery = 6
  OvLimit = 8
  UtLimit <- MinusFour
  UtRecovery <- MinusTwo
  OtRecovery = 2
  OtLimit = 4
  LevelMa <- MCLevelMa
  LevelMs <- MCLevelMs
  CutoffMa = 10
  RecoveryMa = 2
  RecoveryMs = 2
  StressScale = 12
  Period = 1
SPECIFICATION Spec
INVARIANT SecureUntilNominal
