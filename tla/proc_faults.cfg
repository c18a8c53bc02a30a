CONSTANTS
  VoltageSamples <- FewVoltages
  CurrentSamples <- SomeCurrents
  TemperatureSamples <- FewTemperatures
  Window = 1
  UvLimit = 2
  UvRecovery = 4
  OvRecovery = 6
  OvLimit = 8
  UtLimit <- MinusFour
  UtRecovery <- MinusTwo
  OtRecovery = 2
  OtLimit = 4
  LevelMa <- MCLevelMa
  LevelMs <- MCLevelMs
  CutoffMa = 10
  RecoveryMa = 2
  RecoveryMs = 3
  StressScale = 12
  Period = 1
SPECIFICATION FairSpec
INVARIANTS
  TypeOK
  RelaysSafe
  TripsInTime
PROPERTIES
  Released
  ClearsAfterDelay
