SPECIFICATION LiveSpec
CONSTANTS
  t1 = t1
  t2 = t2
  h1 = h1
  h2 = h2
  Threads = {t1, t2}
  Hps = {h1, h2}
  NoHp = NoHp
  Workloads <- MainWorkloads
  Sizes <- OneBlock
  WindowSize = 3
  ProfileTime = 3
  SettleSamples = 3
  QuietRate = 1000
  ZeroTolerance = 1
  Patience = 2
  Initializer = 2
  RateMin = 3
  SlowCeiling = 4
  AvoidCeiling = 4
  UpperLimit = 6
  RateThreshold = 3
  ReprofileThreshold = 20
  MaxBuffered = 1
INVARIANTS RateHeld EstimateWithinReports
PROPERTIES LaunchesReturn ControlFollowsHp
