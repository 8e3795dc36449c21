SPECIFICATION LiveSpec
CONSTANTS
  Unset = Unset
  Thresholds <- TwoBuckets
  Top = 127
  GapMinSamples = 2
  Environments <- ThreePolicies
  Costs <- LaunchCosts
  Loads <- InFlight
  TickLength = 8
  MaxTime = 48
  LastCall = 32
  MaxPeriods = 2
CHECK_DEADLOCK FALSE
INVARIANTS StatisticsExact LimitsAsAdmissionExpects OddsAreConservative
PROPERTIES RequestsAreAdmitted
