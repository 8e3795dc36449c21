SPECIFICATION LiveGSpec
CONSTANTS
  t1 = t1  t2 = t2  k1 = k1  e1 = e1  e2 = e2  s1 = s1
  NoThread = NoThread  NoKernel = NoKernel  NoStream = NoStream  NoExec = NoExec
  Threads <- TwoThreads
  Kernels <- FewUnits
  BlocksOf <- FewBlocks
  Handles <- OneStream
  PerThreadHandles <- OneStream
  Policy = "gap"
  BeCount = 1
  TotalWindow = 2
  TotalBlockBudget = 6
  TotalTimeBudget = 24
  TotalInternalWindow = 2
  TotalInternalBudget = 12
  TotalPromotedWindow = 2
  TotalPromotedBudget = 24
  UnknownNs = 6
  TableSize = 4
  ProfileSamples = 1
  Durations <- Short
  Faults <- LaunchFails
  MaxLaunches = 9
  Execs <- OneExec
  GraphletsOf <- SplitOnly
  BuildMayFail = TRUE
  MaxCalls = 3
CHECK_DEADLOCK FALSE
INVARIANTS BoundaryHolds
PROPERTIES GraphletsAreCurrent GraphCallWaits GraphCallsReturn
