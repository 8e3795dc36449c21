SPECIFICATION GSpec
CONSTANTS
  t1 = t1  t2 = t2  k1 = k1  e1 = e1  e2 = e2  s1 = s1
  NoThread = NoThread  NoKernel = NoKernel  NoStream = NoStream  NoExec = NoExec
  Threads <- TwoThreads
  Kernels <- WholeUnits
  BlocksOf <- WholeBlocks
  Handles <- OneStream
  PerThreadHandles <- None
  Policy = "time_sum"
  BeCount = 1
  TotalWindow = 2
  TotalBlockBudget = 20
  TotalTimeBudget = 24
  TotalInternalWindow = 2
  TotalInternalBudget = 12
  TotalPromotedWindow = 2
  TotalPromotedBudget = 24
  UnknownNs = 6
  TableSize = 4
  ProfileSamples = 1
  Durations <- Short
  Faults <- None
  MaxLaunches = 9
  Execs <- OneExec
  GraphletsOf <- WholeOnly
  BuildMayFail = FALSE
  MaxCalls = 4
CHECK_DEADLOCK FALSE
INVARIANTS WholeGraphIsSingleton
