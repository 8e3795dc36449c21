SPECIFICATION LiveSpec
CONSTANTS
  t1 = t1  t2 = t2  k1 = k1  k2 = k2  s1 = s1  s2 = s2
  NoThread = NoThread  NoKernel = NoKernel  NoStream = NoStream
  Threads <- TwoThreads
  Kernels <- TwoKernels
  BlocksOf <- Blocks
  Handles <- OneStream
  PerThreadHandles <- None
  Policy = "survival"
  BeCount = 2
  TotalWindow = 5
  TotalBlockBudget = 20
  TotalTimeBudget = 24
  TotalInternalWindow = 2
  TotalInternalBudget = 12
  TotalPromotedWindow = 6
  TotalPromotedBudget = 32
  UnknownNs = 6
  TableSize = 1
  ProfileSamples = 3
  Durations <- ShortLong
  Faults <- WaitFaults
  MaxLaunches = 4
INVARIANTS DeviceWithinLimits UnseenEntersEmptyWindow
PROPERTIES EveryCallReturns
