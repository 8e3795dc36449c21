SPECIFICATION Spec
CONSTANTS
  t1 = t1  t2 = t2  k1 = k1  k2 = k2  s1 = s1  s2 = s2
  NoThread = NoThread  NoKernel = NoKernel  NoStream = NoStream
  Threads <- TwoThreads
  Kernels <- TwoKernels
  BlocksOf <- Blocks
  Handles <- TwoStreams
  PerThreadHandles <- SecondStream
  Policy = "time_sum"
  BeCount = 2
  TotalWindow = 5
  TotalBlockBudget = 20
  TotalTimeBudget = 24
  TotalInternalWindow = 2
  TotalInternalBudget = 12
  TotalPromotedWindow = 6
  TotalPromotedBudget = 24
  UnknownNs = 7
  TableSize = 1
  ProfileSamples = 2
  Durations <- Short
  Faults <- EventFaults
  MaxLaunches = 4
SYMMETRY Symmetry
INVARIANTS TypeOK RingAccounting WorkIsTracked SamplesAreExact AtMostOneEscape
PROPERTIES KeepsPromise
