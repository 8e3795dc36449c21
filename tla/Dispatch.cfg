SPECIFICATION LiveSpec
CONSTANTS
  t1 = t1  t2 = t2
  Threads <- TwoThreads
  Manager = Manager
  Pointers = {p1, p2}
  SizeOf <- OneAndTwo
  MaxRecords = 2
  MaxStreams = 2
  Setups <- AllSetups
CHECK_DEADLOCK FALSE
INVARIANTS LaunchesAreHooked KindPreserved HooksPaired NoCallThroughNull HpOutranksBe MemoryAccounted
PROPERTIES CallsReturn
