SPECIFICATION Spec
CONSTANTS
  t1 = t1  t2 = t2  s1 = s1  s2 = s2  pt = pt
  NoThread = NoThread  Watcher = Watcher
  Threads <- TwoThreads
  Handles <- AllHandles
  PerThreadHandles <- DefaultOnly
  NSlots = 1
  Setups <- DefaultSetups
  MaxCalls = 2
CHECK_DEADLOCK FALSE
INVARIANTS NoIdleWhileWorking
