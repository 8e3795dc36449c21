SPECIFICATION LiveSpec
CONSTANTS
  h1 = h1  h2 = h2  b1 = b1  b2 = b2
  NoOwner = NoOwner
  Hps <- OneHp
  Bes <- TwoBes
  MaxSegments = 2
  MaxCopies = 2
  MayCrash <- AnyOf1
  MayExit <- OneHp
  MayOverlap <- None
  MayFailOpen <- Failing
CHECK_DEADLOCK FALSE
INVARIANTS PublicationKept
PROPERTIES BeReleased NoPassWhileActive
