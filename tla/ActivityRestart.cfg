SPECIFICATION LiveSpec
CONSTANTS
  h1 = h1  h2 = h2  b1 = b1  b2 = b2
  NoOwner = NoOwner
  Hps <- TwoHps
  Bes <- OneBe
  MaxSegments = 2
  MaxCopies = 1
  MayCrash <- None
  MayExit <- TwoHps
  MayOverlap <- None
  MayFailOpen <- None
CHECK_DEADLOCK FALSE
PROPERTIES ZeroMeansNoHp
