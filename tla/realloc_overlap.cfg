SPECIFICATION Spec
CONSTANTS
  CHUNKSIZE = 64
  MAX_HEAP = 400
  Sizes = {24, 56, 100}
  MaxLive = 3
  CopyOrders = {"forward", "backward"}
  Junk = Junk
INVARIANTS
  ReallocKeepsData
