SPECIFICATION Spec
CONSTANTS
  CHUNKSIZE = 64
  MAX_HEAP = 400
  Sizes = {24, 56, 100}
  MaxLive = 3
  CopyOrders = {"forward"}
  Junk = Junk
INVARIANTS
  BoundaryTags
  FreeLists
  BlocksAreLive
  ClientDataIntact
  ReallocKeepsData
  CoalescedUntilRealloc
PROPERTIES
  GrowsOnlyWithoutFit
  AcceptedByDriver
