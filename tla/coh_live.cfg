CONSTANTS
  c1 = c1
  c2 = c2
  c3 = c3
  v1 = v1
  NoCore = NoCore
  NoData = NoData
  Cache <- TwoCaches
  Value <- OneValue
  Protocol = "MESI"
  MaxHwSharers = 2
  MaxWaiters = 2
SPECIFICATION FairSpec
INVARIANT
  WokenWaiterHits
PROPERTY
  WaitersServed
