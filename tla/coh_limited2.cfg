CONSTANTS
  c1 = c1
  c2 = c2
  c3 = c3
  v1 = v1
  NoCore = NoCore
  NoData = NoData
  Cache <- ThreeCaches
  Value <- OneValue
  Protocol = "MSI"
  MaxHwSharers = 2
  MaxWaiters = 1
SPECIFICATION Spec
SYMMETRY Symmetry
INVARIANT
  DirectoryAssertionsHold
