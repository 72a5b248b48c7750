\* Coherence, DRAM and NUCA, network, directory cache and locks, one after another.
SPECIFICATION MemSpec
CONSTANTS
  c1 = c1
  c2 = c2
  c3 = c3
  v1 = v1
  NoCore = NoCore
  NoData = NoData
  DirAddr = {"a", "b", "c"}
  MaxSharers = 2
  MaxReqs = 2
  NoAddr = NoAddr
  DirConfigs <- OneOrTwoWays
  LockConfigs <- ThreeLocks
  Nobody = 0
SYMMETRY Symmetry
INVARIANTS
  MemTypeOK
  SingleWriter
  DirectoryPrecise
  
  
  NobodyStuck
  SetSound
  Excludes
