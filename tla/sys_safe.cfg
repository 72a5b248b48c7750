\* The barrier, the futexes and the schedulers.
SPECIFICATION SysSpec
CONSTANTS
  c1 = c1
  c2 = c2
  c3 = c3
  a1 = a1
  a2 = a2
  None = None
  NoCore = NoCore
  Core <- Cores
  Quantum = 2
  NumHostCores = 1
  Configs <- BarrierConfigs
SYMMETRY Symmetry
INVARIANTS
  SysTypeOK
  FutexWaitersKept
  NeverTwoOnACore
  EveryThreadRuns
  AssertionsHold
  NoLostRelease
  InStep
  ReleaseEnds
  OversleepBounded
PROPERTIES
  NobodyLeftBehind
