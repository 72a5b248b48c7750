SPECIFICATION FairSpec
CONSTANTS
  c1 = c1
  c2 = c2
  NoCore = NoCore
  Core <- Cores
  Quantum = 2
  NumHostCores = 1
  Configs <- LastConfigs
PROPERTY SleeperAlwaysWakes
CHECK_DEADLOCK FALSE
