\* One application that creates two threads, with every setting of the two
\* options; any of its threads may call exit_group.
CONSTANTS
  MaxApps = 1
  MaxCreated = 2
  MaxRuns = 1
  WorkersExit = TRUE
SPECIFICATION FairSpec
PROPERTIES SimulationEnds
\* The simulation is over when m_done is signalled.
CHECK_DEADLOCK FALSE
