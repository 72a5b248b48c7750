\* Up to two applications, with every setting of the two options: one or two
\* at the start, a fork, two created threads, a restart of each.
CONSTANTS
  MaxApps = 2
  MaxCreated = 2
  MaxRuns = 1
  WorkersExit = FALSE
SPECIFICATION FairSpec
INVARIANT CountsExact
PROPERTY EndsForAReason
\* The simulation is over when m_done is signalled.
CHECK_DEADLOCK FALSE
