\* Three threads, two mutexes, one condition and a barrier entered twice; the
\* barrier of the simulated cores with two of them.
CONSTANTS
  t1 = t1
  t2 = t2
  t3 = t3
  m1 = m1
  m2 = m2
  c1 = c1
  NoThread = NoThread
  NoMutex = NoMutex
  Thread <- Threads
  Mutex <- Mutexes
  Cond <- Conds
  MaxEpisodes = 2
SPECIFICATION SyncSpec
INVARIANTS ReturnsAsOwner WaitersSound BarrierSeparates
PROPERTIES WaitersReturn NobodyLeftInBarrier
\* All threads may wait for a signal that the application never sends, and the
\* simulated time of the barrier is bounded.
CHECK_DEADLOCK FALSE
