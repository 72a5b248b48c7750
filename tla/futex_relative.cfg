\* Three threads, two futexes; the simulation starts late on the emulated clock.
CONSTANTS
  t1 = t1
  t2 = t2
  t3 = t3
  a1 = a1
  a2 = a2
  NoThread = NoThread
  Thread <- Threads
  Addr <- Addrs
  MaxValue = 1
  Ops <- WakeOps
  Delays = {1}
  MaxTime = 5
  Width = 16
  TimeStart = 24
  MaxStores = 1
SPECIFICATION Spec
INVARIANT WaitsAsAsked
SYMMETRY Symmetry
\* All threads may wait for a wake-up that the application never sends.
CHECK_DEADLOCK FALSE
