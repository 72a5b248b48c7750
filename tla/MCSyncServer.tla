---------------------------- MODULE MCSyncServer ----------------------------
(***************************************************************************)
(* What waiting threads may hope for: SyncServer with three threads, two   *)
(* mutexes and one condition, and the barrier with two threads, of which   *)
(* one spawns the other.  part, chosen initially, says which of the two    *)
(* runs; the other stays in its initial state.                             *)
(***************************************************************************)
EXTENDS SyncServer

CONSTANTS t1, t2, t3, m1, m2, c1

Threads == {t1, t2, t3}
Mutexes == {m1, m2}
Conds == {c1}

BarrierConfigs ==
  {[initial |-> {t1}, maxTime |-> 4, steps |-> {1, 2}, sleeps |-> {1, 2},
    calls |-> {"stall", "spawn"}, roi |-> "none"]}

VARIABLES
  part,
  config, barStatus, pc, elapsed, wakeup, nextSync, localClock, acquired, toRelease,
  nextBarrier, globalTime, fastforward, disabled, sleeping, lock

B == INSTANCE BarrierSync WITH
       Core <- {t1, t2}, NoCore <- NoThread, Quantum <- 2, NumHostCores <- 1,
       Configs <- BarrierConfigs, status <- barStatus

barVars == <<config, barStatus, pc, elapsed, wakeup, nextSync, localClock, acquired, toRelease,
             nextBarrier, globalTime, fastforward, disabled, sleeping, lock>>
syncVars == <<part, vars, barVars>>

SyncInit == part \in {"sync", "barrier"} /\ Init /\ B!Init

SyncNext ==
  \/ part = "sync" /\ Next /\ UNCHANGED <<part, barVars>>
  \/ part = "barrier" /\ B!Next /\ UNCHANGED <<part, vars>>

\* Each component is scheduled as its module says.
SyncSpec ==
  /\ SyncInit /\ [][SyncNext]_syncVars
  /\ \/ part = "sync" /\ Fairness
     \/ part = "barrier" /\ B!Fairness

\* A thread that waits in the barrier leaves it, and one that sleeps wakes up as
\* long as another thread runs.
NobodyLeftInBarrier == B!BarrierLeft /\ B!SleeperWakes
=============================================================================
