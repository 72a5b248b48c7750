------------------------ MODULE BarrierSyncDetailed -------------------------
(***************************************************************************)
(* The second layer of the invariant holds while the simulation stays in   *)
(* detailed mode: a core outside the barrier has not reached it.           *)
(***************************************************************************)
EXTENDS BarrierSyncFacts

\* A barrier is at a multiple of the quantum.
AtQuantum(t) == \E k \in Nat : t = k * Quantum

Detailed ==
  /\ ~fastforward /\ ~disabled
  /\ \A c \in Core : c \notin acquired => localClock[c] < nextBarrier
  /\ \A c \in Core : nextSync[c] <= nextBarrier
  /\ \A c \in Core : pc[c] = "synced" => elapsed[c] < nextBarrier
  /\ AtQuantum(nextBarrier)
  /\ ResumesSomeCore

DetailedInv == DetailedOnly => Detailed

\* Barriers are a quantum apart, and a core short of one synchronizes there.
LEMMA QuantumFacts ==
  ASSUME NEW n \in Nat, AtQuantum(n)
  PROVE  /\ AtQuantum(n + Quantum)
         /\ \A t \in Nat : t < n => NextSyncAfter(t) <= n
<1>1. PICK k \in Nat : n = k * Quantum
  BY DEF AtQuantum
<1>2. Quantum \in Nat
  BY BarrierConstants
<1>3. n + Quantum = (k + 1) * Quantum
  BY <1>1, <1>2
<1>4. k + 1 \in Nat
  OBVIOUS
<1>5. \A t \in Nat : t < n => NextSyncAfter(t) <= n
  BY <1>1, NextSyncType
<1> QED BY <1>3, <1>4, <1>5 DEF AtQuantum

\* In detailed mode no call changes the mode.
LEMMA NoScripts ==
  ASSUME TypeOK, DetailedOnly
  PROVE  "roi" \notin config.calls /\ "script" \notin config.calls
BY BarrierConstants DEF TypeOK, DetailedOnly

\* The steps that leave the barrier alone keep the second layer.
LEMMA SmallStepsDetailed ==
  ASSUME BarrierInv, Detailed, NEW c \in Core, NEW o \in Core,
         \/ \E d : Execute(c, d)
         \/ LeaveBarrier(c) \/ Resume(c, o) \/ LeaveStall(c) \/ ReadWakeTime(c)
         \/ Unblock(c) \/ Spawn(c, o)
  PROVE  Detailed'
<1>l. lock # NoCore => lock \in Core /\ pc[lock] \in ReleasePlaces \cup {"stalling", "aborted"}
  BY LockPlace, Types DEF BarrierInv
<1>1. ASSUME NEW d, Execute(c, d) PROVE Detailed'
  BY <1>1 DEF Execute, BarrierInv, Detailed, ResumesSomeCore, server
<1>2. CASE LeaveBarrier(c)
  <2>1. NextSyncAfter(elapsed[c]) <= nextBarrier
    BY <1>2, QuantumFacts, Types DEF LeaveBarrier, BarrierInv, Detailed, ResumesSomeCore, server
  <2> QED BY <1>2, <2>1 DEF LeaveBarrier, BarrierInv, Detailed, ResumesSomeCore, server
<1>3. CASE Resume(c, o)
  BY <1>3 DEF Resume, SignalThread, BarrierInv, Detailed, ResumesSomeCore, server
<1>4. CASE LeaveStall(c)
  BY <1>4, SkipFacts DEF LeaveStall, BarrierInv, Detailed, ResumesSomeCore, server
<1>5. CASE ReadWakeTime(c)
  BY <1>5, <1>l DEF ReadWakeTime, ReleasePlaces, BarrierInv, Detailed, ResumesSomeCore, server
<1>6. CASE Unblock(c)
  BY <1>6, SkipFacts DEF Unblock, BarrierInv, Detailed, ResumesSomeCore, server
<1>7. CASE Spawn(c, o)
  BY <1>7 DEF Spawn, BarrierInv, Detailed, ResumesSomeCore, server
<1> QED BY <1>1, <1>2, <1>3, <1>4, <1>5, <1>6, <1>7

\* A thread that starts takes a core out of the list, which is behind the barrier.
LEMMA StartDetailed ==
  ASSUME BarrierInv, Detailed, NEW c \in Core, Start(c)
  PROVE  Detailed'
<1>1. PICK R \in SUBSET toRelease :
        /\ toRelease' = toRelease \ R
        /\ pc' = [SignalBarrier(pc, R) EXCEPT ![c] = "run"]
  BY Zenon DEF DoRelease, BarrierInv, Start, Detailed
<1>2. \A o \in Core : pc'[o] = IF o = c THEN "run" ELSE IF o \in R THEN "synced" ELSE pc[o]
  BY <1>1, Types, BarrierPlaces, Zenon DEF SignalBarrier, Places, BarrierInv
<1>3. \A o \in Core \ {c} : elapsed'[o] = elapsed[o]
  BY DEF BarrierInv, Start, Detailed
<1>4. \A o \in Core : pc'[o] = "synced" => elapsed'[o] < nextBarrier
  BY <1>2, <1>3 DEF ClocksReported, BarrierInv, Start, Detailed
<1> QED BY <1>4 DEF ResumesSomeCore, BarrierInv, Start, Detailed

\* The loop of stallThread keeps the second layer.
LEMMA StallLoopDetailed ==
  ASSUME BarrierInv, Detailed, NEW c \in Core, StallLoop(c)
  PROVE  Detailed'
<1>1. CASE ~AnyThreadRunning(status)
  BY <1>1, Types DEF BeginRelease, ResumesSomeCore, BarrierInv, StallLoop, Detailed
<1>2. CASE AnyThreadRunning(status)
  <2> DEFINE place == IF status[c] = "RUNNING" THEN "run" ELSE "stalled"
  <2>1. lock' = NoCore /\ pc' = [pc EXCEPT ![c] = place] /\ nextBarrier' = nextBarrier
    BY <1>2 DEF BarrierInv, StallLoop, Detailed
  <2>2. \A o \in Core \ {c} : elapsed'[o] = elapsed[o]
    BY <1>2, Types DEF SkipToWakeup, BarrierInv, StallLoop, Detailed
  <2> QED BY <2>1, <2>2 DEF ResumesSomeCore, BarrierInv, StallLoop, Detailed
<1> QED BY <1>1, <1>2

\* A thread that stops begins a release only if a running core is in the barrier.
LEMMA StoppedDetailed ==
  ASSUME BarrierInv, Detailed, NEW c \in Core, pc[c] = "run", lock = NoCore,
         NEW st, NEW p \in [Core -> Places], NEW release, NEW after, NEW lockAfter,
         \A t \in toRelease : st[t] = "RUNNING",
         \A o \in Core : (p[o] = "barrier") <=> (pc[o] = "barrier"),
         \A o \in Core : p[o] = "synced" => pc[o] = "synced",
         release # "synced", after # "synced", lockAfter = NoCore \/ (lockAfter = c /\ after = "stalling"),
         ThreadStopped(c, st, p, release, after, lockAfter),
         fastforward' = fastforward, disabled' = disabled, acquired' = acquired,
         nextSync' = nextSync, elapsed' = elapsed
  PROVE  Detailed'
<1>1. /\ localClock' = localClock /\ nextBarrier' = nextBarrier
      /\ StoppedEffect(c, st, p, release, after, lockAfter)
  BY StoppedFacts DEF BarrierInv, Detailed
<1>2. PICK R \in SUBSET toRelease :
    /\ toRelease' = toRelease \ R
    /\ \/ /\ lock' = c
          /\ IsBarrierReached(st, acquired, localClock)
          /\ pc' = [o \in Core |-> IF o = c THEN release
                                   ELSE IF o \in R THEN "synced" ELSE p[o]]
       \/ /\ lock' = lockAfter
          /\ pc' = [o \in Core |-> IF o = c THEN after
                                   ELSE IF o \in R THEN "synced" ELSE p[o]]
  BY <1>1 DEF StoppedEffect
<1>3. \A o \in Core : pc'[o] = "synced" => elapsed[o] < nextBarrier
  BY <1>2 DEF ClocksReported, BarrierInv, Detailed
<1>4. ResumesSomeCore'
  <2>1. CASE IsBarrierReached(st, acquired, localClock)
    <3>1. PICK t \in Core : localClock[t] >= nextBarrier
      BY <2>1 DEF IsBarrierReached, Running, BarrierInv, Detailed
    <3>2. localClock[t] \in Nat /\ nextBarrier \in Nat
      BY Types DEF BarrierInv
    <3>3. t \in acquired
      BY <3>1, <3>2 DEF BarrierInv, Detailed
    <3> QED BY <3>3 DEF ResumesSomeCore
  <2>2. CASE lock' = lockAfter /\ pc' = [o \in Core |-> IF o = c THEN after
                                   ELSE IF o \in R THEN "synced" ELSE p[o]]
    BY <2>2 DEF ResumesSomeCore, ReleasePlaces
  <2> QED BY <1>2, <2>1, <2>2
<1> QED BY <1>1, <1>3, <1>4 DEF BarrierInv, Detailed

\* A thread that stalls or goes to sleep keeps the second layer.
LEMMA StallDetailed ==
  ASSUME BarrierInv, Detailed, NEW c \in Core, pc[c] = "run", lock = NoCore, StallThread(c)
  PROVE  Detailed'
<1>1. /\ elapsed' = elapsed /\ nextSync' = nextSync /\ acquired' = acquired
      /\ fastforward' = fastforward /\ disabled' = disabled
      /\ status' = [status EXCEPT ![c] = "STALLED"]
      /\ ThreadStopped(c, status', pc, "signalling", "stalling", c)
  BY DEF StallThread
<1>2. \A u \in toRelease : status'[u] = "RUNNING"
  BY <1>1, BarrierPlaces
<1>3. PICK st, p : st = status' /\ p = pc
  OBVIOUS
<1>4. ThreadStopped(c, st, p, "signalling", "stalling", c)
  BY <1>1, <1>3
<1> QED BY <1>1, <1>2, <1>3, <1>4, StoppedDetailed, Types, Zenon DEF BarrierInv

\* A thread that blocks keeps the second layer.
LEMMA BlockDetailed ==
  ASSUME BarrierInv, Detailed, NEW c \in Core, Block(c)
  PROVE  Detailed'
<1>1. /\ elapsed' = elapsed /\ nextSync' = nextSync /\ acquired' = acquired
      /\ fastforward' = fastforward /\ disabled' = disabled
      /\ status' = [status EXCEPT ![c] = "STALLED"] /\ pc[c] = "run" /\ lock = NoCore
      /\ ThreadStopped(c, status', pc, "blocking", "blocked", NoCore)
  BY DEF Block
<1>2. \A u \in toRelease : status'[u] = "RUNNING"
  BY <1>1, BarrierPlaces
<1>3. PICK st, p : st = status' /\ p = pc
  OBVIOUS
<1>4. ThreadStopped(c, st, p, "blocking", "blocked", NoCore)
  BY <1>1, <1>3
<1> QED BY <1>1, <1>2, <1>3, <1>4, StoppedDetailed, Types, Zenon DEF BarrierInv

\* A thread that exits keeps the second layer.
LEMMA ExitDetailed ==
  ASSUME BarrierInv, Detailed, NEW c \in Core, NEW waiter \in JoinSets, Exit(c, waiter)
  PROVE  Detailed'
<1> DEFINE p == [o \in Core |-> IF o \in waiter THEN "resumed" ELSE pc[o]]
<1>0. /\ pc[c] = "run" /\ lock = NoCore /\ waiter \subseteq Core
      /\ \A w \in waiter : pc[w] = "stalled"
      /\ c \notin waiter
  BY LockPlace DEF Exit, JoinSets
<1>1. /\ elapsed' = elapsed /\ nextSync' = nextSync /\ acquired' = acquired
      /\ fastforward' = fastforward /\ disabled' = disabled
      /\ status' = [o \in Core |-> IF o = c THEN "IDLE"
                               ELSE IF o \in waiter THEN "RUNNING" ELSE status[o]]
      /\ ThreadStopped(c, status', p, "exiting", "exited", NoCore)
  BY DEF Exit
<1>2. p \in [Core -> Places] /\ c \notin toRelease
  BY <1>0, <1>1, Types, BarrierPlaces DEF Places, BarrierInv
<1>3. \A u \in toRelease : status'[u] = "RUNNING"
  BY <1>0, <1>1, <1>2, BarrierPlaces
<1>4. PICK st, q : st = status' /\ q = p
  BY Zenon
<1>5. \A o \in Core : /\ (q[o] = "barrier") <=> (pc[o] = "barrier")
                      /\ q[o] = "synced" => pc[o] = "synced"
  BY <1>0, <1>4
<1> HIDE DEF p
<1>6. ThreadStopped(c, st, q, "exiting", "exited", NoCore)
  BY <1>1, <1>4
<1> QED BY <1>0, <1>1, <1>2, <1>3, <1>4, <1>5, <1>6, StoppedDetailed

\* The next synchronization of a core that is early is not after the barrier.
LEMMA SynchronizeDetailed ==
  ASSUME BarrierInv, Detailed, NEW c \in Core, Synchronize(c)
  PROVE  Detailed'
<1>1. /\ elapsed' = elapsed /\ fastforward' = fastforward /\ disabled' = disabled
      /\ pc[c] = "run" /\ lock = NoCore /\ c \notin acquired /\ c \notin toRelease
      /\ nextBarrier' = nextBarrier
  BY SyncFacts DEF BarrierInv, Detailed
<1>2. CASE /\ SynchronizeEarly(c)
           /\ nextSync' = [nextSync EXCEPT ![c] = NextSyncAfter(elapsed[c])]
           /\ UNCHANGED <<pc, localClock, acquired, toRelease, nextBarrier, lock>>
  <2>1. elapsed[c] < nextBarrier
    BY <1>2 DEF SynchronizeEarly, BarrierInv, Detailed
  <2>2. NextSyncAfter(elapsed[c]) <= nextBarrier
    BY <2>1, QuantumFacts, Types DEF BarrierInv, Detailed
  <2> QED BY <1>1, <1>2, <2>2 DEF ResumesSomeCore, BarrierInv, Detailed
<1>3. ASSUME NEW R \in SUBSET toRelease, SyncEffect(c, R)
      PROVE  Detailed'
  <2>1. /\ localClock' = [localClock EXCEPT ![c] = elapsed[c]] /\ nextSync' = nextSync
        /\ acquired' = acquired \cup {c}
        /\ \A o \in Core \ {c} : pc'[o] = IF o \in R THEN "synced" ELSE pc[o]
        /\ pc'[c] # "synced"
    BY <1>3 DEF SyncEffect
  <2>2. \A o \in Core : pc'[o] = "synced" => elapsed[o] < nextBarrier
    BY <2>1 DEF ClocksReported, BarrierInv, Detailed
  <2> QED BY <1>1, <2>1, <2>2 DEF ResumesSomeCore, BarrierInv, Detailed
<1> QED BY <1>2, <1>3, SyncFacts

\* barrierRelease lets those go whose clocks are short of the new barrier.
LEMMA ReleaseDetailed ==
  ASSUME BarrierInv, DetailedOnly, Detailed, NEW me \in Core, NEW script \in BOOLEAN, Release(me, script)
  PROVE  Detailed'
<1>0. /\ lock = me /\ me # NoCore /\ pc[me] \in ReleasePlaces /\ toRelease = {}
      /\ elapsed' = elapsed /\ localClock' = localClock /\ ~script
  BY ReleaseFacts, LockPlace, NoScripts, Types, BarrierPlaces DEF BarrierInv
<1>1. PICK s :
         /\ \E W \in SUBSET Core, A \in SUBSET Core : HookEffect(W, A, s)
         /\ s.acquired = acquired
         /\ s.fastforward = fastforward /\ s.disabled = disabled
         /\ s.nextBarrier = nextBarrier
         /\ fastforward' = s.fastforward /\ disabled' = s.disabled
         /\ Stops(me, s) \/ Aborts(me, s) \/ GoesRound(me, s) \/ \E go, R : LetsGo(me, s, go, R)
  BY <1>0, ReleaseFacts DEF BarrierInv, Detailed
<1>2. PICK W \in SUBSET Core, A \in SUBSET Core : HookEffect(W, A, s)
  BY <1>1
<1>3. /\ s.pc \in [Core -> Places] /\ s.pc[me] = pc[me]
      /\ \A c \in Core : s.pc[c] = "synced" => pc[c] = "synced" \/ (c \in acquired /\ s.acquired = {})
  BY <1>0, <1>2, Types DEF HookEffect, ReleasePlaces, Places, BarrierInv
<1>4. \A c \in Core : s.pc[c] = "synced" => pc[c] = "synced"
  BY <1>1, <1>3
<1>5. ~fastforward' /\ ~disabled'
  BY <1>1 DEF BarrierInv, Detailed
<1>6. CASE Stops(me, s)
  <2>1. pc[me] = "advancing" /\ nextBarrier' = nextBarrier /\ acquired' = acquired
    BY <1>1, <1>6 DEF Stops, BarrierInv, Detailed
  <2>2. PICK place : ReturnEffect(me, s.pc, FALSE, place)
    BY <1>6, Zenon DEF Stops
  <2>3. pc' = [s.pc EXCEPT ![me] = "stalling"] /\ lock' = me /\ nextSync' = nextSync
    BY <2>1, <2>2 DEF ReturnEffect
  <2> QED BY <1>0, <1>3, <1>4, <1>5, <2>1, <2>3 DEF ResumesSomeCore, ReleasePlaces, BarrierInv,
             Detailed
<1>7. CASE Aborts(me, s)
  <2>1. /\ pc[me] = "advancing" /\ nextBarrier' = nextBarrier /\ acquired' = acquired
        /\ pc' = [s.pc EXCEPT ![me] = "aborted"] /\ lock' = me /\ nextSync' = nextSync
    BY <1>0, <1>1, <1>7 DEF Aborts
  <2> QED BY <1>0, <1>3, <1>4, <1>5, <2>1 DEF ResumesSomeCore, ReleasePlaces, BarrierInv, Detailed
<1>8. Quantum \in Nat /\ nextBarrier + Quantum \in Nat /\ AtQuantum(nextBarrier + Quantum)
  BY BarrierConstants, QuantumFacts, Types DEF BarrierInv, Detailed
<1>9. CASE GoesRound(me, s)
  <2>1. /\ nextBarrier' = nextBarrier + Quantum /\ acquired' = acquired
        /\ pc' = s.pc /\ lock' = me /\ nextSync' = nextSync
    BY <1>0, <1>1, <1>9 DEF GoesRound
  <2>2. ResumesSomeCore'
    BY <1>0, <1>3, <2>1, Zenon DEF ResumesSomeCore, Detailed
  <2>3. /\ \A c \in Core : c \notin acquired' => localClock'[c] < nextBarrier'
        /\ \A c \in Core : nextSync'[c] <= nextBarrier'
    <3>1. \A c \in Core : localClock[c] \in Nat /\ nextSync[c] \in Nat
      BY Types DEF BarrierInv
    <3>2. nextBarrier \in Nat
      BY Types DEF BarrierInv
    <3>3. /\ \A c \in Core : c \notin acquired => localClock[c] < nextBarrier
          /\ \A c \in Core : nextSync[c] <= nextBarrier
      BY DEF Detailed
    <3>4. /\ \A c \in Core : c \notin acquired => localClock[c] < nextBarrier + Quantum
          /\ \A c \in Core : nextSync[c] <= nextBarrier + Quantum
      BY <1>8, <3>1, <3>2, <3>3
    <3> QED BY <1>0, <2>1, <3>4, Zenon
  <2>4. \A c \in Core : pc'[c] = "synced" => elapsed'[c] < nextBarrier'
    BY <1>0, <1>4, <1>8, <2>1, Types DEF BarrierInv, Detailed
  <2>5. AtQuantum(nextBarrier')
    BY <1>8, <2>1, Zenon
  <2> QED BY <1>5, <2>2, <2>3, <2>4, <2>5, Zenon DEF Detailed
<1>10. ASSUME NEW go, NEW R, LetsGo(me, s, go, R)
       PROVE  Detailed'
  <2>1. /\ go \in SUBSET acquired /\ acquired' = acquired \ go
        /\ R \in SUBSET go
        /\ \A c \in go : localClock[c] < nextBarrier'
        /\ nextBarrier' = nextBarrier + Quantum
    BY <1>1, <1>10 DEF LetsGo
  <2>2. PICK place : ReturnEffect(me, SignalBarrier(s.pc, R), me \notin go, place)
    BY <1>10 DEF LetsGo
  <2>3. /\ pc'[me] = place /\ place # "synced"
        /\ \A c \in Core \ {me} : pc'[c] = "synced" => c \in R \/ s.pc[c] = "synced"
    BY <2>2, <1>3 DEF ReturnEffect, SignalBarrier
  <2>4. \A c \in Core : pc'[c] = "synced" => elapsed[c] < nextBarrier'
    <3> TAKE c \in Core
    <3> HAVE pc'[c] = "synced"
    <3>1. CASE c \in R
      BY <3>1, <2>1, Types DEF ClocksReported, BarrierInv
    <3>2. CASE pc[c] = "synced"
      <4>1. elapsed[c] < nextBarrier /\ elapsed[c] \in Nat
        BY <3>2, Types DEF BarrierInv, Detailed
      <4> QED BY <4>1, <2>1, <1>8, Types DEF BarrierInv
    <3> QED BY <3>1, <3>2, <2>3, <1>4
  <2>5. \A c \in Core : nextSync'[c] <= nextBarrier'
    <3>1. CASE nextSync' = nextSync
      BY <3>1, <2>1, <1>8, Types, BarrierPlaces DEF BarrierInv, Detailed
    <3>2. CASE /\ me \in go
               /\ nextSync' = [nextSync EXCEPT ![me] = NextSyncAfter(elapsed[me])]
      <4>1. elapsed[me] < nextBarrier + Quantum
        BY <3>2, <2>1, Types DEF ClocksReported, BarrierInv
      <4>2. NextSyncAfter(elapsed[me]) <= nextBarrier + Quantum
        BY <4>1, <1>8, QuantumFacts, Types DEF BarrierInv
      <4> QED BY <3>2, <4>2, <2>1, <1>8, Types DEF BarrierInv, Detailed
    <3> QED BY <3>1, <3>2, <2>2 DEF ReturnEffect
  <2>6. \A c \in Core : c \notin acquired' => localClock[c] < nextBarrier'
    BY <2>1, <1>8, Types DEF BarrierInv, Detailed
  <2>7. ResumesSomeCore'
    BY <1>0, <2>2, <2>3 DEF ResumesSomeCore, ReturnEffect, ReleasePlaces
  <2> QED BY <1>0, <1>5, <1>8, <2>1, <2>4, <2>5, <2>6, <2>7 DEF BarrierInv, Detailed
<1> QED BY <1>1, <1>6, <1>7, <1>9, <1>10

\* No step changes the configuration.
LEMMA NextConfig == BarrierInv /\ Next => config' = config
<1> SUFFICES ASSUME BarrierInv, Next PROVE config' = config
  OBVIOUS
<1>1. PICK c \in Core :
    \/ \E d \in Steps : Execute(c, d)
    \/ Synchronize(c)
    \/ \E script \in BOOLEAN : Release(c, script)
    \/ LeaveBarrier(c)
    \/ Stall(c)
    \/ \E d \in SleepTimes : Sleep(c, d)
    \/ StallLoop(c)
    \/ \E o \in Core : Resume(c, o)
    \/ LeaveStall(c)
    \/ Block(c)
    \/ ReadWakeTime(c)
    \/ Unblock(c)
    \/ \E o \in Core : Spawn(c, o)
    \/ Start(c)
    \/ \E waiter \in JoinSets : Exit(c, waiter)
    \/ Roi(c)
  BY DEF Next
<1>2. Synchronize(c) => config' = config
  BY SyncFacts
<1>3. (\E script \in BOOLEAN : Release(c, script)) => config' = config
  BY ReleaseFacts, Zenon
<1> QED BY <1>1, <1>2, <1>3, Zenon
        DEF Execute, LeaveBarrier, Stall, StallThread, Sleep, StallLoop, Resume, LeaveStall,
            Block, ReadWakeTime, Unblock, Spawn, Start, Exit, Roi

\* Every step of a detailed simulation keeps the second layer.
LEMMA NextDetailed ==
  ASSUME BarrierInv, DetailedOnly, Detailed, [Next]_vars
  PROVE  Detailed'
<1>1. CASE UNCHANGED vars
  BY <1>1, Zenon DEF vars, clocks, server, Detailed, ResumesSomeCore, AtQuantum
<1>2. CASE Next
  <2>1. PICK c \in Core :
    \/ \E d \in Steps : Execute(c, d)
    \/ Synchronize(c)
    \/ \E script \in BOOLEAN : Release(c, script)
    \/ LeaveBarrier(c)
    \/ Stall(c)
    \/ \E d \in SleepTimes : Sleep(c, d)
    \/ StallLoop(c)
    \/ \E o \in Core : Resume(c, o)
    \/ LeaveStall(c)
    \/ Block(c)
    \/ ReadWakeTime(c)
    \/ Unblock(c)
    \/ \E o \in Core : Spawn(c, o)
    \/ Start(c)
    \/ \E waiter \in JoinSets : Exit(c, waiter)
    \/ Roi(c)
    BY <1>2 DEF Next
  <2>2. CASE \/ \E d \in Steps : Execute(c, d)
             \/ LeaveBarrier(c) \/ (\E o \in Core : Resume(c, o)) \/ LeaveStall(c) \/ ReadWakeTime(c)
             \/ Unblock(c) \/ (\E o \in Core : Spawn(c, o))
    BY <2>2, SmallStepsDetailed
  <2>3. CASE Synchronize(c)
    BY <2>3, SynchronizeDetailed
  <2>4. ASSUME NEW script \in BOOLEAN, Release(c, script) PROVE Detailed'
    BY <2>4, ReleaseDetailed
  <2>5. CASE Stall(c) \/ \E d \in SleepTimes : Sleep(c, d)
    <3>1. pc[c] = "run" /\ lock = NoCore /\ StallThread(c)
      BY <2>5, ZenonT(30) DEF Stall, Sleep
    <3> QED BY <3>1, StallDetailed
  <2>6. CASE StallLoop(c)
    BY <2>6, StallLoopDetailed
  <2>7. CASE Block(c)
    BY <2>7, BlockDetailed
  <2>8. CASE Start(c)
    BY <2>8, StartDetailed
  <2>9. ASSUME NEW waiter \in JoinSets, Exit(c, waiter) PROVE Detailed'
    BY <2>9, ExitDetailed
  <2>10. ~Roi(c)
    BY NoScripts DEF Roi, BarrierInv
  <2> QED BY <2>1, <2>2, <2>3, <2>4, <2>5, <2>6, <2>7, <2>8, <2>9, <2>10
<1> QED BY <1>1, <1>2
=============================================================================
