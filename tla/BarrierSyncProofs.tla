------------------------- MODULE BarrierSyncProofs --------------------------
(***************************************************************************)
(* The safety properties of BarrierSync, for any number of cores, any      *)
(* quantum and any application, from the invariant's first two layers and  *)
(* a third, which is about Regular applications.                           *)
(***************************************************************************)
EXTENDS BarrierSyncInv, BarrierSyncDetailed

\* The time at which c goes on.
GoesOnAt(c) ==
  IF pc[c] \in {"run", "barrier", "synced", "syncing"} THEN elapsed[c]
                                                       ELSE Max2(elapsed[c], wakeup[c])

\* A Regular application keeps in step with the barrier.
InStepInv ==
  /\ globalTime <= nextBarrier
  /\ \A c \in Core : pc[c] \notin {"init", "blocked", "unblocking", "blocking"}
  /\ \A c \in Core : elapsed[c] < nextBarrier + Quantum /\ wakeup[c] < nextBarrier + Quantum
  /\ \A c \in Running(status) : GoesOnAt(c) >= globalTime
  /\ lock # NoCore /\ pc[lock] \in ReleasePlaces \ {"advancing"} =>
       \A c \in Running(status) : c \in acquired /\ localClock[c] >= nextBarrier

RegularInv == Regular => InStepInv

IInv == BarrierInv /\ DetailedInv /\ RegularInv

\* A Regular application only stalls, and its instructions fit in a quantum.
LEMMA RegularFacts ==
  ASSUME TypeOK, Regular
  PROVE  /\ DetailedOnly
         /\ "block" \notin config.calls /\ "spawn" \notin config.calls
         /\ "roi" \notin config.calls /\ "script" \notin config.calls
         /\ \A d \in config.steps : d \in Nat /\ d <= Quantum
         /\ Quantum \in Nat /\ Quantum > 0
<1>1. config \in Configs
  BY DEF TypeOK
<1>2. config.steps \subseteq Nat /\ Quantum \in Nat /\ Quantum > 0
  BY <1>1, BarrierConstants
<1> QED BY <1>2 DEF Regular

\* Time that passes leaves a core at or after the global time.
LEMMA NatAdd ==
  ASSUME NEW a, NEW b, NEW d, NEW g, a \in Nat, d \in Nat, g \in Nat, b = a + d, a >= g
  PROVE  b \in Nat /\ b >= g
OBVIOUS

\* The steps of one thread keep it in step with the global time.
LEMMA SmallStepsRegular ==
  ASSUME BarrierInv, Detailed, Regular, InStepInv, NEW c \in Core, NEW o \in Core,
         \/ \E d : Execute(c, d)
         \/ LeaveBarrier(c) \/ Resume(c, o) \/ LeaveStall(c) \/ ReadWakeTime(c)
         \/ Unblock(c) \/ Spawn(c, o) \/ Block(c) \/ Start(c) \/ Roi(c)
  PROVE  InStepInv'
<1>l. lock # NoCore => lock \in Core /\ pc[lock] \in ReleasePlaces \cup {"stalling", "aborted"}
  BY LockPlace, Types DEF BarrierInv
<1>1. ASSUME NEW d, Execute(c, d) PROVE InStepInv'
  <2>1. /\ elapsed' = [elapsed EXCEPT ![c] = elapsed[c] + d]
        /\ elapsed[c] < nextSync[c] /\ d \in Nat /\ d <= Quantum /\ pc[c] = "run"
        /\ UNCHANGED <<config, status, pc, wakeup, nextSync, localClock, acquired, nextBarrier,
                       globalTime, lock>>
    BY <1>1, Types, RegularFacts DEF Execute, BarrierInv, Detailed, InStepInv, server, GoesOnAt,
       Max2, Running
  <2>2. elapsed[c] + d < nextBarrier + Quantum
    <3>1. /\ elapsed[c] \in Nat /\ nextSync[c] \in Nat /\ nextBarrier \in Nat
          /\ nextSync[c] <= nextBarrier
      BY Types DEF BarrierInv, Detailed, InStepInv, server, GoesOnAt, Max2, Running
    <3> QED BY <2>1, <3>1, Types, RegularFacts DEF BarrierInv, Detailed, InStepInv, server,
               GoesOnAt, Max2, Running
  <2>3. \A x \in Core : elapsed'[x] < nextBarrier + Quantum
    BY <2>1, <2>2 DEF BarrierInv, Detailed, InStepInv, server, GoesOnAt, Max2, Running
  <2>4. ASSUME NEW x \in Core, GoesOnAt(x) >= globalTime PROVE GoesOnAt(x)' >= globalTime
    <3>1. /\ elapsed[x] \in Nat /\ wakeup[x] \in Nat /\ globalTime \in Nat
          /\ elapsed'[x] = IF x = c THEN elapsed[x] + d ELSE elapsed[x]
      BY <2>1, Types DEF BarrierInv
    <3>2. pc[x] = pc'[x] /\ wakeup'[x] = wakeup[x] /\ d \in Nat
      BY <2>1
    <3>3. CASE x = c
      <4>1. GoesOnAt(x) = elapsed[x] /\ GoesOnAt(x)' = elapsed'[x] /\ elapsed'[x] = elapsed[x] + d
        BY <3>1, <3>2, <3>3, <2>1 DEF BarrierInv, Detailed, InStepInv, server, GoesOnAt, Max2,
           Running
      <4>2. GoesOnAt(x)' = elapsed[x] + d /\ elapsed[x] >= globalTime
        BY <4>1, <2>4
      <4> QED BY <4>2, <3>1, <3>2, NatAdd
    <3>4. CASE x # c
      BY <3>4, <3>1, <3>2, <2>4 DEF BarrierInv, Detailed, InStepInv, server, GoesOnAt, Max2,
         Running
    <3> QED BY <3>3, <3>4
  <2> QED BY <2>1, <2>3, <2>4 DEF BarrierInv, Detailed, InStepInv, server, GoesOnAt, Max2, Running
<1>2. CASE LeaveBarrier(c)
  BY <1>2 DEF LeaveBarrier, BarrierInv, Detailed, InStepInv, server, GoesOnAt, Max2, Running
<1>3. CASE Resume(c, o)
  <2>1. /\ status' = [status EXCEPT ![o] = "RUNNING"] /\ wakeup' = [wakeup EXCEPT ![o] = elapsed[c]]
        /\ pc' = [pc EXCEPT ![o] = "resumed"] /\ lock' = NoCore
        /\ UNCHANGED <<elapsed, globalTime, nextBarrier>>
    BY <1>3 DEF Resume, SignalThread, BarrierInv, Detailed, InStepInv, server, GoesOnAt, Max2,
       Running
  <2>2. pc[c] = "run" /\ status[c] = "RUNNING" /\ elapsed[c] >= globalTime
    BY <1>3 DEF Resume, StatusOfPlace, BarrierInv, Detailed, InStepInv, server, GoesOnAt, Max2,
       Running
  <2>3. ASSUME NEW x \in Running(status)' PROVE GoesOnAt(x)' >= globalTime
    <3>1. CASE x = o
      BY <2>1, <2>2, <3>1, Types DEF BarrierInv, Detailed, InStepInv, server, GoesOnAt, Max2,
         Running
    <3>2. CASE x # o
      <4>1. x \in Running(status) /\ pc'[x] = pc[x] /\ wakeup'[x] = wakeup[x] /\ elapsed' = elapsed
        BY <2>1, <2>3, <3>2 DEF BarrierInv, Detailed, InStepInv, server, GoesOnAt, Max2, Running
      <4> QED BY <4>1 DEF BarrierInv, Detailed, InStepInv, server, GoesOnAt, Max2, Running
    <3> QED BY <3>1, <3>2
  <2>4. elapsed[c] < nextBarrier + Quantum
    BY DEF BarrierInv, Detailed, InStepInv, server, GoesOnAt, Max2, Running
  <2>5. \A x \in Core : elapsed'[x] < nextBarrier + Quantum /\ wakeup'[x] < nextBarrier + Quantum
    BY <2>1, <2>4 DEF BarrierInv, Detailed, InStepInv, server, GoesOnAt, Max2, Running
  <2>6. \A x \in Core : pc'[x] \notin {"init", "blocked", "unblocking", "blocking"}
    BY <2>1 DEF BarrierInv, Detailed, InStepInv, server, GoesOnAt, Max2, Running
  <2> QED BY <2>1, <2>3, <2>5, <2>6 DEF BarrierInv, Detailed, InStepInv, server, GoesOnAt, Max2,
             Running
<1>4. CASE LeaveStall(c)
  <2>1. /\ pc' = [pc EXCEPT ![c] = "run"] /\ lock' = NoCore /\ status' = status
        /\ elapsed' = [elapsed EXCEPT ![c] = Max2(elapsed[c], wakeup[c])]
        /\ wakeup' = [wakeup EXCEPT ![c] = 0]
        /\ UNCHANGED <<globalTime, nextBarrier>> /\ pc[c] = "resumed"
    BY <1>4 DEF LeaveStall, SkipToWakeup, BarrierInv, Detailed, InStepInv, server, GoesOnAt, Max2,
       Running
  <2>3. ASSUME NEW x \in Running(status)' PROVE GoesOnAt(x)' >= globalTime
    <3>1. CASE x = c
      <4>1. c \in Running(status) /\ GoesOnAt(c) = Max2(elapsed[c], wakeup[c])
        BY <2>1, <2>3, <3>1 DEF BarrierInv, Detailed, InStepInv, server, GoesOnAt, Max2, Running
      <4>2. GoesOnAt(c)' = Max2(elapsed[c], wakeup[c])
        BY <2>1, Types DEF BarrierInv, Detailed, InStepInv, server, GoesOnAt, Max2, Running
      <4> QED BY <4>1, <4>2, <3>1 DEF BarrierInv, Detailed, InStepInv, server, GoesOnAt, Max2,
                 Running
    <3>2. CASE x # c
      <4>1. /\ x \in Running(status) /\ pc'[x] = pc[x] /\ wakeup'[x] = wakeup[x]
            /\ elapsed'[x] = elapsed[x]
        BY <2>1, <2>3, <3>2
      <4> QED BY <4>1 DEF BarrierInv, Detailed, InStepInv, server, GoesOnAt, Max2, Running
    <3> QED BY <3>1, <3>2
  <2>4. Max2(elapsed[c], wakeup[c]) < nextBarrier + Quantum
    BY DEF BarrierInv, Detailed, InStepInv, server, GoesOnAt, Max2, Running
  <2>7. 0 < nextBarrier + Quantum /\ nextBarrier' = nextBarrier
    <3>1. nextBarrier \in Nat
      BY Types DEF BarrierInv
    <3> QED BY <2>1, <3>1, Types, RegularFacts DEF BarrierInv
  <2>5. ASSUME NEW x \in Core
        PROVE elapsed'[x] < nextBarrier + Quantum /\ wakeup'[x] < nextBarrier + Quantum
    <3>1. elapsed'[x] = IF x = c THEN Max2(elapsed[c], wakeup[c]) ELSE elapsed[x]
      BY <2>1, Types DEF BarrierInv
    <3>2. wakeup'[x] = IF x = c THEN 0 ELSE wakeup[x]
      BY <2>1, Types DEF BarrierInv
    <3>3. elapsed[x] < nextBarrier + Quantum /\ wakeup[x] < nextBarrier + Quantum
      BY DEF BarrierInv, Detailed, InStepInv, server, GoesOnAt, Max2, Running
    <3>4. elapsed'[x] < nextBarrier + Quantum
      BY <3>1, <3>3, <2>4
    <3>5. wakeup'[x] < nextBarrier + Quantum
      BY <3>2, <3>3, <2>7
    <3> QED BY <3>4, <3>5
  <2>6. \A x \in Core : pc'[x] \notin {"init", "blocked", "unblocking", "blocking"}
    BY <2>1 DEF BarrierInv, Detailed, InStepInv, server, GoesOnAt, Max2, Running
  <2> QED BY <2>1, <2>3, <2>5, <2>6 DEF BarrierInv, Detailed, InStepInv, server, GoesOnAt, Max2,
             Running
<1>5. CASE ReadWakeTime(c) \/ Unblock(c) \/ Spawn(c, o) \/ Block(c) \/ Start(c) \/ Roi(c)
  BY <1>5, Types, RegularFacts, Zenon DEF ReadWakeTime, Unblock, Spawn, Block, Start, Roi,
     BarrierInv, Detailed, InStepInv, server, GoesOnAt, Max2, Running
<1> QED BY <1>1, <1>2, <1>3, <1>4, <1>5

\* The wake-up time of a thread that was resumed is not in the past.
LEMMA StallLoopRegular ==
  ASSUME BarrierInv, Detailed, Regular, InStepInv, NEW c \in Core, StallLoop(c)
  PROVE  InStepInv'
<1>1. CASE ~AnyThreadRunning(status)
  <2>1. /\ lock' = c /\ pc' = [pc EXCEPT ![c] = "advancing"] /\ nextBarrier' = nextBarrier
        /\ UNCHANGED <<elapsed, wakeup, status, globalTime>>
    BY <1>1 DEF BeginRelease, BarrierInv, Detailed, InStepInv, StallLoop
  <2> QED BY <1>1, <2>1 DEF Running, AnyThreadRunning, GoesOnAt, BarrierInv, Detailed, InStepInv,
             StallLoop
<1>2. CASE AnyThreadRunning(status) /\ status[c] = "RUNNING"
  <2>1. /\ pc' = [pc EXCEPT ![c] = "run"] /\ lock' = NoCore /\ status' = status
        /\ elapsed' = [elapsed EXCEPT ![c] = Max2(elapsed[c], wakeup[c])]
        /\ wakeup' = [wakeup EXCEPT ![c] = 0]
        /\ UNCHANGED <<globalTime, nextBarrier>> /\ pc[c] = "stalling"
    BY <1>2 DEF SkipToWakeup, BarrierInv, Detailed, InStepInv, StallLoop
  <2> QED BY <2>1, Types, RegularFacts DEF GoesOnAt, Max2, Running, BarrierInv, Detailed,
             InStepInv, StallLoop
<1>3. CASE AnyThreadRunning(status) /\ status[c] # "RUNNING"
  <2>1. /\ pc' = [pc EXCEPT ![c] = "stalled"] /\ lock' = NoCore
        /\ UNCHANGED <<globalTime, nextBarrier, elapsed, wakeup, status>>
    BY <1>3 DEF BarrierInv, Detailed, InStepInv, StallLoop
  <2>2. pc[c] = "stalling" /\ pc'[c] = "stalled" /\ \A o \in Core : o # c => pc'[o] = pc[o]
    BY <2>1, Types DEF BarrierInv, StallLoop
  <2>3. \A o \in Core : GoesOnAt(o)' = GoesOnAt(o)
    BY <2>1, <2>2 DEF GoesOnAt, Max2
  <2>4. Running(status)' = Running(status)
    BY <2>1 DEF Running
  <2>5. \A o \in Core : pc'[o] \notin {"init", "blocked", "unblocking", "blocking"}
    BY <2>2 DEF InStepInv
  <2>6. globalTime' <= nextBarrier'
    BY <2>1 DEF InStepInv
  <2>7. \A o \in Core : elapsed'[o] < nextBarrier' + Quantum /\ wakeup'[o] < nextBarrier' + Quantum
    BY <2>1, Zenon DEF InStepInv
  <2>8. (\A o \in Running(status) : GoesOnAt(o) >= globalTime)'
    <3>1. \A o \in Running(status) : o \in Core /\ GoesOnAt(o) >= globalTime
      BY DEF InStepInv, Running
    <3> QED BY <3>1, <2>1, <2>3, <2>4, Zenon
  <2> QED BY <2>1, <2>5, <2>6, <2>7, <2>8, Zenon DEF InStepInv
<1> QED BY <1>1, <1>2, <1>3

\* A thread that stops begins a release only when the others are all in the barrier.
LEMMA StoppedRegular ==
  ASSUME BarrierInv, Detailed, Regular, InStepInv, NEW c \in Core, pc[c] = "run", lock = NoCore,
         NEW st, NEW p \in [Core -> Places], NEW release, NEW after, NEW lockAfter,
         \A t \in toRelease : st[t] = "RUNNING",
         \A o \in Core : (p[o] = "barrier") <=> (pc[o] = "barrier"),
         \A o \in Core : p[o] = pc[o] \/ (p[o] = "resumed" /\ pc[o] = "stalled"),
         st[c] # "RUNNING",
         \A o \in Core \ {c} : p[o] = pc[o] => st[o] = status[o] /\ wakeup'[o] = wakeup[o],
         \A o \in Core : wakeup'[o] \in {wakeup[o], elapsed[c]},
         \A o \in Core : p[o] # pc[o] => wakeup'[o] = elapsed[c],
         release \in {"signalling", "exiting"}, after \in {"stalling", "exited"},
         lockAfter = NoCore \/ (lockAfter = c /\ after = "stalling"),
         ThreadStopped(c, st, p, release, after, lockAfter),
         status' = st, acquired' = acquired, elapsed' = elapsed, globalTime' = globalTime
  PROVE  InStepInv'
<1>1. /\ localClock' = localClock /\ nextBarrier' = nextBarrier
      /\ StoppedEffect(c, st, p, release, after, lockAfter)
  BY StoppedFacts DEF Detailed
<1>2. PICK R \in SUBSET toRelease :
    /\ toRelease' = toRelease \ R
    /\ \/ /\ lock' = c
          /\ IsBarrierReached(st, acquired, localClock)
          /\ pc' = [o \in Core |-> IF o = c THEN release
                                   ELSE IF o \in R THEN "synced" ELSE p[o]]
       \/ /\ lock' = lockAfter
          /\ pc' = [o \in Core |-> IF o = c THEN after
                                   ELSE IF o \in R THEN "synced" ELSE p[o]]
  BY <1>1 DEF StoppedEffect
<1>3. elapsed[c] >= globalTime /\ elapsed[c] < nextBarrier + Quantum
  BY Types DEF InStepInv, GoesOnAt, StatusOfPlace, Running, BarrierInv
<1>4. \A o \in Core : pc'[o] \notin {"init", "blocked", "unblocking", "blocking"}
  <2> SUFFICES ASSUME NEW o \in Core PROVE pc'[o] \notin {"init", "blocked", "unblocking", "blocking"}
    OBVIOUS
  <2>1. pc'[o] \in {release, after, "synced", p[o]}
    BY <1>2
  <2>2. p[o] \in {pc[o], "resumed"} /\ pc[o] \notin {"init", "blocked", "unblocking", "blocking"}
    BY DEF InStepInv
  <2> QED BY <2>1, <2>2
<1>5. \A o \in Core : elapsed[o] < nextBarrier + Quantum /\ wakeup'[o] < nextBarrier + Quantum
  BY <1>3 DEF InStepInv
<1>6. ASSUME NEW o \in Running(st) PROVE GoesOnAt(o)' >= globalTime
  <2>0. o \in Core \ {c} /\ st[o] = "RUNNING"
    BY DEF Running
  <2>1. CASE p[o] # pc[o]
    <3>1. pc'[o] = "resumed" /\ wakeup'[o] = elapsed[c]
      BY <2>0, <2>1, <1>2, BarrierPlaces
    <3> QED BY <2>0, <3>1, <1>3, Types DEF GoesOnAt, Max2, BarrierInv
  <2>2. CASE p[o] = pc[o]
    <3>1. o \in Running(status) /\ wakeup'[o] = wakeup[o]
      BY <2>0, <2>2 DEF Running
    <3>2. GoesOnAt(o) >= globalTime
      BY <3>1 DEF InStepInv
    <3>3. pc'[o] = pc[o] \/ (pc[o] = "barrier" /\ pc'[o] = "synced")
      BY <2>0, <2>2, <1>2, BarrierPlaces
    <3> QED BY <2>0, <3>1, <3>2, <3>3 DEF GoesOnAt
  <2> QED BY <2>1, <2>2
<1>7. lock' # NoCore /\ pc'[lock'] \in ReleasePlaces \ {"advancing"} =>
        \A o \in Running(st) : o \in acquired /\ localClock[o] >= nextBarrier
  <2>1. CASE IsBarrierReached(st, acquired, localClock)
    <3> SUFFICES ASSUME NEW o \in Running(st) PROVE o \in acquired /\ localClock[o] >= nextBarrier
      OBVIOUS
    <3>1. o \in Core /\ localClock[o] >= nextBarrier
      BY <2>1 DEF IsBarrierReached, Running, Detailed
    <3>2. localClock[o] \in Nat /\ nextBarrier \in Nat
      BY <3>1, Types DEF BarrierInv
    <3> QED BY <3>1, <3>2 DEF Detailed
  <2>2. CASE lock' = lockAfter /\ pc' = [o \in Core |-> IF o = c THEN after
                                   ELSE IF o \in R THEN "synced" ELSE p[o]]
    BY <2>2 DEF ReleasePlaces
  <2> QED BY <1>2, <2>1, <2>2
<1>8. globalTime <= nextBarrier
  BY DEF InStepInv
<1>9. Running(status)' = Running(st)
  BY DEF Running
<1> QED BY <1>1, <1>4, <1>5, <1>6, <1>7, <1>8, <1>9 DEF InStepInv

\* A thread that stalls or goes to sleep leaves the others in step.
LEMMA StallRegular ==
  ASSUME BarrierInv, Detailed, Regular, InStepInv, NEW c \in Core, pc[c] = "run", lock = NoCore,
         StallThread(c)
  PROVE  InStepInv'
<1>1. /\ elapsed' = elapsed /\ acquired' = acquired /\ wakeup' = wakeup /\ globalTime' = globalTime
      /\ status' = [status EXCEPT ![c] = "STALLED"]
      /\ ThreadStopped(c, status', pc, "signalling", "stalling", c)
  BY DEF StallThread
<1>2. \A u \in toRelease : status'[u] = "RUNNING"
  BY <1>1, BarrierPlaces
<1>3. PICK st, p : st = status' /\ p = pc
  OBVIOUS
<1>4. ThreadStopped(c, st, p, "signalling", "stalling", c)
  BY <1>1, <1>3
<1>5. p \in [Core -> Places] /\ st[c] # "RUNNING" /\ \A o \in Core \ {c} : st[o] = status[o]
  BY <1>1, <1>3, Types DEF BarrierInv
<1>7. /\ p \in [Core -> Places] /\ (\A t \in toRelease : st[t] = "RUNNING")
      /\ (\A o \in Core : (p[o] = "barrier") <=> (pc[o] = "barrier"))
      /\ (\A o \in Core : p[o] = pc[o] \/ (p[o] = "resumed" /\ pc[o] = "stalled"))
      /\ st[c] # "RUNNING"
      /\ (\A o \in Core \ {c} : p[o] = pc[o] => st[o] = status[o] /\ wakeup'[o] = wakeup[o])
      /\ (\A o \in Core : wakeup'[o] \in {wakeup[o], elapsed[c]})
      /\ (\A o \in Core : p[o] # pc[o] => wakeup'[o] = elapsed[c])
      /\ status' = st
  BY <1>1, <1>2, <1>3, <1>5
<1>8. /\ "signalling" \in {"signalling", "exiting"} /\ "stalling" \in {"stalling", "exited"}
      /\ c = NoCore \/ (c = c /\ "stalling" = "stalling")
  OBVIOUS
<1> QED BY <1>1, <1>4, <1>7, <1>8, StoppedRegular

\* A thread that exits resumes the one that joins it at the present time.
LEMMA ExitRegular ==
  ASSUME BarrierInv, Detailed, Regular, InStepInv, NEW c \in Core, NEW waiter \in JoinSets,
         Exit(c, waiter)
  PROVE  InStepInv'
<1> DEFINE p == [o \in Core |-> IF o \in waiter THEN "resumed" ELSE pc[o]]
<1>0. /\ pc[c] = "run" /\ lock = NoCore /\ waiter \subseteq Core
      /\ \A w \in waiter : pc[w] = "stalled"
      /\ c \notin waiter
  BY LockPlace, Types DEF Exit, JoinSets, BarrierInv
<1>1. /\ elapsed' = elapsed /\ acquired' = acquired /\ globalTime' = globalTime
      /\ wakeup' = [o \in Core |-> IF o \in waiter THEN elapsed[c] ELSE wakeup[o]]
      /\ status' = [o \in Core |-> IF o = c THEN "IDLE"
                               ELSE IF o \in waiter THEN "RUNNING" ELSE status[o]]
      /\ ThreadStopped(c, status', p, "exiting", "exited", NoCore)
  BY Zenon DEF Exit
<1>2. p \in [Core -> Places] /\ c \notin toRelease
  BY <1>0, <1>1, Types, BarrierPlaces DEF Places, BarrierInv
<1>3. \A u \in toRelease : status'[u] = "RUNNING"
  BY <1>0, <1>1, <1>2, BarrierPlaces
<1>4. PICK st, q : st = status' /\ q = p
  BY Zenon
<1>5. /\ \A o \in Core : (q[o] = "barrier") <=> (pc[o] = "barrier")
      /\ \A o \in Core : q[o] = pc[o] \/ (q[o] = "resumed" /\ pc[o] = "stalled")
      /\ \A o \in Core \ {c} : q[o] = pc[o] => st[o] = status[o] /\ wakeup'[o] = wakeup[o]
      /\ \A o \in Core : wakeup'[o] \in {wakeup[o], elapsed[c]}
      /\ \A o \in Core : q[o] # pc[o] => wakeup'[o] = elapsed[c]
      /\ st[c] # "RUNNING"
  BY <1>0, <1>1, <1>4
<1> HIDE DEF p
<1>6. ThreadStopped(c, st, q, "exiting", "exited", NoCore)
  BY <1>1, <1>4
<1>7. /\ q \in [Core -> Places] /\ (\A t \in toRelease : st[t] = "RUNNING")
      /\ (\A o \in Core : (q[o] = "barrier") <=> (pc[o] = "barrier"))
      /\ (\A o \in Core : q[o] = pc[o] \/ (q[o] = "resumed" /\ pc[o] = "stalled"))
      /\ st[c] # "RUNNING"
      /\ (\A o \in Core \ {c} : q[o] = pc[o] => st[o] = status[o] /\ wakeup'[o] = wakeup[o])
      /\ (\A o \in Core : wakeup'[o] \in {wakeup[o], elapsed[c]})
      /\ (\A o \in Core : q[o] # pc[o] => wakeup'[o] = elapsed[c])
      /\ status' = st
  BY <1>2, <1>3, <1>4, <1>5
<1>8. /\ "exiting" \in {"signalling", "exiting"} /\ "exited" \in {"stalling", "exited"}
      /\ NoCore = NoCore \/ (NoCore = c /\ "exited" = "stalling")
  OBVIOUS
<1> QED BY <1>0, <1>1, <1>6, <1>7, <1>8, StoppedRegular, BarrierPlaces

\* The last core to enter the barrier finds all that run in it.
LEMMA SynchronizeRegular ==
  ASSUME BarrierInv, Detailed, Regular, InStepInv, NEW c \in Core, Synchronize(c)
  PROVE  InStepInv'
<1>1. /\ elapsed' = elapsed /\ wakeup' = wakeup /\ status' = status /\ globalTime' = globalTime
      /\ pc[c] = "run" /\ lock = NoCore /\ c \notin acquired /\ c \notin toRelease
      /\ nextBarrier' = nextBarrier
  BY SyncFacts DEF Detailed
<1>2. CASE UNCHANGED <<pc, localClock, acquired, toRelease, nextBarrier, lock>>
  BY <1>1, <1>2 DEF InStepInv, GoesOnAt, Running
<1>3. ASSUME NEW R \in SUBSET toRelease, SyncEffect(c, R)
      PROVE  InStepInv'
  <2>1. /\ localClock' = [localClock EXCEPT ![c] = elapsed[c]]
        /\ acquired' = acquired \cup {c}
        /\ \A o \in Core \ {c} : pc'[o] = IF o \in R THEN "synced" ELSE pc[o]
        /\ pc'[c] \in {"syncing", "barrier"}
        /\ lock' = NoCore \/ (lock' = c /\ IsBarrierReached(status, acquired', localClock'))
    BY <1>3, Zenon DEF SyncEffect
  <2>2. \A o \in Core : pc'[o] \notin {"init", "blocked", "unblocking", "blocking"}
    BY <2>1 DEF InStepInv
  <2>3. ASSUME NEW o \in Running(status) PROVE GoesOnAt(o)' >= globalTime
    <3>1. o \in Core /\ GoesOnAt(o) >= globalTime
      BY DEF InStepInv, Running
    <3>2. \/ pc'[o] = pc[o]
          \/ /\ pc[o] \in {"run", "barrier", "synced", "syncing"}
             /\ pc'[o] \in {"run", "barrier", "synced", "syncing"}
      BY <1>1, <2>1, <3>1, BarrierPlaces
    <3> QED BY <1>1, <3>1, <3>2 DEF GoesOnAt
  <2>4. IsBarrierReached(status, acquired', localClock') =>
          \A o \in Running(status) : o \in acquired' /\ localClock'[o] >= nextBarrier
    <3> SUFFICES ASSUME IsBarrierReached(status, acquired', localClock'), NEW o \in Running(status)
                 PROVE  o \in acquired' /\ localClock'[o] >= nextBarrier
      OBVIOUS
    <3>1. o \in Core /\ localClock'[o] >= nextBarrier
      BY DEF IsBarrierReached, Running, Detailed
    <3>2. CASE o = c
      BY <2>1, <3>1, <3>2
    <3>3. CASE o # c
      <4>1. localClock'[o] = localClock[o] /\ localClock[o] \in Nat /\ nextBarrier \in Nat
        BY <2>1, <3>1, <3>3, Types DEF BarrierInv
      <4> QED BY <4>1, <3>1, <2>1 DEF Detailed
    <3> QED BY <3>2, <3>3
  <2> QED BY <1>1, <2>1, <2>2, <2>3, <2>4 DEF InStepInv, Running
<1> QED BY <1>2, <1>3, SyncFacts

\* What a pass through barrierRelease's loop that goes on from the hooks' state s does.
PassEffect(me, s, R, place) ==
  /\ \A c \in Core \ {me} : pc'[c] = s.pc[c] \/ (c \in R /\ pc'[c] = "synced")
  /\ pc'[me] = place
  /\ place \in {"aborted", "stalling", "exited", "advancing", "barrier", "run"}
  /\ place \in {"barrier", "run"} => pc[me] = "syncing"
  /\ lock' = NoCore \/ (lock' = me /\ place \in {"aborted", "stalling", "advancing"})
  /\ nextBarrier' = nextBarrier \/ nextBarrier' = nextBarrier + Quantum

\* The global time moves to a barrier that every running core has reached.
LEMMA ReleaseRegular ==
  ASSUME BarrierInv, Detailed, Regular, InStepInv, NEW me \in Core, NEW script \in BOOLEAN,
         Release(me, script)
  PROVE  InStepInv' /\ PassesNobody
<1>0. /\ lock = me /\ me # NoCore /\ pc[me] \in ReleasePlaces
      /\ elapsed' = elapsed /\ localClock' = localClock /\ globalTime' = nextBarrier /\ ~script
  BY ReleaseFacts, LockPlace, Types, RegularFacts, ZenonT(30) DEF BarrierInv
<1>1. PICK s :
         /\ \E W \in SUBSET Core, A \in SUBSET Core : HookEffect(W, A, s)
         /\ s.acquired = acquired
         /\ s.disabled = disabled
         /\ s.nextBarrier = nextBarrier
         /\ status' = s.status /\ wakeup' = s.wakeup
         /\ Stops(me, s) \/ Aborts(me, s) \/ GoesRound(me, s) \/ \E go, R : LetsGo(me, s, go, R)
  BY <1>0, ReleaseFacts, Zenon DEF Detailed
<1>2. PICK W \in SUBSET Core, A \in SUBSET Core : HookEffect(W, A, s)
  BY <1>1
<1>3a. /\ s.status = [c \in Core |-> IF c \in W THEN "RUNNING" ELSE status[c]]
       /\ s.wakeup = [c \in Core |-> IF c \in W THEN nextBarrier ELSE wakeup[c]]
       /\ s.pc = [c \in Core |-> IF c \in A /\ pc[c] = "barrier" THEN "synced"
                                 ELSE IF c \in W /\ pc[c] = "stalled" THEN "resumed" ELSE pc[c]]
       /\ \A c \in W : IsSleeping(c)
  BY <1>2, Zenon DEF HookEffect
<1>3b. \A c \in W : pc[c] \in {"stalled", "stalling", "signalling", "advancing"}
  BY <1>3a, Types, Zenon DEF IsSleeping, SleepersStalled, BarrierInv
<1>3. /\ s.status = [c \in Core |-> IF c \in W THEN "RUNNING" ELSE status[c]]
      /\ s.wakeup = [c \in Core |-> IF c \in W THEN nextBarrier ELSE wakeup[c]]
      /\ \A c \in W : pc[c] \in {"stalled", "stalling", "signalling", "advancing"}
      /\ s.pc \in [Core -> Places]
      /\ \A c \in Core : s.pc[c] \in {pc[c], "synced", "resumed"}
      /\ \A c \in W : s.pc[c] \in {"resumed", "stalling", "signalling", "advancing"}
      /\ s.pc[me] = pc[me]
  BY <1>0, <1>3a, <1>3b, Types DEF ReleasePlaces, Places, BarrierInv
\* The running cores have all got to the barrier.
<1>4. \A c \in Running(status) : elapsed[c] >= nextBarrier
  <2>1. CASE pc[me] = "advancing"
    BY <1>0, <2>1, Types DEF InRelease, AnyThreadRunning, Running, BarrierInv
  <2>2. CASE pc[me] # "advancing"
    <3>1. \A c \in Running(status) : c \in acquired /\ localClock[c] >= nextBarrier
      BY <1>0, <2>2 DEF InStepInv
    <3> QED BY <3>1, Types DEF ClocksReported, BarrierInv
  <2> QED BY <2>1, <2>2
<1>5. PassesNobody
  BY <1>0, <1>4 DEF PassesNobody
\* The first turn of the loop lets a core go.
<1>6. GoesRound(me, s) => pc[me] = "advancing"
  <2> SUFFICES ASSUME GoesRound(me, s), pc[me] # "advancing" PROVE FALSE
    OBVIOUS
  <2>1. LetGo(me, s, nextBarrier + Quantum) = {}
    BY <1>1 DEF GoesRound
  <2>2. PICK a \in acquired : TRUE
    BY <1>0 DEF Detailed, ResumesSomeCore
  <2>3. localClock[a] < nextBarrier + Quantum
    BY <2>2, Types DEF InStepInv, ClocksReported, BarrierInv
  <2> QED BY <1>1, <2>1, <2>2, <2>3 DEF LetGo
<1>7. \E R \in SUBSET acquired : \E place : PassEffect(me, s, R, place)
  <2>0. pc[me] # "blocking" /\ ~disabled
    BY DEF InStepInv, Detailed
  <2>1. CASE Stops(me, s)
    <3>1. pc[me] = "advancing" /\ nextBarrier' = nextBarrier
      BY <1>1, <2>0, <2>1 DEF Stops
    <3>2. PICK place : ReturnEffect(me, s.pc, FALSE, place)
      BY <2>1, Zenon DEF Stops
    <3>3. pc' = [s.pc EXCEPT ![me] = "stalling"] /\ lock' = me
      BY <3>1, <3>2 DEF ReturnEffect
    <3>4. PassEffect(me, s, {}, "stalling")
      BY <3>1, <3>3, <1>3 DEF PassEffect
    <3> QED BY <3>4
  <2>2. CASE Aborts(me, s)
    <3>1. PassEffect(me, s, {}, "aborted")
      BY <1>0, <1>1, <1>3, <2>2, Zenon DEF Aborts, PassEffect
    <3> QED BY <3>1
  <2>3. CASE GoesRound(me, s)
    <3>1. PassEffect(me, s, {}, "advancing")
      BY <1>0, <1>1, <1>3, <1>6, <2>3, Zenon DEF GoesRound, PassEffect
    <3> QED BY <3>1
  <2>4. ASSUME NEW go, NEW R, LetsGo(me, s, go, R)
        PROVE  \E RR \in SUBSET acquired : \E place : PassEffect(me, s, RR, place)
    <3>1. R \in SUBSET acquired /\ nextBarrier' = nextBarrier + Quantum
      BY <1>1, <2>4, Zenon DEF LetsGo
    <3>2. PICK place : ReturnEffect(me, SignalBarrier(s.pc, R), me \notin go, place)
      BY <2>4, Zenon DEF LetsGo
    <3>3. /\ pc'[me] = place
          /\ \A c \in Core \ {me} : pc'[c] = s.pc[c] \/ (c \in R /\ pc'[c] = "synced")
      BY <3>2, <1>3 DEF ReturnEffect, SignalBarrier
    <3>4. /\ place \in {"stalling", "exited", "barrier", "run"}
          /\ place \in {"barrier", "run"} => pc[me] = "syncing"
          /\ lock' = NoCore \/ (lock' = me /\ place = "stalling")
      BY <3>2, <2>0 DEF ReturnEffect
    <3>5. PassEffect(me, s, R, place)
      BY <3>1, <3>3, <3>4 DEF PassEffect
    <3> QED BY <3>1, <3>5
  <2> QED BY <1>1, <2>1, <2>2, <2>3, <2>4, Zenon
<1>8a. PICK R \in SUBSET acquired : \E place : PassEffect(me, s, R, place)
  BY <1>7
<1>8b. PICK place : PassEffect(me, s, R, place)
  BY <1>8a
<1>8. /\ \A c \in Core \ {me} : pc'[c] = s.pc[c] \/ (c \in R /\ pc'[c] = "synced")
      /\ pc'[me] = place
      /\ place \in {"aborted", "stalling", "exited", "advancing", "barrier", "run"}
      /\ place \in {"barrier", "run"} => pc[me] = "syncing"
      /\ lock' = NoCore \/ (lock' = me /\ place \in {"aborted", "stalling", "advancing"})
      /\ nextBarrier' = nextBarrier \/ nextBarrier' = nextBarrier + Quantum
  BY <1>8b DEF PassEffect
<1>9. nextBarrier \in Nat /\ nextBarrier' \in Nat /\ nextBarrier' >= nextBarrier
  BY <1>8, Types, RegularFacts DEF BarrierInv
<1>10. ASSUME NEW c \in Core PROVE pc'[c] \notin {"init", "blocked", "unblocking", "blocking"}
  <2>1. pc'[c] = place \/ pc'[c] = "synced" \/ pc'[c] = s.pc[c]
    BY <1>8
  <2>3. s.pc[c] \in {pc[c], "synced", "resumed"}
    BY <1>3
  <2>2. pc[c] \notin {"init", "blocked", "unblocking", "blocking"}
    BY DEF InStepInv
  <2> QED BY <2>1, <2>2, <2>3, <1>8
<1>11. ASSUME NEW c \in Core
       PROVE  elapsed'[c] < nextBarrier' + Quantum /\ wakeup'[c] < nextBarrier' + Quantum
  <2>1. /\ elapsed'[c] = elapsed[c] /\ elapsed[c] < nextBarrier + Quantum
        /\ wakeup'[c] \in {nextBarrier, wakeup[c]} /\ wakeup[c] < nextBarrier + Quantum
        /\ elapsed[c] \in Nat /\ wakeup[c] \in Nat /\ Quantum \in Nat /\ Quantum > 0
    <3>1. wakeup'[c] \in {nextBarrier, wakeup[c]}
      BY <1>1, <1>3, Zenon
    <3>2. elapsed[c] < nextBarrier + Quantum /\ wakeup[c] < nextBarrier + Quantum
      BY DEF InStepInv
    <3>3. elapsed[c] \in Nat /\ wakeup[c] \in Nat /\ Quantum \in Nat /\ Quantum > 0
      BY Types, RegularFacts DEF BarrierInv
    <3> QED BY <3>1, <3>2, <3>3, <1>0
  <2> QED BY <2>1, <1>9
<1>12. ASSUME NEW c \in Running(status)' PROVE GoesOnAt(c)' >= nextBarrier
  <2>0. c \in Core /\ status'[c] = "RUNNING" /\ elapsed'[c] = elapsed[c] /\ elapsed[c] \in Nat
    BY <1>0, Types DEF Running, BarrierInv
  <2>1. wakeup'[c] \in Nat
    BY <1>1, <1>3, <2>0, Types, ZenonT(30) DEF BarrierInv
  <2>2. CASE c \in W
    <3>1. c \notin acquired
      BY <1>3, <2>2, BarrierPlaces
    <3>2. pc'[c] \notin {"run", "barrier", "synced", "syncing"}
      BY <1>3, <1>8, <2>0, <2>2, <3>1, Zenon
    <3>3. wakeup'[c] = nextBarrier
      BY <1>1, <1>3, <2>0, <2>2, Zenon
    <3> QED BY <3>2, <3>3, <2>0, <1>9 DEF GoesOnAt, Max2
  <2>3. CASE c \notin W
    <3>1. c \in Running(status)
      BY <1>1, <1>3, <2>0, <2>3, Zenon DEF Running
    <3>2. elapsed[c] >= nextBarrier
      BY <3>1, <1>4
    <3> QED BY <3>2, <2>0, <2>1, <1>9, BarrierPlaces DEF GoesOnAt, Max2
  <2> QED BY <2>2, <2>3
<1>13. ~(lock' # NoCore /\ pc'[lock'] \in ReleasePlaces \ {"advancing"})
  BY <1>0, <1>8 DEF ReleasePlaces
<1>14. InStepInv'
  BY <1>0, <1>9, <1>10, <1>11, <1>12, <1>13 DEF InStepInv
<1> QED BY <1>5, <1>14

\* All three layers hold when the simulation begins.
LEMMA InitIInv == Init => IInv
<1> SUFFICES ASSUME Init PROVE IInv
  OBVIOUS
<1>1. BarrierInv
  BY InitInv
<1>2. ASSUME DetailedOnly PROVE Detailed
  <2>1. ~fastforward /\ ~disabled
    BY <1>2, Zenon DEF Init, DetailedOnly
  <2>2. Quantum \in Nat /\ Quantum > 0 /\ AtQuantum(Quantum)
    <3>1. Quantum \in Nat /\ Quantum > 0 /\ Quantum = 1 * Quantum
      BY BarrierConstants
    <3> QED BY <3>1 DEF AtQuantum
  <2>3. \A c \in Core : pc[c] # "synced"
    BY DEF Init
  <2> QED BY <2>1, <2>2, <2>3 DEF Init, Detailed, ResumesSomeCore
<1>3. InStepInv
  <2>1. Quantum \in Nat /\ Quantum > 0
    BY BarrierConstants
  <2> QED BY <2>1 DEF Init, InStepInv, GoesOnAt, Max2, Running
<1> QED BY <1>1, <1>2, <1>3 DEF IInv, DetailedInv, RegularInv

\* Every step of a regular application keeps the third layer.
LEMMA NextRegular ==
  ASSUME BarrierInv, Detailed, Regular, InStepInv, [Next]_vars
  PROVE  InStepInv' /\ PassesNobody
<1>1. CASE UNCHANGED vars
  BY <1>1, Types DEF vars, clocks, server, InStepInv, GoesOnAt, Running, PassesNobody, BarrierInv
<1>2. CASE Next
  <2>1. PICK c \in Core :
    \/ \E d \in Steps : Execute(c, d)
    \/ Synchronize(c)
    \/ \E script \in BOOLEAN : Release(c, script)
    \/ LeaveBarrier(c)
    \/ Stall(c)
    \/ \E d \in SleepTimes : Sleep(c, d)
    \/ StallLoop(c)
    \/ \E o \in Core : Resume(c, o)
    \/ LeaveStall(c)
    \/ Block(c)
    \/ ReadWakeTime(c)
    \/ Unblock(c)
    \/ \E o \in Core : Spawn(c, o)
    \/ Start(c)
    \/ \E waiter \in JoinSets : Exit(c, waiter)
    \/ Roi(c)
    BY <1>2 DEF Next
  <2>0. globalTime \in Nat
    BY Types DEF BarrierInv
  <2>2. ASSUME NEW script \in BOOLEAN, Release(c, script) PROVE InStepInv' /\ PassesNobody
    BY <2>2, ReleaseRegular
  <2>3. CASE ~\E script \in BOOLEAN : Release(c, script)
    <3>1. globalTime' = globalTime
      <4>1. Synchronize(c) => globalTime' = globalTime
        BY SyncFacts, Zenon
      <4>2. ~Roi(c)
        BY RegularFacts DEF Roi, BarrierInv
      <4> QED BY <2>1, <2>3, <4>1, <4>2, Zenon
              DEF Execute, LeaveBarrier, Stall, StallThread, Sleep, StallLoop, BeginRelease, Resume,
                  LeaveStall, Block, ReadWakeTime, Unblock, Spawn, Start, Exit, server
    <3>2. PassesNobody
      BY <3>1, <2>0 DEF PassesNobody
    <3>3. CASE \/ \E d \in Steps : Execute(c, d)
               \/ LeaveBarrier(c) \/ (\E o \in Core : Resume(c, o)) \/ LeaveStall(c)
               \/ ReadWakeTime(c) \/ Unblock(c) \/ (\E o \in Core : Spawn(c, o))
               \/ Block(c) \/ Start(c) \/ Roi(c)
      BY <3>3, <3>2, SmallStepsRegular
    <3>4. CASE Synchronize(c)
      BY <3>4, <3>2, SynchronizeRegular
    <3>5. CASE Stall(c) \/ \E d \in SleepTimes : Sleep(c, d)
      <4>1. pc[c] = "run" /\ lock = NoCore /\ StallThread(c)
        BY <3>5, Zenon DEF Stall, Sleep
      <4> QED BY <4>1, <3>2, StallRegular
    <3>6. CASE StallLoop(c)
      BY <3>6, <3>2, StallLoopRegular
    <3>7. ASSUME NEW waiter \in JoinSets, Exit(c, waiter) PROVE InStepInv' /\ PassesNobody
      BY <3>7, <3>2, ExitRegular
    <3> QED BY <2>1, <2>3, <3>3, <3>4, <3>5, <3>6, <3>7
  <2> QED BY <2>2, <2>3
<1> QED BY <1>1, <1>2

\* Every step keeps the inductive invariant, and passes over nobody.
LEMMA NextIInv == IInv /\ [Next]_vars => IInv' /\ (Regular => PassesNobody)
<1> SUFFICES ASSUME IInv, [Next]_vars PROVE IInv' /\ (Regular => PassesNobody)
  OBVIOUS
<1>1. BarrierInv /\ BarrierInv' /\ DetailedInv /\ RegularInv
  BY NextInv DEF IInv
<1>2. config' = config
  BY <1>1, NextConfig DEF vars
<1>3. DetailedInv'
  <2>1. CASE DetailedOnly
    BY <2>1, <1>1, NextDetailed DEF DetailedInv
  <2>2. CASE ~DetailedOnly
    BY <2>2, <1>2 DEF DetailedInv, DetailedOnly
  <2> QED BY <2>1, <2>2
<1>4. RegularInv' /\ (Regular => PassesNobody)
  <2>1. CASE Regular
    <3>1. Detailed /\ InStepInv
      BY <2>1, <1>1 DEF Regular, DetailedInv, RegularInv
    <3> QED BY <2>1, <3>1, <1>1, NextRegular DEF RegularInv
  <2>2. CASE ~Regular
    BY <2>2, <1>2 DEF RegularInv, Regular, DetailedOnly
  <2> QED BY <2>1, <2>2
<1> QED BY <1>1, <1>3, <1>4 DEF IInv

\* The inductive invariant holds in every reachable state, in every mode.
THEOREM InductiveInvariant == Spec => []IInv
<1>1. IInv /\ [Next]_vars => IInv'
  BY NextIInv
<1> QED BY <1>1, InitIInv, PTL DEF Spec

\* The server's lists and clocks stay of their types.
THEOREM TypesCorrect == Spec => []TypeOK
<1>1. IInv => TypeOK
  BY DEF IInv, BarrierInv
<1> QED BY <1>1, InductiveInvariant, PTL

\* The LOG_ASSERT_ERRORs of synchronize, release and barrierRelease hold in every
\* interleaving: no core enters the barrier twice or while it is being let go.
THEOREM AssertionsAlwaysHold == Spec => []AssertionsHold
<1>1. IInv => AssertionsHold
  BY DEF IInv, BarrierInv
<1> QED BY <1>1, InductiveInvariant, PTL

\* A thread waits in the barrier exactly when the server has it listed as acquired
\* or to be released: no wake-up is lost, whatever the order of the callbacks.
THEOREM ReleasesNeverLost == Spec => []NoLostRelease
<1>1. IInv => NoLostRelease
  BY DEF IInv, BarrierInv
<1> QED BY <1>1, InductiveInvariant, PTL

\* In detailed simulation barrierRelease is entered with a core in the barrier, so
\* that its loop, which advances until it lets one go, comes to an end.
THEOREM ReleaseAlwaysEnds == Spec => []ReleaseEnds
<1>1. IInv => ReleaseEnds
  BY DEF IInv, DetailedInv, Detailed, ReleaseEnds
<1> QED BY <1>1, InductiveInvariant, PTL

\* A core neither runs past the barrier nor, in a regular application, executes
\* before the global time.
THEOREM AlwaysInStep == Spec => []InStep
<1>1. IInv => InStep
  <2> SUFFICES ASSUME IInv PROVE InStep
    OBVIOUS
  <2>1. NoRunAhead
    <3> SUFFICES ASSUME DetailedOnly, NEW c \in Core, elapsed[c] < nextSync[c]
                 PROVE  elapsed[c] < nextBarrier
      BY DEF NoRunAhead
    <3>1. nextSync[c] <= nextBarrier
      BY DEF IInv, DetailedInv, Detailed
    <3>2. elapsed[c] \in Nat /\ nextSync[c] \in Nat /\ nextBarrier \in Nat
      BY Types DEF IInv, BarrierInv
    <3> QED BY <3>1, <3>2
  <2>2. NotInThePast
    BY Types DEF IInv, BarrierInv, StatusOfPlace, RegularInv, InStepInv, GoesOnAt, Running, NotInThePast
  <2> QED BY <2>1, <2>2 DEF InStep
<1> QED BY <1>1, InductiveInvariant, PTL

\* The global time of a regular application never moves past a core that runs: what
\* isBarrierReached is there to ensure.
THEOREM NobodyEverLeftBehind == Spec => NobodyLeftBehind
<1>1. IInv /\ [Next]_vars => [Regular => PassesNobody]_vars
  BY NextIInv
<1> QED BY <1>1, InductiveInvariant, PTL DEF Spec, NobodyLeftBehind
=============================================================================
