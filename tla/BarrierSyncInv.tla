--------------------------- MODULE BarrierSyncInv ---------------------------
(***************************************************************************)
(* The first layer of the invariant holds in every mode of the simulator:  *)
(* the barrier's lists, the threads' places and what ThreadManager records *)
(* agree.                                                                  *)
(***************************************************************************)
EXTENDS BarrierSyncFacts

\* An instruction moves only the clock of a core outside the barrier.
LEMMA ExecuteInv ==
  ASSUME BarrierInv, NEW c \in Core, NEW d, Execute(c, d)
  PROVE  BarrierInv'
<1> USE Types DEF BarrierInv, Execute, server
<1>1. config.steps \subseteq Nat
  BY BarrierConstants
<1>2. elapsed' \in [Core -> Nat]
  BY <1>1
<1>3. TypeOK'
  BY <1>2 DEF TypeOK, Time
<1>4. AssertionsHold'
  BY DEF AssertionsHold
<1>5. NoLostRelease'
  BY DEF NoLostRelease
<1>6. StatusOfPlace'
  BY DEF StatusOfPlace
<1>7. SleepersStalled'
  BY DEF SleepersStalled
<1>8. ClocksReported'
  BY Zenon DEF ClocksReported, NoLostRelease
<1>9. InRelease'
  BY DEF InRelease
<1> QED BY <1>3, <1>4, <1>5, <1>6, <1>7, <1>8, <1>9

\* A core that doRelease signalled goes on.
LEMMA LeaveBarrierInv ==
  ASSUME BarrierInv, NEW c \in Core, LeaveBarrier(c)
  PROVE  BarrierInv'
<1> USE Types DEF BarrierInv, LeaveBarrier, server
<1>2. nextSync' \in [Core -> Nat] /\ pc' \in [Core -> Places]
  BY NextSyncType, Zenon DEF Places
<1>3. TypeOK'
  BY <1>2 DEF TypeOK, Time, ReleasePlaces
<1>4. AssertionsHold'
  BY DEF AssertionsHold, StatusOfPlace, NoLostRelease
<1>5. NoLostRelease'
  BY DEF NoLostRelease
<1>6. StatusOfPlace'
  BY DEF StatusOfPlace
<1>7. SleepersStalled'
  BY DEF SleepersStalled
<1>8. ClocksReported'
  BY DEF ClocksReported, NoLostRelease
<1>9. InRelease'
  BY DEF InRelease
<1> QED BY <1>3, <1>4, <1>5, <1>6, <1>7, <1>8, <1>9

\* A thread that was resumed returns from stallThread at its wake-up time.
LEMMA LeaveStallInv ==
  ASSUME BarrierInv, NEW c \in Core, LeaveStall(c)
  PROVE  BarrierInv'
<1> USE Types DEF BarrierInv, LeaveStall, server, SkipToWakeup, Max2
<1>2. elapsed' \in [Core -> Nat] /\ pc' \in [Core -> Places] /\ wakeup' \in [Core -> Nat]
  BY DEF Places
<1>3. TypeOK'
  BY <1>2, Zenon DEF TypeOK, Time, ReleasePlaces
<1>4. AssertionsHold'
  BY DEF AssertionsHold, StatusOfPlace, NoLostRelease
<1>5. NoLostRelease'
  BY DEF NoLostRelease
<1>6. StatusOfPlace'
  BY DEF StatusOfPlace
<1>7. SleepersStalled'
  BY DEF SleepersStalled
<1>8. ClocksReported'
  BY Zenon DEF ClocksReported, NoLostRelease
<1>9. InRelease'
  BY DEF InRelease
<1> QED BY <1>3, <1>4, <1>5, <1>6, <1>7, <1>8, <1>9

\* Only a thread that waits is resumed, and it is not in the barrier.
LEMMA ResumeInv ==
  ASSUME BarrierInv, NEW by \in Core, NEW c \in Core, Resume(by, c)
  PROVE  BarrierInv'
<1> USE Types DEF BarrierInv, Resume, server, SignalThread
<1>2. status' \in [Core -> Statuses] /\ pc' \in [Core -> Places] /\ wakeup' \in [Core -> Nat]
  BY DEF Places, Statuses
<1>3. TypeOK'
  BY <1>2, Zenon DEF TypeOK, Time, ReleasePlaces
<1>4. AssertionsHold'
  BY <1>2 DEF AssertionsHold, StatusOfPlace, NoLostRelease
<1>5. NoLostRelease'
  BY <1>2 DEF NoLostRelease
<1>6. StatusOfPlace'
  BY <1>2 DEF StatusOfPlace
<1>7. SleepersStalled'
  BY <1>2 DEF SleepersStalled, IsSleeping
<1>8. ClocksReported'
  BY <1>2 DEF ClocksReported, NoLostRelease
<1>9. InRelease'
  BY <1>2 DEF InRelease
<1> QED BY <1>3, <1>4, <1>5, <1>6, <1>7, <1>8, <1>9

\* Reading the time at which a system call ends leaves the server alone.
LEMMA ReadWakeTimeInv ==
  ASSUME BarrierInv, NEW c \in Core, ReadWakeTime(c)
  PROVE  BarrierInv'
<1> USE Types DEF BarrierInv, ReadWakeTime, server
<1>2. pc' \in [Core -> Places] /\ wakeup' \in [Core -> Nat]
  BY DEF Places, Statuses
<1>3. TypeOK'
  BY <1>2, Zenon DEF TypeOK, Time, ReleasePlaces
<1>a. lock # NoCore => lock \in Core /\ lock # c
  BY LockPlace, Zenon DEF ReleasePlaces
<1>4. AssertionsHold'
  BY <1>2, <1>a DEF AssertionsHold, StatusOfPlace, NoLostRelease, ReleasePlaces
<1>5. NoLostRelease'
  BY <1>2 DEF NoLostRelease
<1>6. StatusOfPlace'
  BY <1>2 DEF StatusOfPlace
<1>7. SleepersStalled'
  BY <1>2 DEF SleepersStalled, IsSleeping
<1>8. ClocksReported'
  BY <1>2 DEF ClocksReported, NoLostRelease
<1>9. InRelease'
  BY <1>2, <1>a DEF InRelease, ReleasePlaces
<1> QED BY <1>3, <1>4, <1>5, <1>6, <1>7, <1>8, <1>9

\* A thread back from the operating system runs outside the barrier.
LEMMA UnblockInv ==
  ASSUME BarrierInv, NEW c \in Core, Unblock(c)
  PROVE  BarrierInv'
<1> USE Types DEF BarrierInv, Unblock, server, SkipToWakeup, Max2
<1>2. status' \in [Core -> Statuses] /\ pc' \in [Core -> Places] /\ wakeup' \in [Core -> Nat] /\ elapsed' \in [Core -> Nat]
  BY DEF Places, Statuses
<1>3. TypeOK'
  BY <1>2 DEF TypeOK, Time, ReleasePlaces
<1>4. AssertionsHold'
  BY <1>2 DEF AssertionsHold, StatusOfPlace, NoLostRelease
<1>5. NoLostRelease'
  BY <1>2 DEF NoLostRelease
<1>6. StatusOfPlace'
  BY <1>2 DEF StatusOfPlace
<1>7. SleepersStalled'
  BY <1>2 DEF SleepersStalled, IsSleeping
<1>8. ClocksReported'
  BY <1>2 DEF ClocksReported, NoLostRelease
<1>9. InRelease'
  BY <1>2 DEF InRelease
<1> QED BY <1>3, <1>4, <1>5, <1>6, <1>7, <1>8, <1>9

\* A new thread is initializing until it starts.
LEMMA SpawnInv ==
  ASSUME BarrierInv, NEW by \in Core, NEW c \in Core, Spawn(by, c)
  PROVE  BarrierInv'
<1> USE Types DEF BarrierInv, Spawn, server
<1>2. status' \in [Core -> Statuses] /\ pc' \in [Core -> Places] /\ wakeup' \in [Core -> Nat]
  BY DEF Places, Statuses
<1>3. TypeOK'
  BY <1>2 DEF TypeOK, Time, ReleasePlaces
<1>4. AssertionsHold'
  BY <1>2 DEF AssertionsHold, StatusOfPlace, NoLostRelease
<1>5. NoLostRelease'
  BY <1>2 DEF NoLostRelease
<1>6. StatusOfPlace'
  BY <1>2 DEF StatusOfPlace
<1>7. SleepersStalled'
  BY <1>2 DEF SleepersStalled, IsSleeping
<1>8. ClocksReported'
  BY <1>2 DEF ClocksReported, NoLostRelease
<1>9. InRelease'
  BY <1>2 DEF InRelease
<1> QED BY <1>3, <1>4, <1>5, <1>6, <1>7, <1>8, <1>9

\* A thread that starts takes one core out of the list to release.
LEMMA StartInv ==
  ASSUME BarrierInv, NEW c \in Core, Start(c)
  PROVE  BarrierInv'
<1> USE Types, BarrierPlaces DEF BarrierInv, Start
<1>1. PICK R \in SUBSET toRelease :
        /\ toRelease' = toRelease \ R
        /\ pc' = [SignalBarrier(pc, R) EXCEPT ![c] = "run"]
  BY Zenon DEF DoRelease
<1>2. /\ status' \in [Core -> Statuses] /\ elapsed' \in [Core -> Nat] /\ wakeup' \in [Core -> Nat]
  BY DEF Statuses, Max2
<1>a. /\ pc' \in [Core -> Places]
      /\ \A o \in Core : pc'[o] = IF o = c THEN "run" ELSE IF o \in R THEN "synced" ELSE pc[o]
  BY <1>1, Zenon DEF SignalBarrier, Places
<1>b. \A o \in Core : pc'[o] \in ReleasePlaces \cup {"stalling", "aborted"} <=> lock' = o
  BY <1>a, LockPlace DEF ReleasePlaces
<1>3. TypeOK'
  BY <1>1, <1>2, <1>a, <1>b, Zenon DEF TypeOK, Time
<1>4. AssertionsHold'
  BY <1>1, <1>2, <1>a DEF AssertionsHold
<1>5. NoLostRelease'
  BY <1>1, <1>a DEF NoLostRelease
<1>6. StatusOfPlace'
  BY <1>1, <1>a DEF StatusOfPlace
<1>7. SleepersStalled'
  BY SleepersKept, <1>1, <1>a
<1>8. ClocksReported'
  BY <1>1, <1>a DEF ClocksReported
<1>9. InRelease'
  BY DEF InRelease
<1> QED BY <1>3, <1>4, <1>5, <1>6, <1>7, <1>8, <1>9

\* Switching the mode aborts the barrier: nobody is left in it.
LEMMA RoiInv ==
  ASSUME BarrierInv, NEW c \in Core, Roi(c)
  PROVE  BarrierInv'
<1> USE Types, BarrierPlaces DEF BarrierInv, Roi, clocks
<1> DEFINE s == SetPerformance(Hooked)
<1>1. ModeEffect(s, status, pc, wakeup, sleeping, acquired, nextBarrier)
  <2>1. \A ff \in BOOLEAN, dis \in BOOLEAN :
          ModeEffect(SetPerformance(Rec(status, pc, wakeup, sleeping, acquired, nextBarrier, ff, dis)),
                     status, pc, wakeup, sleeping, acquired, nextBarrier)
    BY SetPerformanceFacts
  <2>2. fastforward \in BOOLEAN /\ disabled \in BOOLEAN
    BY Types
  <2> QED BY <2>1, <2>2, Zenon DEF Hooked, Rec
<1> HIDE DEF s
<1>0. /\ pc' = s.pc /\ acquired' = s.acquired /\ nextBarrier' = s.nextBarrier
      /\ fastforward' = s.fastforward /\ disabled' = s.disabled
  BY DEF s
<1>2. nextBarrier' \in Nat /\ nextBarrier' >= nextBarrier
  BY <1>0, <1>1 DEF ModeEffect
<1>b. fastforward' \in BOOLEAN /\ disabled' \in BOOLEAN
  BY <1>0, <1>1, Zenon DEF ModeEffect
<1>a. \/ pc' = pc /\ acquired' = acquired
      \/ pc' = SignalBarrier(pc, acquired) /\ acquired' = {}
  BY <1>0, <1>1, Zenon DEF ModeEffect
<1>c. /\ pc' \in [Core -> Places] /\ acquired' \subseteq acquired
      /\ \A o \in Core : pc'[o] = IF o \in acquired \ acquired' THEN "synced" ELSE pc[o]
  BY <1>a, Zenon DEF SignalBarrier, Places
<1>3. TypeOK'
  BY <1>2, <1>b, <1>c, Zenon DEF TypeOK, Time, ReleasePlaces
<1>4. AssertionsHold'
  BY <1>c DEF AssertionsHold
<1>5. NoLostRelease'
  BY <1>c, Zenon DEF NoLostRelease
<1>6. StatusOfPlace'
  BY <1>c DEF StatusOfPlace
<1>7. SleepersStalled'
  BY SleepersKept, <1>c
<1>8. ClocksReported'
  BY <1>2, <1>c DEF ClocksReported
<1>9. InRelease'
  BY DEF InRelease
<1> QED BY <1>3, <1>4, <1>5, <1>6, <1>7, <1>8, <1>9

\* The loop of stallThread begins a release only when nobody runs.
LEMMA StallLoopInv ==
  ASSUME BarrierInv, NEW c \in Core, StallLoop(c)
  PROVE  BarrierInv'
<1> USE Types, BarrierPlaces DEF BarrierInv, StallLoop
<1>0. lock = c /\ c # NoCore
  BY LockPlace
<1>1. CASE ~AnyThreadRunning(status)
  <2>0. nextBarrier' \in Nat
    <3>1. MaxOf(localClock, Core, nextBarrier) \in Nat
      BY MaxOfType, Zenon
    <3> QED BY <1>1, <3>1 DEF BeginRelease
  <2>1. /\ lock' = c /\ pc' = [pc EXCEPT ![c] = "advancing"]
        /\ elapsed' = elapsed /\ wakeup' = wakeup
    BY <1>1 DEF BeginRelease
  <2>2. acquired = {} /\ toRelease = {}
    BY <1>1 DEF AnyThreadRunning
  <2>3. TypeOK'
    BY <2>0, <2>1, Zenon DEF TypeOK, Time, ReleasePlaces, Places
  <2>4. AssertionsHold'
    BY <2>1, <2>2 DEF AssertionsHold
  <2>5. NoLostRelease'
    BY <2>1, <2>2 DEF NoLostRelease
  <2>6. StatusOfPlace'
    BY <2>1 DEF StatusOfPlace
  <2>7. SleepersStalled'
    BY SleepersKept, <2>1
  <2>8. ClocksReported'
    BY <2>1, <2>2 DEF ClocksReported
  <2>9. InRelease'
    BY <1>1, <2>1 DEF InRelease, ReleasePlaces, AnyThreadRunning
  <2> QED BY <2>3, <2>4, <2>5, <2>6, <2>7, <2>8, <2>9
<1>2. CASE AnyThreadRunning(status)
  <2> DEFINE place == IF status[c] = "RUNNING" THEN "run" ELSE "stalled"
  <2>1. /\ lock' = NoCore /\ pc' = [pc EXCEPT ![c] = place] /\ nextBarrier' = nextBarrier
        /\ elapsed' \in [Core -> Nat] /\ wakeup' \in [Core -> Nat]
        /\ \A o \in Core \ {c} : elapsed'[o] = elapsed[o]
    <3>1. /\ lock' = NoCore /\ pc' = [pc EXCEPT ![c] = place] /\ nextBarrier' = nextBarrier
      BY <1>2
    <3>2. CASE status[c] = "RUNNING"
      <4>1. SkipToWakeup(c)
        BY <1>2, <3>2
      <4> QED BY <3>1, <4>1, SkipFacts
    <3>3. CASE status[c] # "RUNNING"
      <4>1. elapsed' = elapsed /\ wakeup' = wakeup
        BY <1>2, <3>3
      <4> QED BY <3>1, <4>1
    <3> QED BY <3>1, <3>2, <3>3
  <2>3. TypeOK'
    BY <1>0, <2>1, LockPlace, Zenon DEF TypeOK, Time, ReleasePlaces, Places
  <2>4. AssertionsHold'
    BY <2>1, Zenon DEF AssertionsHold
  <2>5. NoLostRelease'
    BY <2>1 DEF NoLostRelease
  <2>6. StatusOfPlace'
    BY <2>1 DEF StatusOfPlace
  <2>7. SleepersStalled'
    BY SleepersKept, <2>1
  <2>8. ClocksReported'
    BY <2>1, ZenonT(30) DEF ClocksReported
  <2>9. InRelease'
    BY <2>1 DEF InRelease
  <2> QED BY <2>3, <2>4, <2>5, <2>6, <2>7, <2>8, <2>9
<1> QED BY <1>1, <1>2

\* stallThread up to the point where its hooks have returned.
LEMMA StallThreadInv ==
  ASSUME BarrierInv, NEW c \in Core, pc[c] = "run", lock = NoCore, StallThread(c),
         NEW t \in Nat, sleeping' = sleeping \/ sleeping' = Append(sleeping, [thread |-> c, timeout |-> t])
  PROVE  BarrierInv'
<1> USE Types, BarrierPlaces DEF BarrierInv
<1>0. c # NoCore
  BY LockPlace
<1>1. /\ config' = config /\ elapsed' = elapsed /\ wakeup' = wakeup /\ nextSync' = nextSync
      /\ acquired' = acquired /\ globalTime' = globalTime
      /\ fastforward' = fastforward /\ disabled' = disabled
      /\ status' = [status EXCEPT ![c] = "STALLED"]
      /\ ThreadStopped(c, status', pc, "signalling", "stalling", c)
  BY DEF StallThread
<1>2. status' \in [Core -> Statuses] /\ c \notin acquired /\ c \notin toRelease
  BY <1>1 DEF Statuses
<1>3. \A u \in toRelease : status'[u] = "RUNNING"
  BY <1>1, <1>2
<1>a. PICK st, p : st = status' /\ p = pc
  OBVIOUS
<1>b. ThreadStopped(c, st, p, "signalling", "stalling", c)
  BY <1>1, <1>a, Zenon
<1>4. /\ localClock' = localClock
      /\ nextBarrier' \in Nat /\ nextBarrier' >= nextBarrier
  BY <1>a, <1>b, <1>3, StoppedFacts, Zenon
<1>5. PICK R \in SUBSET toRelease :
              /\ toRelease' = toRelease \ R
              /\ \/ /\ lock' = c /\ toRelease' = {} /\ ~disabled
                    /\ pc' = [o \in Core |-> IF o = c THEN "signalling"
                                             ELSE IF o \in R THEN "synced" ELSE pc[o]]
                 \/ /\ lock' = c /\ nextBarrier' = nextBarrier
                    /\ pc' = [o \in Core |-> IF o = c THEN "stalling"
                                             ELSE IF o \in R THEN "synced" ELSE pc[o]]
  <2>1. StoppedEffect(c, st, p, "signalling", "stalling", c)
    BY <1>a, <1>b, <1>3, StoppedFacts, Zenon
  <2> QED BY <1>a, <2>1, ZenonT(30) DEF StoppedEffect
<1>6. /\ \A o \in Core \ {c} : pc'[o] = IF o \in R THEN "synced" ELSE pc[o]
      /\ pc'[c] \in {"signalling", "stalling"} /\ pc' \in [Core -> Places] /\ lock' = c
      /\ pc'[c] = "signalling" => toRelease' = {} /\ ~disabled
  BY <1>5 DEF Places, ReleasePlaces
<1>7. sleeping' \in Seq(Sleepers)
  <2>1. [thread |-> c, timeout |-> t] \in Sleepers
    BY DEF Sleepers
  <2> DEFINE e == [thread |-> c, timeout |-> t]
  <2>2. sleeping' = sleeping \/ sleeping' = Append(sleeping, e)
    OBVIOUS
  <2> HIDE DEF e
  <2>3. e \in Sleepers
    BY <2>1 DEF e
  <2>4. sleeping \in Seq(Sleepers)
    OBVIOUS
  <2>5. Append(sleeping, e) \in Seq(Sleepers)
    BY <2>3, <2>4
  <2> QED BY <2>2, <2>4, <2>5, Zenon
<1>8. \A o \in Core : pc'[o] \in ReleasePlaces \cup {"stalling", "aborted"} <=> lock' = o
  BY <1>6, LockPlace, ZenonT(30) DEF ReleasePlaces
<1>9. TypeOK'
  BY <1>1, <1>2, <1>4, <1>5, <1>6, <1>7, <1>8, Zenon DEF TypeOK, Time, Statuses, Sleepers
<1>10. AssertionsHold'
  BY <1>1, <1>2, <1>5, <1>6 DEF AssertionsHold, ReleasePlaces
<1>11. NoLostRelease'
  BY <1>1, <1>2, <1>5, <1>6, ZenonT(30) DEF NoLostRelease
<1>12. StatusOfPlace'
  BY <1>1, <1>2, <1>6, ZenonT(30) DEF StatusOfPlace
<1>13. SleepersStalled'
  <2>1. CASE sleeping' = sleeping
    BY <1>1, <1>6, <2>1, SleepersKept, ZenonT(30)
  <2>2. CASE sleeping' = Append(sleeping, [thread |-> c, timeout |-> t])
    <3>1. \A i \in DOMAIN sleeping :
            /\ sleeping[i].thread \in Core
            /\ status[sleeping[i].thread] = "STALLED"
            /\ pc[sleeping[i].thread] \in {"stalled", "stalling", "signalling", "advancing"}
      <4> TAKE i \in DOMAIN sleeping
      <4>1. sleeping[i] \in Sleepers
        OBVIOUS
      <4> QED BY <4>1, Zenon DEF Sleepers, SleepersStalled
    <3>2. \A i \in DOMAIN sleeping : sleeping[i].thread # c
      BY <3>1, Zenon
    <3>3. /\ Len(sleeping) \in Nat /\ DOMAIN sleeping = 1 .. Len(sleeping)
          /\ DOMAIN sleeping' = 1 .. Len(sleeping) + 1
          /\ \A i \in DOMAIN sleeping' : sleeping'[i] = IF i \in DOMAIN sleeping THEN sleeping[i]
                                                        ELSE [thread |-> c, timeout |-> t]
      BY <2>2
    <3>4. \A i \in DOMAIN sleeping' :
            sleeping'[i].thread = IF i \in DOMAIN sleeping THEN sleeping[i].thread ELSE c
      BY <3>3
    <3>5. \A i \in DOMAIN sleeping' :
            /\ status'[sleeping'[i].thread] = "STALLED"
            /\ pc'[sleeping'[i].thread] \in {"stalled", "stalling", "signalling", "advancing"}
      <4> TAKE i \in DOMAIN sleeping'
      <4>1. CASE i \in DOMAIN sleeping
        <5> DEFINE w == sleeping[i].thread
        <5>1. sleeping'[i].thread = w /\ w \in Core \ {c} /\ status[w] = "STALLED"
              /\ pc[w] \in {"stalled", "stalling", "signalling", "advancing"}
          BY <4>1, <3>1, <3>2, <3>4, ZenonT(30)
        <5> HIDE DEF w
        <5> QED BY <5>1, <1>1, <1>6, ZenonT(30)
      <4>2. CASE i \notin DOMAIN sleeping
        BY <4>2, <1>1, <1>6, <3>4
      <4> QED BY <4>1, <4>2
    <3>6. \A i, j \in DOMAIN sleeping' : sleeping'[i].thread = sleeping'[j].thread => i = j
      <4> TAKE i, j \in DOMAIN sleeping'
      <4>1. i \notin DOMAIN sleeping => i = Len(sleeping) + 1
        BY <3>3
      <4>2. j \notin DOMAIN sleeping => j = Len(sleeping) + 1
        BY <3>3
      <4> QED BY <4>1, <4>2, <3>2, <3>4, Zenon DEF SleepersStalled
    <3> QED BY <3>5, <3>6 DEF SleepersStalled
  <2> QED BY <2>1, <2>2
<1>14. ClocksReported'
  BY <1>1, <1>4, <1>5, ZenonT(30) DEF ClocksReported
<1>15. InRelease'
  BY <1>0, <1>1, <1>5, <1>6 DEF InRelease, ReleasePlaces
<1> QED BY <1>9, <1>10, <1>11, <1>12, <1>13, <1>14, <1>15

\* A thread that stalls is not in the barrier.
LEMMA StallInv ==
  ASSUME BarrierInv, NEW c \in Core, Stall(c)
  PROVE  BarrierInv'
BY StallThreadInv DEF Stall

\* A thread that goes to sleep is listed once, and is stalled.
LEMMA SleepInv ==
  ASSUME BarrierInv, NEW c \in Core, NEW d, Sleep(c, d)
  PROVE  BarrierInv'
<1>1. elapsed[c] + d \in Nat
  <2>1. config \in Configs /\ elapsed[c] \in Nat
    BY Types DEF BarrierInv
  <2>2. d \in Nat
    BY <2>1, BarrierConstants DEF Sleep
  <2> QED BY <2>1, <2>2
<1> QED BY <1>1, StallThreadInv DEF Sleep

\* A thread that blocks in the operating system is not in the barrier.
LEMMA BlockInv ==
  ASSUME BarrierInv, NEW c \in Core, Block(c)
  PROVE  BarrierInv'
<1> USE Types, BarrierPlaces DEF BarrierInv
<1>0. c # NoCore /\ pc[c] = "run" /\ lock = NoCore
  BY LockPlace DEF Block
<1>1. /\ config' = config /\ elapsed' = elapsed /\ wakeup' = wakeup /\ nextSync' = nextSync
      /\ acquired' = acquired /\ globalTime' = globalTime
      /\ fastforward' = fastforward /\ disabled' = disabled /\ sleeping' = sleeping
      /\ status' = [status EXCEPT ![c] = "STALLED"]
      /\ ThreadStopped(c, status', pc, "blocking", "blocked", NoCore)
  BY DEF Block
<1>2. status' \in [Core -> Statuses] /\ c \notin acquired /\ c \notin toRelease
  BY <1>0, <1>1 DEF Statuses
<1>3. \A u \in toRelease : status'[u] = "RUNNING"
  BY <1>1, <1>2
<1>a. PICK st, p : st = status' /\ p = pc
  OBVIOUS
<1>b. ThreadStopped(c, st, p, "blocking", "blocked", NoCore)
  BY <1>1, <1>a, Zenon
<1>4. /\ localClock' = localClock
      /\ nextBarrier' \in Nat /\ nextBarrier' >= nextBarrier
      /\ StoppedEffect(c, st, p, "blocking", "blocked", NoCore)
  BY <1>0, <1>a, <1>b, <1>3, StoppedFacts, Zenon
<1>5. PICK R \in SUBSET toRelease :
              /\ toRelease' = toRelease \ R
              /\ \/ /\ lock' = c /\ toRelease' = {} /\ ~disabled
                    /\ pc' = [o \in Core |-> IF o = c THEN "blocking"
                                             ELSE IF o \in R THEN "synced" ELSE pc[o]]
                 \/ /\ lock' = NoCore /\ nextBarrier' = nextBarrier
                    /\ pc' = [o \in Core |-> IF o = c THEN "blocked"
                                             ELSE IF o \in R THEN "synced" ELSE pc[o]]
  BY <1>a, <1>4, ZenonT(30) DEF StoppedEffect
<1>6. /\ \A o \in Core \ {c} : pc'[o] = IF o \in R THEN "synced" ELSE pc[o]
      /\ pc' \in [Core -> Places]
      /\ \/ pc'[c] = "blocking" /\ lock' = c /\ toRelease' = {} /\ ~disabled
         \/ pc'[c] = "blocked" /\ lock' = NoCore
  BY <1>5 DEF Places, ReleasePlaces
<1>8. \A o \in Core : pc'[o] \in ReleasePlaces \cup {"stalling", "aborted"} <=> lock' = o
  BY <1>0, <1>6, LockPlace, ZenonT(30) DEF ReleasePlaces
<1>9. TypeOK'
  BY <1>1, <1>2, <1>4, <1>5, <1>6, <1>8, ZenonT(30) DEF TypeOK, Time, Statuses, Sleepers
<1>10. AssertionsHold'
  BY <1>1, <1>2, <1>5, <1>6 DEF AssertionsHold, ReleasePlaces
<1>11. NoLostRelease'
  BY <1>1, <1>2, <1>5, <1>6, ZenonT(30) DEF NoLostRelease
<1>12. StatusOfPlace'
  BY <1>1, <1>2, <1>6, ZenonT(30) DEF StatusOfPlace
<1>13. SleepersStalled'
  BY <1>0, <1>1, <1>6, SleepersKept, Zenon
<1>14. ClocksReported'
  BY <1>1, <1>4, <1>5 DEF ClocksReported
<1>15. InRelease'
  BY <1>0, <1>1, <1>5, <1>6 DEF InRelease, ReleasePlaces
<1> QED BY <1>9, <1>10, <1>11, <1>12, <1>13, <1>14, <1>15

\* A thread that exits, and the one that it resumes, are not in the barrier.
LEMMA ExitInv ==
  ASSUME BarrierInv, NEW c \in Core, NEW waiter \in JoinSets, Exit(c, waiter)
  PROVE  BarrierInv'
<1> USE Types, BarrierPlaces DEF BarrierInv
<1> DEFINE p == [o \in Core |-> IF o \in waiter THEN "resumed" ELSE pc[o]]
<1>0. /\ c # NoCore /\ pc[c] = "run" /\ lock = NoCore
      /\ waiter \subseteq Core
      /\ \A w \in waiter : pc[w] = "stalled" /\ ~IsSleeping(w)
      /\ c \notin waiter
  BY LockPlace, Zenon DEF Exit, JoinSets
<1>1. /\ config' = config /\ elapsed' = elapsed /\ nextSync' = nextSync
      /\ acquired' = acquired /\ globalTime' = globalTime
      /\ fastforward' = fastforward /\ disabled' = disabled /\ sleeping' = sleeping
      /\ status' = [o \in Core |-> IF o = c THEN "IDLE"
                               ELSE IF o \in waiter THEN "RUNNING" ELSE status[o]]
      /\ wakeup' = [o \in Core |-> IF o \in waiter THEN elapsed[c] ELSE wakeup[o]]
      /\ ThreadStopped(c, status', p, "exiting", "exited", NoCore)
  BY DEF Exit
<1>2. /\ status' \in [Core -> Statuses] /\ c \notin acquired /\ c \notin toRelease
      /\ wakeup' \in [Core -> Nat] /\ p \in [Core -> Places]
  BY <1>0, <1>1 DEF Statuses, Places
<1>3. \A u \in toRelease : status'[u] = "RUNNING"
  BY <1>0, <1>1, <1>2, Zenon
<1>a. PICK st, q : st = status' /\ q = p
  BY Zenon
<1>c. \A o \in Core : (q[o] = "barrier") <=> (pc[o] = "barrier")
  BY <1>0, <1>a
<1>b. ThreadStopped(c, st, q, "exiting", "exited", NoCore)
  <2> HIDE DEF p
  <2> QED BY <1>1, <1>a, Zenon
<1>4. /\ localClock' = localClock
      /\ nextBarrier' \in Nat /\ nextBarrier' >= nextBarrier
      /\ StoppedEffect(c, st, q, "exiting", "exited", NoCore)
  <2> HIDE DEF p
  <2> QED BY <1>0, <1>2, <1>a, <1>b, <1>c, <1>3, StoppedFacts, ZenonT(30)
<1>5. PICK R \in SUBSET toRelease :
              /\ toRelease' = toRelease \ R
              /\ \/ /\ lock' = c /\ toRelease' = {} /\ ~disabled
                    /\ pc' = [o \in Core |-> IF o = c THEN "exiting"
                                             ELSE IF o \in R THEN "synced" ELSE q[o]]
                 \/ /\ lock' = NoCore /\ nextBarrier' = nextBarrier
                    /\ pc' = [o \in Core |-> IF o = c THEN "exited"
                                             ELSE IF o \in R THEN "synced" ELSE q[o]]
  BY <1>4, Zenon DEF StoppedEffect
<1>6. /\ \A o \in Core \ {c} : pc'[o] = IF o \in R THEN "synced"
                                        ELSE IF o \in waiter THEN "resumed" ELSE pc[o]
      /\ pc' \in [Core -> Places]
      /\ \/ pc'[c] = "exiting" /\ lock' = c /\ toRelease' = {} /\ ~disabled
         \/ pc'[c] = "exited" /\ lock' = NoCore
  BY <1>5, <1>a DEF Places, ReleasePlaces
<1>8. \A o \in Core : pc'[o] \in ReleasePlaces \cup {"stalling", "aborted"} <=> lock' = o
  BY <1>0, <1>6, LockPlace, Zenon DEF ReleasePlaces
<1>9. TypeOK'
  <2>1. /\ config' \in Configs /\ elapsed' \in [Core -> Nat] /\ nextSync' \in [Core -> Nat]
        /\ acquired' \in SUBSET Core /\ globalTime' \in Nat /\ fastforward' \in BOOLEAN
        /\ disabled' \in BOOLEAN /\ sleeping' \in Seq(Sleepers)
    BY <1>1, Zenon
  <2>2. /\ toRelease' \in SUBSET Core /\ localClock' \in [Core -> Nat] /\ nextBarrier' \in Nat
        /\ lock' \in Core \cup {NoCore}
    BY <1>4, <1>5, Zenon
  <2> HIDE Types, BarrierPlaces DEF BarrierInv
  <2> QED BY <2>1, <2>2, <1>2, <1>6, <1>8 DEF TypeOK, Time, Statuses, Sleepers
<1>10. AssertionsHold'
  BY <1>0, <1>1, <1>2, <1>5, <1>6, ZenonT(30) DEF AssertionsHold, ReleasePlaces
<1>11. NoLostRelease'
  BY <1>0, <1>1, <1>2, <1>5, <1>6, ZenonT(30) DEF NoLostRelease
<1>12. StatusOfPlace'
  BY <1>0, <1>1, <1>2, <1>6, ZenonT(30) DEF StatusOfPlace
<1>13. SleepersStalled'
  BY <1>0, <1>1, <1>6, SleepersKept, ZenonT(30)
<1>14. ClocksReported'
  BY <1>1, <1>4, <1>5, ZenonT(30) DEF ClocksReported
<1>15. InRelease'
  BY <1>0, <1>1, <1>5, <1>6, ZenonT(30) DEF InRelease, ReleasePlaces
<1> QED BY <1>9, <1>10, <1>11, <1>12, <1>13, <1>14, <1>15

\* A core enters the barrier once, with the clock that it reports.
LEMMA SynchronizeInv ==
  ASSUME BarrierInv, NEW c \in Core, Synchronize(c)
  PROVE  BarrierInv'
<1> USE Types, BarrierPlaces DEF BarrierInv
<1>0. c # NoCore
  BY LockPlace
<1>1. /\ config' = config /\ status' = status /\ elapsed' = elapsed /\ wakeup' = wakeup
      /\ globalTime' = globalTime /\ fastforward' = fastforward /\ disabled' = disabled
      /\ sleeping' = sleeping
      /\ pc[c] = "run" /\ lock = NoCore /\ c \notin acquired /\ c \notin toRelease
      /\ nextBarrier' \in Nat /\ nextBarrier' >= nextBarrier
  BY SyncFacts
<1>2. CASE /\ nextSync' = [nextSync EXCEPT ![c] = NextSyncAfter(elapsed[c])]
           /\ UNCHANGED <<pc, localClock, acquired, toRelease, nextBarrier, lock>>
  <2>1. nextSync' \in [Core -> Nat]
    BY <1>2, NextSyncType
  <2> QED BY <1>1, <1>2, <2>1, Zenon DEF TypeOK, Time, AssertionsHold, NoLostRelease, StatusOfPlace,
             SleepersStalled, ClocksReported, InRelease
<1>3. ASSUME NEW R \in SUBSET toRelease, SyncEffect(c, R)
      PROVE  BarrierInv'
  <2>1. /\ localClock' = [localClock EXCEPT ![c] = elapsed[c]] /\ nextSync' = nextSync
        /\ acquired' = acquired \cup {c} /\ toRelease' = toRelease \ R
        /\ \A o \in Core \ {c} : pc'[o] = IF o \in R THEN "synced" ELSE pc[o]
        /\ pc' \in [Core -> Places]
        /\ \/ pc'[c] = "syncing" /\ lock' = c /\ toRelease = {}
           \/ pc'[c] = "barrier" /\ lock' = NoCore /\ nextBarrier' = nextBarrier
        /\ ~disabled
    BY <1>3 DEF SyncEffect, Places, ReleasePlaces, SynchronizeEarly
  <2>2. \A o \in Core : pc'[o] \in ReleasePlaces \cup {"stalling", "aborted"} <=> lock' = o
    BY <1>0, <1>1, <2>1, LockPlace, ZenonT(30) DEF ReleasePlaces
  <2>3. localClock' \in [Core -> Nat]
    BY <2>1, Zenon
  <2>9. TypeOK'
    BY <1>1, <2>1, <2>2, <2>3, ZenonT(30) DEF TypeOK, Time, Statuses, Sleepers
  <2>10. AssertionsHold'
    BY <1>1, <2>1 DEF AssertionsHold, ReleasePlaces
  <2>11. NoLostRelease'
    BY <1>1, <2>1, ZenonT(30) DEF NoLostRelease
  <2>12. StatusOfPlace'
    BY <1>1, <2>1, ZenonT(30) DEF StatusOfPlace
  <2>13. SleepersStalled'
    BY <1>0, <1>1, <2>1, SleepersKept, ZenonT(30)
  <2>14. ClocksReported'
    BY <1>1, <2>1 DEF ClocksReported
  <2>15. InRelease'
    BY <1>0, <1>1, <2>1 DEF InRelease, ReleasePlaces
  <2> QED BY <2>9, <2>10, <2>11, <2>12, <2>13, <2>14, <2>15
<1> QED BY <1>2, <1>3, SyncFacts

\* One iteration of barrierRelease preserves the invariant.
LEMMA ReleaseInv ==
  ASSUME BarrierInv, NEW me \in Core, NEW script \in BOOLEAN, Release(me, script)
  PROVE  BarrierInv'
<1> USE Types, BarrierPlaces DEF BarrierInv
<1>0. /\ lock = me /\ me # NoCore /\ pc[me] \in ReleasePlaces /\ toRelease = {}
      /\ config' = config /\ elapsed' = elapsed /\ localClock' = localClock
      /\ globalTime' = nextBarrier
      /\ \A o \in Core \ {me} : pc[o] \notin ReleasePlaces \cup {"stalling", "aborted"}
  <2>1. /\ lock = me /\ pc[me] \in ReleasePlaces
        /\ config' = config /\ elapsed' = elapsed /\ localClock' = localClock
        /\ globalTime' = nextBarrier
    BY ReleaseFacts, Zenon
  <2>2. /\ me # NoCore
        /\ \A o \in Core \ {me} : pc[o] \notin ReleasePlaces \cup {"stalling", "aborted"}
    BY <2>1, LockPlace, Zenon
  <2>3. toRelease = {}
    BY <2>1, <2>2, Zenon
  <2> QED BY <2>1, <2>2, <2>3, Zenon
<1>1. PICK s :
         /\ \E W \in SUBSET Core, A \in SUBSET Core : HookEffect(W, A, s)
         /\ status' = s.status /\ wakeup' = s.wakeup /\ sleeping' = s.sleeping
         /\ fastforward' = s.fastforward /\ disabled' = s.disabled
         /\ Stops(me, s) \/ Aborts(me, s) \/ GoesRound(me, s) \/ \E go, R : LetsGo(me, s, go, R)
  BY ReleaseFacts, ZenonT(30)
<1>2. PICK W \in SUBSET Core, A \in SUBSET Core : HookEffect(W, A, s)
  BY <1>1, Zenon
<1>3. /\ status' = [c \in Core |-> IF c \in W THEN "RUNNING" ELSE status[c]]
      /\ wakeup' = [c \in Core |-> IF c \in W THEN nextBarrier ELSE wakeup[c]]
      /\ s.pc = [c \in Core |-> IF c \in A /\ pc[c] = "barrier" THEN "synced"
                                ELSE IF c \in W /\ pc[c] = "stalled" THEN "resumed" ELSE pc[c]]
      /\ \/ A = {} /\ s.acquired = acquired /\ (s.disabled => disabled)
         \/ A = acquired /\ s.acquired = {}
      /\ s.nextBarrier \in Nat /\ s.nextBarrier >= nextBarrier
  BY <1>1, <1>2, ZenonT(30) DEF HookEffect
<1>4. /\ sleeping' \in Seq(Sleepers)
      /\ \A j \in DOMAIN sleeping' : /\ \E k \in DOMAIN sleeping : sleeping'[j] = sleeping[k]
                                     /\ sleeping'[j].thread \notin W
      /\ \A j, k \in DOMAIN sleeping' : sleeping'[j].thread = sleeping'[k].thread => j = k
      /\ \A c \in W : IsSleeping(c)
  <2> HIDE Types, BarrierPlaces DEF BarrierInv
  <2>1. /\ s.sleeping \in Seq(Sleepers)
        /\ \A j \in DOMAIN s.sleeping : /\ \E k \in DOMAIN sleeping : s.sleeping[j] = sleeping[k]
                                        /\ s.sleeping[j].thread \notin W
        /\ \A j, k \in DOMAIN s.sleeping : s.sleeping[j].thread = s.sleeping[k].thread => j = k
        /\ \A c \in W : IsSleeping(c)
    BY <1>2, Zenon DEF HookEffect
  <2>2. sleeping' = s.sleeping
    BY <1>1, Zenon
  <2> QED BY <2>1, <2>2, Zenon
<1>5. fastforward' \in BOOLEAN /\ disabled' \in BOOLEAN
  BY <1>1, <1>2, Zenon DEF HookEffect
<1>6. \A c \in W : /\ status[c] = "STALLED"
                   /\ pc[c] \in {"stalled", "stalling", "signalling", "advancing"}
  <2> TAKE c \in W
  <2>1. PICK i \in DOMAIN sleeping : sleeping[i].thread = c
    BY <1>4, ZenonT(30) DEF IsSleeping
  <2> QED BY <2>1 DEF SleepersStalled
<1>7. /\ status' \in [Core -> Statuses] /\ wakeup' \in [Core -> Nat]
      /\ s.pc \in [Core -> Places] /\ s.pc[me] = pc[me] /\ s.acquired \in SUBSET acquired
  BY <1>0, <1>3, ZenonT(30) DEF Statuses, Places, ReleasePlaces
<1>8. \A c \in Core \ {me} : s.pc[c] \in {pc[c], "synced", "resumed"}
  BY <1>3, Zenon
<1>9. \A c \in Core \ {me} : /\ (s.pc[c] = "synced" /\ pc[c] # "synced") => pc[c] = "barrier"
                             /\ s.pc[c] = "resumed" => status'[c] = "RUNNING"
                             /\ pc[c] = "stalled" /\ c \notin W => s.pc[c] = "stalled"
  BY <1>3, ZenonT(30) DEF StatusOfPlace
<1>10. \A c \in Core : /\ s.pc[c] = "barrier" => c \in s.acquired
                       /\ c \in s.acquired => s.pc[c] = "barrier" \/ (c = me /\ pc[me] = "syncing")
  BY <1>0, <1>3, ZenonT(30) DEF NoLostRelease
\* What holds of the places after the hooks.
<1>11. \A c \in Core \ {me} :
         /\ s.pc[c] \notin ReleasePlaces \cup {"stalling", "aborted"}
         /\ s.pc[c] \in {"run", "barrier", "synced", "resumed"} => status'[c] = "RUNNING"
         /\ s.pc[c] \in {"stalled", "blocked", "unblocking"} => status'[c] = "STALLED"
         /\ s.pc[c] \in {"new", "exited"} => status'[c] = "IDLE"
         /\ s.pc[c] = "init" => status'[c] = "INITIALIZING"
         /\ s.pc[c] = "run" => c \notin s.acquired
  BY <1>0, <1>3, <1>6, <1>10 DEF StatusOfPlace, ReleasePlaces
<1>12. /\ pc[me] = "syncing" => status'[me] = "RUNNING" /\ (me \in s.acquired \/ s.acquired = {})
       /\ pc[me] = "blocking" => status'[me] = "STALLED"
       /\ pc[me] = "exiting" => status'[me] = "IDLE"
       /\ pc[me] \in {"signalling", "advancing"} => status'[me] \in {"STALLED", "RUNNING"}
  BY <1>0, <1>3, <1>6, Zenon DEF StatusOfPlace, InRelease
<1>13. \A j \in DOMAIN sleeping' : /\ sleeping'[j].thread \in Core
                                   /\ status'[sleeping'[j].thread] = "STALLED"
                                   /\ sleeping'[j].thread # me => s.pc[sleeping'[j].thread] = "stalled"
                                   /\ sleeping'[j].thread = me => pc[me] \in {"signalling", "advancing"}
  <2> TAKE j \in DOMAIN sleeping'
  <2>1. PICK k \in DOMAIN sleeping : sleeping'[j] = sleeping[k]
    BY <1>4, ZenonT(30)
  <2> DEFINE w == sleeping[k].thread
  <2>2. w \in Core /\ w \notin W /\ sleeping'[j].thread = w
    <3>1. sleeping[k] \in Sleepers
      OBVIOUS
    <3> QED BY <3>1, <2>1, <1>4, Zenon DEF Sleepers
  <2>3. status[w] = "STALLED" /\ pc[w] \in {"stalled", "stalling", "signalling", "advancing"}
    BY DEF SleepersStalled
  <2> HIDE DEF w
  <2> QED BY <2>2, <2>3, <1>0, <1>3, ZenonT(30) DEF ReleasePlaces
<1>14. pc[me] = "advancing" \/ s.disabled => s.acquired = {}
  <2>1. pc[me] = "advancing" => acquired = {}
    BY <1>0 DEF InRelease, AnyThreadRunning
  <2>2. pc[me] # "advancing" => ~disabled
    BY <1>0 DEF InRelease
  <2> QED BY <2>1, <2>2, <1>3, ZenonT(30)
\* The outcomes in one form: R are let go at once, and me is at one of these places.
<1> DEFINE Mine ==
      \/ pc'[me] = "barrier" /\ lock' = NoCore /\ me \in acquired' /\ pc[me] = "syncing"
      \/ pc'[me] = "run" /\ lock' = NoCore /\ me \notin acquired' /\ pc[me] = "syncing"
      \/ /\ pc'[me] = "stalling" /\ lock' = me /\ me \notin acquired'
         /\ pc[me] \in {"signalling", "advancing"}
      \/ pc'[me] = "blocked" /\ lock' = NoCore /\ me \notin acquired' /\ pc[me] = "blocking"
      \/ pc'[me] = "exited" /\ lock' = NoCore /\ me \notin acquired' /\ pc[me] = "exiting"
      \/ /\ pc'[me] = "aborted" /\ lock' = me /\ me \notin acquired' /\ pc[me] = "advancing"
         /\ sleeping' = <<>>
      \/ /\ pc'[me] = pc[me] /\ lock' = me /\ acquired' = s.acquired /\ toRelease' = {}
         /\ ~disabled' /\ (pc[me] = "advancing" => ~AnyThreadRunning(s.status))
    Outcome(R) ==
      /\ \A c \in Core \ {me} : pc'[c] = IF c \in R THEN "synced" ELSE s.pc[c]
      /\ pc' \in [Core -> Places] /\ nextSync' \in [Core -> Nat]
      /\ acquired' \in SUBSET s.acquired /\ R \in SUBSET (s.acquired \ acquired') /\ me \notin R
      /\ toRelease' = ((s.acquired \ acquired') \ R) \ {me}
      /\ nextBarrier' \in Nat /\ \A c \in toRelease' : localClock[c] < nextBarrier'
      /\ Mine
<1>q. NextSyncAfter(elapsed[me]) \in Nat /\ Quantum \in Nat
  BY NextSyncType, BarrierConstants, ZenonT(30)
<1>r. s.nextBarrier + Quantum \in Nat
  BY <1>3, <1>q
<1>15. pc[me] \in ReleasePlaces \ {"syncing"} => me \notin s.acquired
  BY <1>7 DEF NoLostRelease, ReleasePlaces
<1>16. \E R : Outcome(R)
  <2>1. CASE Stops(me, s)
    <3>1. s.acquired = {} /\ acquired' = {} /\ toRelease' = {} /\ nextBarrier' \in Nat
      BY <2>1, <1>0, <1>3, <1>14, ZenonT(30) DEF Stops
    <3>2. PICK place : ReturnEffect(me, s.pc, FALSE, place)
      BY <2>1, Zenon DEF Stops
    <3>3. /\ \A c \in Core \ {me} : pc'[c] = s.pc[c]
          /\ pc' \in [Core -> Places] /\ pc'[me] = place
      BY <3>2, <1>7, ZenonT(30) DEF ReturnEffect, Places
    <3>4. nextSync' \in [Core -> Nat]
      BY <3>2, <1>q DEF ReturnEffect
    <3>5. Mine
      BY <3>1, <3>2, <3>3, ZenonT(30) DEF ReturnEffect
    <3>6. Outcome({})
      <4> HIDE DEF Mine
      <4> QED BY <3>1, <3>3, <3>4, <3>5, Zenon
    <3> HIDE DEF Outcome
    <3> QED BY <3>6
  <2>2. CASE Aborts(me, s)
    <3>1. s.acquired = {} /\ acquired' = {} /\ toRelease' = {} /\ nextBarrier' \in Nat
      BY <2>2, <1>0, <1>3, <1>14, ZenonT(30) DEF Aborts
    <3>2. /\ \A c \in Core \ {me} : pc'[c] = s.pc[c]
          /\ pc' \in [Core -> Places] /\ pc'[me] = "aborted" /\ pc[me] = "advancing"
          /\ nextSync' = nextSync /\ lock' = me /\ sleeping' = <<>>
      BY <2>2, <1>0, <1>1, <1>7, ZenonT(30) DEF Aborts, Places
    <3>3. Mine
      BY <3>1, <3>2, ZenonT(30)
    <3>4. Outcome({})
      <4> HIDE DEF Mine
      <4> QED BY <3>1, <3>2, <3>3, Zenon
    <3> HIDE DEF Outcome
    <3> QED BY <3>4
  <2>3. CASE GoesRound(me, s)
    <3>1. acquired' = s.acquired /\ toRelease' = {} /\ pc' = s.pc /\ nextSync' = nextSync /\ lock' = me
      BY <2>3, <1>0 DEF GoesRound
    <3>2. nextBarrier' \in Nat
      BY <2>3, <1>3, <1>q DEF GoesRound
    <3>3. Mine
      BY <2>3, <3>1, <1>1, <1>7, Zenon DEF GoesRound
    <3>4. Outcome({})
      <4> HIDE DEF Mine
      <4> QED BY <3>1, <3>2, <3>3, <1>7, ZenonT(30)
    <3> HIDE DEF Outcome
    <3> QED BY <3>4
  <2>4. ASSUME NEW go, NEW R, LetsGo(me, s, go, R)
        PROVE  Outcome(R)
    <3>1. /\ go \in SUBSET s.acquired /\ go # {} /\ acquired' = s.acquired \ go
          /\ R \in SUBSET go /\ (pc[me] = "syncing" => me \notin R)
          /\ \A c \in go : localClock[c] < nextBarrier'
          /\ nextBarrier' = s.nextBarrier + Quantum
      BY <2>4, ZenonT(30) DEF LetsGo
    <3>2. toRelease' = ((s.acquired \ acquired') \ R) \ {me}
      BY <2>4, <1>0, <1>15, <3>1, Zenon DEF LetsGo
    <3>3. nextBarrier' \in Nat
      BY <3>1, <1>r, Zenon
    <3>4. PICK place : ReturnEffect(me, SignalBarrier(s.pc, R), me \notin go, place)
      BY <2>4, Zenon DEF LetsGo
    <3>5. \A c \in R : c # me /\ s.pc[c] = "barrier"
      BY <3>1, <1>0, <1>7, <1>10, <1>15, ZenonT(30)
    <3>6. /\ \A c \in Core \ {me} : pc'[c] = IF c \in R THEN "synced" ELSE s.pc[c]
          /\ pc' \in [Core -> Places] /\ pc'[me] = place
      BY <3>4, <3>5, <1>7, ZenonT(30) DEF ReturnEffect, SignalBarrier, Places
    <3>7. nextSync' \in [Core -> Nat]
      BY <3>4, <1>q DEF ReturnEffect
    <3>8. Mine
      BY <3>1, <3>4, <3>6, <1>12, <1>15, ZenonT(30) DEF ReturnEffect, ReleasePlaces
    <3> HIDE DEF Mine
    <3> QED BY <3>1, <3>2, <3>3, <3>5, <3>6, <3>7, <3>8, ZenonT(30)
  <2> HIDE DEF Outcome
  <2> QED BY <1>1, <2>1, <2>2, <2>3, <2>4
<1>17. PICK R : Outcome(R)
  BY <1>16, Zenon
<1>a. \A o \in Core : pc'[o] \in ReleasePlaces \cup {"stalling", "aborted"} <=> lock' = o
  <2>1. ASSUME NEW o \in Core \ {me}
        PROVE  pc'[o] \notin ReleasePlaces \cup {"stalling", "aborted"} /\ lock' # o
    <3>1. pc'[o] \in {s.pc[o], "synced"} /\ lock' \in {me, NoCore}
      BY <1>17, ZenonT(30)
    <3> QED BY <3>1, <1>11, LockPlace, ZenonT(30) DEF ReleasePlaces
  <2>2. pc'[me] \in ReleasePlaces \cup {"stalling", "aborted"} <=> lock' = me
    BY <1>0, <1>17, ZenonT(30) DEF ReleasePlaces
  <2> QED BY <2>1, <2>2
<1>b. \A c \in R : c # me /\ s.pc[c] = "barrier" /\ c \in Core
  BY <1>0, <1>7, <1>10, <1>15, <1>17, ZenonT(30) DEF ReleasePlaces
<1>18. TypeOK'
  <2>2. lock' \in Core \cup {NoCore} /\ acquired' \subseteq Core /\ toRelease' \subseteq Core
    BY <1>7, <1>17, ZenonT(30)
  <2> QED BY <1>0, <1>4, <1>5, <1>7, <1>17, <1>a, <2>2, Zenon DEF TypeOK, Time, Statuses, Sleepers
<1>19. AssertionsHold'
  BY <1>0, <1>7, <1>10, <1>11, <1>12, <1>17, ZenonT(30) DEF AssertionsHold, ReleasePlaces
<1>20. NoLostRelease'
  <2>1. ASSUME NEW c \in Core \ {me}
        PROVE  /\ pc'[c] = "barrier" => c \in acquired' \cup toRelease'
               /\ c \in acquired' \cup toRelease' => pc'[c] = "barrier"
    BY <1>10, <1>17, ZenonT(30)
  <2>2. /\ pc'[me] = "barrier" => me \in acquired'
        /\ me \in acquired' => pc'[me] \in {"barrier", "syncing"}
        /\ me \notin toRelease'
    BY <1>0, <1>7, <1>10, <1>15, <1>17, ZenonT(30) DEF ReleasePlaces
  <2>3. acquired' \cap toRelease' = {} /\ acquired' \subseteq Core /\ toRelease' \subseteq Core
    BY <1>7, <1>17, ZenonT(30)
  <2> QED BY <2>1, <2>2, <2>3, ZenonT(30) DEF NoLostRelease
<1>21. StatusOfPlace'
  <2>1. ASSUME NEW c \in Core \ {me}
        PROVE  /\ pc'[c] \notin ReleasePlaces \cup {"stalling", "aborted"}
               /\ pc'[c] \in {"run", "barrier", "synced", "resumed"} => status'[c] = "RUNNING"
               /\ pc'[c] \in {"stalled", "blocked", "unblocking"} => status'[c] = "STALLED"
               /\ pc'[c] \in {"new", "exited"} => status'[c] = "IDLE"
               /\ pc'[c] = "init" => status'[c] = "INITIALIZING"
    <3>1. CASE c \in R
      <4>1. pc'[c] = "synced" /\ status'[c] = "RUNNING"
        BY <3>1, <1>11, <1>17, <1>b, ZenonT(30)
      <4> QED BY <4>1 DEF ReleasePlaces
    <3>2. CASE c \notin R
      <4>1. pc'[c] = s.pc[c]
        BY <3>2, <1>17, ZenonT(30)
      <4> QED BY <4>1, <1>11, ZenonT(30)
    <3> QED BY <3>1, <3>2, ZenonT(30)
  <2>2. /\ pc'[me] \in {"run", "barrier", "syncing"} => status'[me] = "RUNNING"
        /\ pc'[me] \in {"blocked", "blocking"} => status'[me] = "STALLED"
        /\ pc'[me] \in {"stalling", "signalling", "advancing"} => status'[me] \in {"STALLED", "RUNNING"}
        /\ pc'[me] \in {"exited", "exiting"} => status'[me] = "IDLE"
        /\ pc'[me] \notin {"synced", "resumed", "stalled", "unblocking", "new", "init"}
    BY <1>0, <1>12, <1>17, ZenonT(30) DEF ReleasePlaces
  <2> QED BY <2>1, <2>2, ZenonT(30) DEF StatusOfPlace, ReleasePlaces
<1>22. SleepersStalled'
  <2>1. ASSUME NEW j \in DOMAIN sleeping'
        PROVE  pc'[sleeping'[j].thread] \in {"stalled", "stalling", "signalling", "advancing"}
    <3>1. CASE sleeping'[j].thread # me
      BY <3>1, <1>13, <1>17, <1>b, ZenonT(30)
    <3>2. CASE sleeping'[j].thread = me
      BY <3>2, <1>13, <1>17
    <3> QED BY <3>1, <3>2, ZenonT(30)
  <2> QED BY <1>4, <1>13, <2>1, ZenonT(30) DEF SleepersStalled
<1>23. ClocksReported'
  BY <1>0, <1>7, <1>17, Zenon DEF ClocksReported
<1>24. InRelease'
  BY <1>0, <1>1, <1>12, <1>17, ZenonT(30) DEF InRelease, ReleasePlaces, AnyThreadRunning
<1> QED BY <1>18, <1>19, <1>20, <1>21, <1>22, <1>23, <1>24

\* The invariant holds when the simulation begins.
LEMMA InitInv == Init => BarrierInv
<1> SUFFICES ASSUME Init PROVE BarrierInv
  OBVIOUS
<1> USE DEF Init
<1>1. config \in Configs /\ Quantum \in Nat /\ NoCore \notin Core
  BY BarrierConstants, Zenon
<1>2. TypeOK
  BY <1>1 DEF TypeOK, Time, Places, ReleasePlaces
<1> QED BY <1>1, <1>2 DEF BarrierInv, AssertionsHold, NoLostRelease, StatusOfPlace, SleepersStalled,
           ClocksReported, InRelease

\* Every step keeps the invariant.
LEMMA NextInv == BarrierInv /\ [Next]_vars => BarrierInv'
<1> SUFFICES ASSUME BarrierInv, [Next]_vars PROVE BarrierInv'
  OBVIOUS
<1>1. CASE UNCHANGED vars
  BY <1>1, ZenonT(30) DEF vars, clocks, server, BarrierInv, TypeOK, AssertionsHold, NoLostRelease, StatusOfPlace,
              SleepersStalled, ClocksReported, InRelease, AnyThreadRunning
<1>2. CASE Next
  <2>1. PICK c \in Core :
    \/ \E d \in Steps : Execute(c, d)
    \/ Synchronize(c)
    \/ \E script \in BOOLEAN : Release(c, script)
    \/ LeaveBarrier(c)
    \/ Stall(c)
    \/ \E d \in SleepTimes : Sleep(c, d)
    \/ StallLoop(c)
    \/ \E o \in Core : Resume(c, o)
    \/ LeaveStall(c)
    \/ Block(c)
    \/ ReadWakeTime(c)
    \/ Unblock(c)
    \/ \E o \in Core : Spawn(c, o)
    \/ Start(c)
    \/ \E waiter \in JoinSets : Exit(c, waiter)
    \/ Roi(c)
    BY <1>2 DEF Next
  <2>2. ASSUME NEW d \in Steps, Execute(c, d) PROVE BarrierInv'
    BY <2>2, ExecuteInv
  <2>3. CASE Synchronize(c)
    BY <2>3, SynchronizeInv
  <2>4. ASSUME NEW script \in BOOLEAN, Release(c, script) PROVE BarrierInv'
    BY <2>4, ReleaseInv
  <2>5. CASE LeaveBarrier(c)
    BY <2>5, LeaveBarrierInv
  <2>6. CASE Stall(c)
    BY <2>6, StallInv
  <2>7. ASSUME NEW d \in SleepTimes, Sleep(c, d) PROVE BarrierInv'
    BY <2>7, SleepInv
  <2>8. CASE StallLoop(c)
    BY <2>8, StallLoopInv
  <2>9. ASSUME NEW o \in Core, Resume(c, o) PROVE BarrierInv'
    BY <2>9, ResumeInv
  <2>10. CASE LeaveStall(c)
    BY <2>10, LeaveStallInv
  <2>11. CASE Block(c)
    BY <2>11, BlockInv
  <2>12. CASE ReadWakeTime(c)
    BY <2>12, ReadWakeTimeInv
  <2>13. CASE Unblock(c)
    BY <2>13, UnblockInv
  <2>14. ASSUME NEW o \in Core, Spawn(c, o) PROVE BarrierInv'
    BY <2>14, SpawnInv
  <2>15. CASE Start(c)
    BY <2>15, StartInv
  <2>16. ASSUME NEW waiter \in JoinSets, Exit(c, waiter) PROVE BarrierInv'
    BY <2>16, ExitInv
  <2>17. CASE Roi(c)
    BY <2>17, RoiInv
  <2> QED BY <2>1, <2>2, <2>3, <2>4, <2>5, <2>6, <2>7, <2>8, <2>9, <2>10, <2>11, <2>12, <2>13, <2>14,
             <2>15, <2>16, <2>17
<1> QED BY <1>1, <1>2
=============================================================================
