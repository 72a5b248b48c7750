------------------------------- MODULE Sampling -------------------------------
(***************************************************************************)
(* Periodic sampling (sampling_manager.cc, periodic_sampling.cc): the      *)
(* simulation alternates between detailed intervals, whose cycles per      *)
(* instruction are measured, and intervals in which every core runs ahead  *)
(* with the number measured (performance_model.cc,                         *)
(* fastforward_performance_model.cc).  The mode changes in the callback of *)
(* the clock-skew barrier, here with one thread per core.                  *)
(*                                                                         *)
(* s is the whole state: the cores, the sampling manager (sm), the         *)
(* periodic algorithm (alg) and the barrier (bar).                         *)
(***************************************************************************)
EXTENDS Integers, FiniteSetsExt

CONSTANTS SamplingConfigs,
          Off,                \* no instruction callback (UINT64_MAX)
          Horizon             \* bound on simulated time

VARIABLES sc, s

samplingVars == <<sc, s>>

Core == 1 .. sc.cores

Longer(a, b) == Max({a, b})

\* SubsecondTime::divideRounded
DivideRounded(a, b) == (a + b \div 2 + 1) \div b

NewCore ==
  [time |-> 0, idle |-> 0, insns |-> 0, ff |-> FALSE, sync |-> TRUE, cpi |-> 0,
   callback |-> Off, running |-> TRUE, waiting |-> FALSE, clock |-> 0, nextSync |-> sc.quantum,
   total |-> 0, nonIdle |-> 0, history |-> 0, detailed |-> 0]

SamplingInit ==
  /\ sc \in SamplingConfigs
  /\ s = [cores |-> [c \in Core |-> NewCore],
          sm |-> [ff |-> FALSE, warmup |-> FALSE, target |-> 0],
          alg |-> [last |-> 0, ffLeft |-> 0, warmLeft |-> 0, detailedLeft |-> 0,
                   offset |-> sc.start, start |-> sc.start > 0],
          bar |-> [next |-> sc.quantum, ff |-> FALSE],
          naps |-> sc.naps, aborted |-> FALSE]

-----------------------------------------------------------------------------
(* The sampling manager *)

\* recalibrateInstructionsCallback: the instructions left to the target
Recalibrate(st, c) ==
  LET k == st.cores[c]
      cpi == IF k.cpi = 0 THEN sc.period ELSE k.cpi
  IN  [st EXCEPT !.cores[c].callback =
         IF k.time > st.sm.target THEN 1 ELSE DivideRounded(st.sm.target - k.time, cpi)]

RecalibrateAll(st) == [st EXCEPT !.cores = [c \in Core |-> Recalibrate(st, c).cores[c]]]

\* BarrierSyncServer::setFastForward
SetBarrier(st, ff, next) == [st EXCEPT !.bar.ff = ff, !.bar.next = Longer(@, next)]

\* enableFastForward; PerformanceModel::setFastForward returns early when nothing changes
EnableFastForward(st, until, warmup) ==
  LET st1 == [st EXCEPT !.sm = [ff |-> TRUE, warmup |-> warmup, target |-> until],
                        !.cores = [c \in Core |->
                                     IF @[c].ff THEN @[c]
                                     ELSE [@[c] EXCEPT !.ff = TRUE, !.sync = sc.detailedSync]]]
  IN  SetBarrier(RecalibrateAll(st1), TRUE, Max({st.cores[c].time : c \in Core}))

\* disableFastForward: uncoordinated, all cores are moved to the time of the one
\* that is ahead.
DisableFastForward(st) ==
  LET next == Max({0} \cup {st.cores[c].time : c \in {d \in Core : st.cores[d].running}})
      st1 == [st EXCEPT !.sm.ff = FALSE, !.sm.warmup = FALSE,
                        !.cores = [c \in Core |-> [@[c] EXCEPT
                                     !.ff = FALSE, !.sync = TRUE, !.callback = Off,
                                     !.time = IF sc.uncoordinated THEN next ELSE @]]]
  IN  SetBarrier(st1, FALSE, next)

\* getCoreHistoricCPI: 0 when the core was idle for too long, Off without instructions
HistoricCPI(k) ==
  LET time == IF sc.detailedSync THEN k.time - k.idle - k.nonIdle ELSE k.time - k.total
  IN  IF k.insns = 0 THEN Off
      ELSE IF time <= sc.detailed \div 5 THEN 0
      ELSE time \div k.insns

\* resetCoreHistoricCPIs; insns counts from the reset on
ResetHistoricCPIs(st) ==
  [st EXCEPT !.cores = [c \in Core |-> [@[c] EXCEPT !.insns = 0, !.total = st.cores[c].time,
                                                    !.nonIdle = st.cores[c].time - st.cores[c].idle,
                                                    !.detailed = 0]]]

-----------------------------------------------------------------------------
(* The periodic algorithm, called at the barrier *)

\* stepFastForward: one stretch of fast-forwarding, then of warming up
StepFastForward(st, time) ==
  LET ff == Min({st.alg.ffLeft, sc.stretch})
      warm == Min({st.alg.warmLeft, sc.stretch})
  IN  IF ff > 0 THEN EnableFastForward([st EXCEPT !.alg.ffLeft = @ - ff], time + ff, FALSE)
      ELSE EnableFastForward([st EXCEPT !.alg.warmLeft = @ - warm], time + warm, TRUE)

NothingLeft(st) == st.alg.ffLeft = 0 /\ st.alg.warmLeft = 0

\* The number a core runs ahead with: the last one measured, within bounds.
CurrentCPI(k) ==
  LET now == HistoricCPI(k)
      kept == IF now \in {0, Off} THEN k.history ELSE now
      cpi == IF kept = 0 THEN sc.period ELSE kept
      least == sc.period \div sc.width
  IN  IF sc.constantIpc THEN [k EXCEPT !.cpi = sc.period]
      ELSE [k EXCEPT !.history = kept, !.cpi = Max({least, Min({cpi, 100 * sc.period})})]

\* callbackDetailed; offset is the next random place of the detailed interval
CallbackDetailed(st, time, offset) ==
  IF st.alg.start
  THEN IF time < st.alg.offset THEN st
       ELSE [ResetHistoricCPIs(st) EXCEPT !.alg.start = FALSE, !.alg.last = time]
  ELSE IF time > st.alg.last + sc.detailed
  THEN LET ff == IF sc.offsets = {} THEN sc.fastforward
                 ELSE sc.fastforward + sc.warmup - st.alg.offset + offset
           st1 == [st EXCEPT !.cores = [c \in Core |-> CurrentCPI(@[c])],
                             !.alg.offset = IF sc.offsets = {} THEN @ ELSE offset,
                             !.alg.ffLeft = ff, !.alg.warmLeft = sc.warmup]
           st2 == [st1 EXCEPT !.aborted = @ \/ st.alg.detailedLeft > 0 \/ NothingLeft(st1)]
       IN  [StepFastForward(st2, time) EXCEPT !.alg.last = time]
  ELSE IF st.alg.detailedLeft > 0 /\ time > st.alg.last + sc.detailedWarmup
  THEN [ResetHistoricCPIs(st) EXCEPT !.alg.detailedLeft = 0]
  ELSE st

CallbackFastForward(st, time) ==
  IF ~NothingLeft(st) THEN StepFastForward(st, time)
  ELSE [DisableFastForward(ResetHistoricCPIs(st)) EXCEPT
          !.alg.last = time,
          !.alg.detailedLeft = IF sc.detailedWarmup > 0 THEN sc.detailedWarmup ELSE @]

\* SamplingManager::periodic
PeriodicCallback(st, time, offset) ==
  IF st.sm.ff THEN CallbackFastForward(st, time) ELSE CallbackDetailed(st, time, offset)

-----------------------------------------------------------------------------
(* The barrier *)

\* isBarrierReached
IsBarrierReached(st) ==
  LET running == {c \in Core : st.cores[c].running} IN
  IF st.bar.ff
  THEN /\ \E c \in Core : st.cores[c].waiting
       /\ \A c \in running : st.cores[c].waiting
  ELSE /\ running # {}
       /\ \A c \in running : st.cores[c].clock >= st.bar.next

\* The loop of barrierRelease: callbacks until some core can go on.
RECURSIVE ReleaseLoop(_, _)
ReleaseLoop(st, offset) ==
  LET st1 == PeriodicCallback(st, st.bar.next, offset)
      st2 == [st1 EXCEPT !.bar.next = @ + sc.quantum]
      free == {c \in Core : st2.cores[c].waiting /\ st2.cores[c].clock < st2.bar.next}
  IN  IF free = {} THEN ReleaseLoop(st2, offset)
      ELSE [st2 EXCEPT !.cores = [c \in Core |-> [@[c] EXCEPT !.waiting = @ /\ c \notin free]]]

BarrierRelease(st, offset) ==
  ReleaseLoop(IF st.bar.ff
              THEN [st EXCEPT !.bar.next = Max({@} \cup {st.cores[c].clock : c \in Core})]
              ELSE st,
              offset)

ReleaseIfReached(st, offset) == IF IsBarrierReached(st) THEN BarrierRelease(st, offset) ELSE st

\* BarrierSyncClient::synchronize and BarrierSyncServer::synchronize
Synchronize(st, c, ignoreTime, offset) ==
  LET k == st.cores[c]
      st1 == [st EXCEPT !.cores[c].nextSync = (k.time \div sc.quantum) * sc.quantum + sc.quantum]
      st2 == [st1 EXCEPT !.cores[c].waiting = TRUE, !.cores[c].clock = k.time]
  IN  IF k.time < k.nextSync /\ ~ignoreTime THEN st
      ELSE IF k.time < st.bar.next /\ ~st.bar.ff THEN st1
      ELSE ReleaseIfReached(st2, offset)

-----------------------------------------------------------------------------
(* The cores *)

Offsets == IF sc.offsets = {} THEN {0} ELSE sc.offsets

Runs(c) == s.cores[c].running /\ ~s.cores[c].waiting /\ s.cores[c].time < Horizon

\* PerformanceModel::iterate in detailed mode, for one instruction
RunDetailed(c) ==
  /\ Runs(c) /\ ~s.cores[c].ff
  /\ \E cost \in sc.costs, o \in Offsets :
       LET st == [s EXCEPT !.cores[c].time = @ + cost, !.cores[c].insns = @ + 1,
                           !.cores[c].detailed = @ + cost]
       IN  s' = Synchronize(st, c, FALSE, o)
  /\ UNCHANGED sc

\* Core::countInstructions in fast-forward mode, and SamplingManager::instr_count when
\* the callback is due.
RunFastForward(c) ==
  /\ Runs(c) /\ s.cores[c].ff
  /\ LET k == s.cores[c]
         st == [s EXCEPT !.cores[c].time = @ + k.cpi]
         left == IF k.callback = Off THEN Off ELSE Longer(0, k.callback - 1)
         all == [st EXCEPT !.cores = [d \in Core |->
                   [@[d] EXCEPT !.callback = IF sc.uncoordinated THEN 1
                                             ELSE IF d = c THEN Off ELSE @]]]
     IN  IF left = 0
         THEN \E o \in Offsets : s' = Synchronize(all, c, TRUE, o)
         ELSE s' = [st EXCEPT !.cores[c].callback = left]
  /\ UNCHANGED sc

\* A thread goes to sleep, at most sc.naps times, while others run on
\* (BarrierSyncServer::threadStall).
ThreadStall(c) ==
  /\ s.naps > 0
  /\ Runs(c)
  /\ \E d \in Core \ {c} : s.cores[d].running
  /\ \E o \in Offsets : s' = ReleaseIfReached([s EXCEPT !.cores[c].running = FALSE, !.naps = @ - 1], o)
  /\ UNCHANGED sc

\* It is woken by the thread of another core, at the time of that core
\* (PerformanceModel::handleIdleInstruction).
ThreadResume(c) ==
  /\ ~s.cores[c].running
  /\ \E d \in Core \ {c} :
       LET k == s.cores[c]
           cost == IF k.ff /\ ~k.sync THEN 0 ELSE Longer(0, s.cores[d].time - k.time)
           st == [s EXCEPT !.cores[c].running = TRUE, !.cores[c].time = @ + cost,
                           !.cores[c].idle = @ + cost,
                           !.cores[c].detailed = IF k.ff THEN @ ELSE @ + cost]
       IN  /\ Runs(d)
           /\ s' = IF k.ff /\ k.sync THEN Recalibrate(st, c) ELSE st
  /\ UNCHANGED sc

SamplingNext ==
  \E c \in Core : RunDetailed(c) \/ RunFastForward(c) \/ ThreadStall(c) \/ ThreadResume(c)

SamplingSpec == SamplingInit /\ [][SamplingNext]_samplingVars

-----------------------------------------------------------------------------

\* The barrier and the performance models of all cores are in the mode of the sampling
\* manager, and what is left of an interval is never more than the interval.
SamplingTypeOK ==
  /\ sc \in SamplingConfigs
  /\ \A c \in Core : s.cores[c].ff = s.sm.ff
  /\ s.bar.ff = s.sm.ff
  /\ s.alg.ffLeft \in 0 .. 2 * (sc.fastforward + sc.warmup)
  /\ s.alg.warmLeft \in 0 .. sc.warmup

\* The assertions of callbackDetailed: a detailed interval does not end before its
\* warm-up does, and there is something to fast-forward after it.
SamplingAsserts == ~s.aborted

\* While fast-forwarding, every running core outside the barrier still has an
\* instruction callback that brings it there; without one the barrier would never be
\* reached again.
NoSilentCore ==
  s.sm.ff => \A c \in Core : s.cores[c].running /\ ~s.cores[c].waiting => s.cores[c].callback # Off

\* The time over which the cycles per instruction of a core are measured is time that
\* the core spent in the detailed mode.  (Uncoordinated, the cores that are behind are
\* moved ahead after the measurement has been restarted.)
SampleIsDetailed ==
  ~s.sm.ff /\ ~sc.uncoordinated =>
    \A c \in Core : s.cores[c].time - s.cores[c].total = s.cores[c].detailed
=============================================================================
