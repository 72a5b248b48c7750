-------------------------------- MODULE Threads --------------------------------
(***************************************************************************)
(* The thread manager (thread_manager.cc), Thread::reschedule (thread.cc)  *)
(* and the schedulers (scheduler_*.cc) that give the application threads   *)
(* their cores.  The whole of their state is one record, x below:          *)
(*   status, reason, waiter   m_thread_state                               *)
(*   core, held, coreState    Thread::m_core, Core::m_thread, Core state   *)
(*   runnable                 m_threads_runnable (SchedulerDynamic)        *)
(*   on, aff                  m_thread_info                                *)
(*   running, left            m_core_thread_running, m_quantum_left        *)
(*   since                    the last time scheduled in, for a thread     *)
(*                            that is on a core, or out, for one that is not*)
(*   next, big, shuffle, seq  the fields of the derived schedulers         *)
(*   counted                  ThreadStats::m_core_id, the core whose       *)
(*                            progress is added to the thread's statistics *)
(* and pc, where the host thread is: "stalling" is the part of stallThread *)
(* up to the wait, with m_thread_lock held throughout.                     *)
(*                                                                         *)
(* Times are relative to the last HOOK_PERIODIC; a period is as many ticks *)
(* as there are cores, because a tick is the penalty per core number that  *)
(* reschedule adds.  A core's own time is somewhere in the current period. *)
(***************************************************************************)
EXTENDS Integers, Sequences, FiniteSets, SequencesExt, FiniteSetsExt

CONSTANTS Scheds, None

VARIABLES sched, x, joining, waited

schedVars == <<sched, x, joining, waited>>

Thread == 0 .. sched.threads - 1
CoreId == 0 .. sched.cores - 1
Period == sched.cores
LongAgo == -sched.age * Period

SchedInit ==
  /\ sched \in Scheds
  /\ x = [status |-> [t \in Thread |-> "none"], reason |-> [t \in Thread |-> None],
          waiter |-> [t \in Thread |-> None], core |-> [t \in Thread |-> None],
          held |-> [c \in CoreId |-> None], coreState |-> [c \in CoreId |-> "IDLE"],
          runnable |-> [t \in Thread |-> FALSE], on |-> [t \in Thread |-> None],
          aff |-> [t \in Thread |-> {}], running |-> [c \in CoreId |-> None],
          left |-> [c \in CoreId |-> 0], since |-> [t \in Thread |-> LongAgo],
          next |-> 0, big |-> [t \in Thread |-> FALSE], shuffle |-> 0,
          seq |-> [queue |-> [c \in CoreId |-> {}], execute |-> sched.first, set |-> 0, counts |-> sched.counts],
          counted |-> [t \in Thread |-> None],
          pc |-> [t \in Thread |-> "none"], failed |-> FALSE]
  /\ joining = [t \in Thread |-> None]
  /\ waited = [t \in Thread |-> 0]

Dynamic == sched.type # "static"

FreeCores(y, t) == {c \in y.aff[t] : y.running[c] = None}

\* findFreeCoreForThread
FindFreeCore(y, t) == IF FreeCores(y, t) = {} THEN None ELSE Min(FreeCores(y, t))

\* Thread::setCore; failed is its LOG_ASSERT_ERROR.
Take(y, t, c) ==
  IF c = None THEN [y EXCEPT !.core[t] = None]
  ELSE [y EXCEPT !.core[t] = c, !.held[c] = t, !.failed = @ \/ y.held[c] # None]

\* Bug: the core the thread leaves still has it.
MutSetCore(y, t, c) == Take(y, t, c)

SetCore(y, t, c) ==
  Take(IF y.core[t] = None THEN y ELSE [y EXCEPT !.held[y.core[t]] = None], t, c)

\* Thread::signal does nothing for a thread that is not waiting.
Signal(y, t) == IF y.pc[t] = "wait" THEN [y EXCEPT !.pc[t] = "woken"] ELSE y

\* The score of a thread in reschedule, and the thread that reschedule picks for core c.
Score(y, t, time) == IF y.on[t] # None THEN y.since[t] - time ELSE time - y.since[t]

Pick(y, c, time) ==
  LET ts == {t \in Thread : c \in y.aff[t] /\ y.runnable[t] /\ y.on[t] \in {None, c}}
      best == {t \in ts : \A u \in ts : Score(y, u, time) <= Score(y, t, time)}
  IN  IF ts = {} THEN None ELSE Min(best)

\* ThreadStats::update: what the core counted last time did is the thread's; from now on
\* it is its present core.
UpdateStats(y, t) ==
  IF y.status[t] \in {"none", "INITIALIZING", "IDLE"} THEN y ELSE [y EXCEPT !.counted[t] = y.core[t]]

\* ThreadStatsManager::update after SchedulerDynamic::moveThread
MoveStats(y, t) == UpdateStats(y, t)

RECURSIVE Reschedule(_, _, _)

OnFreeCore(y, t, time) ==
  IF FindFreeCore(y, t) = None THEN y ELSE Reschedule(y, FindFreeCore(y, t), time)

\* HOOK_THREAD_RESUME: after the statistics, the scheduler looks for a free core.
ResumeHook(y, t, time) ==
  IF ~Dynamic THEN UpdateStats(y, t)
  ELSE OnFreeCore([UpdateStats(y, t) EXCEPT !.runnable[t] = TRUE], t, time)

\* ThreadManager::resumeThread
ResumeThread(y, t, time) == ResumeHook([Signal(y, t) EXCEPT !.status[t] = "RUNNING"], t, time)

Wakes(y, t, c) ==
  c # None /\ y.core[t] = None /\ y.status[t] = "STALLED" /\ y.reason[t] = "UNSCHEDULED"

LeaveCore(y, t) == IF y.core[t] = None THEN y ELSE [y EXCEPT !.coreState[y.core[t]] = "IDLE"]

EnterCore(y, t, c) ==
  IF c # None /\ y.status[t] # "STALLED" THEN [y EXCEPT !.coreState[c] = "RUNNING"] ELSE y

WakeUnscheduled(y, t, c, time) == IF Wakes(y, t, c) THEN ResumeThread(y, t, time) ELSE y

\* SchedulerDynamic::moveThread and ThreadManager::moveThread
MoveThread(y, t, c, time) ==
  MoveStats(EnterCore(SetCore(WakeUnscheduled(LeaveCore(y, t), t, c, time), t, c), t, c), t)

SwitchOut(y, c, time) ==
  LET old == y.running[c]
  IN  IF old = None THEN y
      ELSE MoveThread([y EXCEPT !.on[old] = None, !.since[old] = time + c], old, None, time)

SwitchIn(y, c, new, time) ==
  IF new = None THEN [y EXCEPT !.running[c] = None]
  ELSE MoveThread([y EXCEPT !.running[c] = new, !.on[new] = c, !.since[new] = time], new, c, time)

SwitchTo(y, c, new, time) ==
  [(IF y.running[c] = new THEN y ELSE SwitchIn(SwitchOut(y, c, time), c, new, time))
     EXCEPT !.left[c] = sched.quantum]

\* SchedulerPinnedBase::reschedule
Reschedule(y, c, time) ==
  IF y.running[c] # None /\ y.status[y.running[c]] = "INITIALIZING" THEN y
  ELSE SwitchTo(y, c, Pick(y, c, time), time)

\* threadYield
MoveOn(y, t, from, time) == IF from \in y.aff[t] THEN y ELSE OnFreeCore(y, t, time)

Yield(y, t, time) ==
  LET c == y.on[t]
  IN  IF c = None THEN y ELSE MoveOn(Reschedule([y EXCEPT !.left[c] = 0], c, time), t, c, time)

\* threadSetAffinity, called by thread `by' (None for the scheduler itself).
SetAffinity(y, by, t, cores, time) ==
  LET z == [y EXCEPT !.aff[t] = cores] IN
  CASE z.status[t] = "none" -> z
    [] z.status[t] # "none" /\ by = t -> Yield(z, t, time)
    [] z.status[t] # "none" /\ by # t /\ z.on[t] # None ->
         IF z.on[t] \in cores THEN z ELSE [z EXCEPT !.left[z.on[t]] = 0]
    [] OTHER -> IF z.runnable[t] THEN OnFreeCore(z, t, time) ELSE z

\* SchedulerPinned::getNextCore, getFreeCore: the cores that are tried, from core c on.
RECURSIVE NextCore(_)
NextCore(c) ==
  LET d == c + sched.interleaving
      e == IF d >= sched.cores THEN ((d % sched.cores) + 1) % sched.interleaving ELSE d
  IN  IF e \in sched.mask THEN e ELSE NextCore(e)

RECURSIVE FreeCoreFrom(_, _, _)
FreeCoreFrom(y, c, first) ==
  IF y.running[c] = None /\ c \in sched.mask THEN c
  ELSE IF NextCore(c) = first THEN first ELSE FreeCoreFrom(y, NextCore(c), first)

\* SchedulerBigSmall: moveToSmall, moveToBig, pickBigThread, where `want' is the thread
\* that the random number selects, if it is eligible.
MoveToSmall(y, t, time) == [SetAffinity(y, None, t, CoreId \ sched.bigs, time) EXCEPT !.big[t] = FALSE]

MoveToBig(y, t, time) == [SetAffinity(y, None, t, sched.bigs, time) EXCEPT !.big[t] = TRUE]

PickBigThread(y, want, time) ==
  LET eligible == {t \in Thread : y.status[t] # "none" /\ ~y.big[t] /\ y.runnable[t]} IN
  IF eligible = {} THEN y
  ELSE MoveToBig(y, IF want \in eligible THEN want ELSE Min(eligible), time)

\* threadSetInitialAffinity of each scheduler.
InitialAffinity(y, t) ==
  CASE sched.type = "pinned" ->
         LET c == FreeCoreFrom(y, y.next, y.next) IN
         [y EXCEPT !.aff[t] = {c}, !.next = NextCore(c)]
    [] sched.type = "roaming" -> [y EXCEPT !.aff[t] = sched.mask]
    [] sched.type = "big_small" -> MoveToSmall(y, t, 0)
    [] sched.type = "sequential" ->
         LET n == y.seq.counts[y.seq.set + 1] - 1 IN
         [y EXCEPT !.aff[t] = {y.seq.set}, !.seq.counts[y.seq.set + 1] = n,
                   !.seq.set = IF n = 0 THEN @ + 1 ELSE @]

WithAffinity(y, t) == IF y.aff[t] # {} \/ ~Dynamic THEN y ELSE InitialAffinity(y, t)

\* threadCreate: the core given to the thread, and the state after it.  SchedulerStatic
\* takes the first core whose state is IDLE.
CreateOn(y, t) ==
  LET idle == {c \in sched.mask : y.coreState[c] = "IDLE"}
  IN  IF Dynamic THEN FindFreeCore(y, t) ELSE IF idle = {} THEN None ELSE Min(idle)

ThreadCreate(y, t, c) ==
  IF c = None \/ ~Dynamic THEN y
  ELSE [y EXCEPT !.on[t] = c, !.running[c] = t, !.left[c] = sched.quantum]

\* HOOK_THREAD_START
StartHook(y, t, time) ==
  LET u == UpdateStats(y, t)
      z == [u EXCEPT !.runnable[t] = TRUE]
      c == CHOOSE c \in y.aff[t] : TRUE
  IN  CASE ~Dynamic -> u
        [] sched.type = "sequential" ->
             IF y.running[c] = t THEN [z EXCEPT !.seq.execute[c + 1] = @ + 1]
             ELSE [u EXCEPT !.seq.queue[c] = @ \cup {t}]
        [] OTHER -> OnFreeCore(z, t, time)

\* SchedulerPinnedBase::threadStall and threadExit
GiveUpCore(y, t, time) == IF y.on[t] = None THEN y ELSE Reschedule(y, y.on[t], time)

\* HOOK_THREAD_STALL, for any reason but UNSCHEDULED.
StallHook(y, t, time, want) ==
  LET z == [UpdateStats(y, t) EXCEPT !.runnable[t] = FALSE] IN
  CASE ~Dynamic -> UpdateStats(y, t)
    [] sched.type = "big_small" /\ y.big[t] ->
         GiveUpCore(MoveToSmall(PickBigThread(z, want, time), t, time), t, time)
    [] OTHER -> GiveUpCore(z, t, time)

\* HOOK_THREAD_EXIT
ExitHook(y, t, time, want) ==
  LET z == [y EXCEPT !.runnable[t] = FALSE]
      c == CHOOSE c \in y.aff[t] : TRUE
      u == Min(y.seq.queue[c])
  IN  CASE ~Dynamic -> y
        [] sched.type = "sequential" ->
             IF y.seq.queue[c] = {} \/ u # y.seq.execute[c + 1] THEN [z EXCEPT !.since[t] = time]
             ELSE Reschedule([z EXCEPT !.since[t] = time, !.runnable[u] = TRUE,
                                       !.seq.queue[c] = @ \ {u}, !.seq.execute[c + 1] = @ + 1], c, time)
        [] sched.type = "big_small" /\ y.big[t] -> GiveUpCore(PickBigThread(z, want, time), t, time)
        [] OTHER -> GiveUpCore(z, t, time)

\* Bug: the quantum left is not compared with the time that passed.
MutPeriodicCore(y, c) ==
  IF y.left[c] = 0 /\ y.running[c] = None THEN Reschedule(y, c, Period)
  ELSE [y EXCEPT !.left[c] = @ - Period]

\* SchedulerPinnedBase::periodic, core by core.
PeriodicCore(y, c) ==
  IF Period > y.left[c] \/ y.running[c] = None THEN Reschedule(y, c, Period)
  ELSE [y EXCEPT !.left[c] = @ - Period]

\* SchedulerBigSmall::periodic: when the quantum is over everyone is moved to the small
\* cores, then as many threads are promoted as there are big cores.
AllToSmall(y) ==
  FoldLeft(LAMBDA z, t : IF z.big[t] THEN MoveToSmall(z, t, Period) ELSE z, y,
           [i \in 1 .. sched.threads |-> i - 1])

Promote(y, want) ==
  LET n == Min({Cardinality(sched.bigs), Cardinality({t \in Thread : y.status[t] # "none"})})
  IN  FoldLeft(LAMBDA z, i : PickBigThread(z, want, Period), y, [i \in 1 .. n |-> i])

Reshuffle(y, want) ==
  IF sched.type # "big_small" THEN y
  ELSE IF y.shuffle + Period > sched.quantum
       THEN [Promote(AllToSmall(y), want) EXCEPT !.shuffle = 0]
       ELSE [y EXCEPT !.shuffle = @ + Period]

Commit(y) ==
  /\ x' = y
  /\ joining' = [t \in Thread |-> IF y.pc[t] = "run" /\ y.core[t] # None THEN None ELSE joining[t]]
  /\ waited' = [t \in Thread |-> IF y.runnable[t] /\ y.on[t] = None THEN waited[t] ELSE 0]
  /\ UNCHANGED sched

Free == ~x.failed /\ \A t \in Thread : x.pc[t] # "stalling"

\* The thread is on its core and executes the application.
Runs(t) == Free /\ x.pc[t] = "run" /\ x.core[t] # None

Times == {0} \cup {Period : k \in sched.skew}

\* ThreadManager::createThread_unlocked: ids are given in order.
CreateThread(t) ==
  /\ Free /\ x.status[t] = "none" /\ \A u \in 0 .. t - 1 : x.status[u] # "none"
  /\ \E y \in {WithAffinity([x EXCEPT !.status[t] = "INITIALIZING", !.pc[t] = "start"], t)} :
     \E c \in {CreateOn(y, t)} :
       /\ Dynamic \/ c # None
       /\ Commit(IF c = None THEN ThreadCreate(y, t, c)
                 ELSE [SetCore(ThreadCreate(y, t, c), t, c) EXCEPT !.coreState[c] = "INITIALIZING"])

\* onThreadStart, on the new host thread.
Started(y, t) ==
  IF y.core[t] # None THEN [y EXCEPT !.coreState[y.core[t]] = "RUNNING", !.status[t] = "RUNNING"]
  ELSE [y EXCEPT !.status[t] = "STALLED", !.reason[t] = "UNSCHEDULED"]

SignalWaiter(y, t) ==
  IF y.waiter[t] = None THEN y ELSE [Signal(y, y.waiter[t]) EXCEPT !.waiter[t] = None]

OnThreadStart(t, time) ==
  /\ Free /\ x.pc[t] = "start"
  /\ Commit([SignalWaiter(Started(StartHook([x EXCEPT !.status[t] = "RUNNING"], t, time), t), t)
               EXCEPT !.pc[t] = "run"])

OffCore(y, t, c) == SetCore([y EXCEPT !.coreState[c] = "IDLE"], t, None)

WakeUpWaiter(y, t, time) ==
  IF y.waiter[t] = None THEN y ELSE [ResumeThread(y, y.waiter[t], time) EXCEPT !.waiter[t] = None]

\* onThreadExit; its assertion on the status holds for a thread that runs.
OnThreadExit(t, time, want) ==
  /\ Runs(t)
  /\ \E y \in {WakeUpWaiter([x EXCEPT !.status[t] = "IDLE",
                                     !.failed = @ \/ x.status[t] # "RUNNING"], t, time)} :
       Commit([ExitHook(OffCore(y, t, x.core[t]), t, time, want) EXCEPT !.pc[t] = "done"])

\* stallThread_async for a reason other than UNSCHEDULED; stallThread goes on below.
StallAsync(y, t, why, time, want) ==
  [StallHook([y EXCEPT !.status[t] = "STALLED", !.reason[t] = why], t, time, want)
     EXCEPT !.pc[t] = "stalling"]

\* A thread waits for a futex, a lock or the time.
StallThread(t, time, want) ==
  /\ "stall" \in sched.ops /\ Runs(t)
  /\ Commit(StallAsync(x, t, "FUTEX", time, want))

JoinThread(t, u, time, want) ==
  /\ "join" \in sched.ops /\ Runs(t)
  /\ t # u /\ x.waiter[u] = None
  /\ x.status[u] \in {"RUNNING", "STALLED"} \cup (IF sched.early THEN {"INITIALIZING"} ELSE {})
  /\ x' = StallAsync([x EXCEPT !.waiter[u] = t], t, "JOIN", time, want)
  /\ joining' = [joining EXCEPT ![t] = u]
  /\ UNCHANGED <<sched, waited>>

\* Thread::reschedule of a thread without a core.
RescheduleThread(t) ==
  /\ Free /\ x.pc[t] = "run" /\ x.core[t] = None
  /\ Commit(UpdateStats([x EXCEPT !.status[t] = "STALLED", !.reason[t] = "UNSCHEDULED",
                                   !.pc[t] = "stalling"], t))

\* Bug: the thread waits although it was resumed in the meantime.
MutStallReturns(t) ==
  /\ ~x.failed /\ x.pc[t] = "stalling"
  /\ \E u \in Thread : x.status[u] \in {"RUNNING", "INITIALIZING"}
  /\ Commit([x EXCEPT !.pc[t] = "wait"])

\* The end of stallThread: once a thread runs, it waits, or returns when it was resumed.
StallReturns(t) ==
  /\ ~x.failed /\ x.pc[t] = "stalling"
  /\ \E u \in Thread : x.status[u] \in {"RUNNING", "INITIALIZING"}
  /\ Commit([x EXCEPT !.pc[t] = IF x.status[t] = "RUNNING" THEN "run" ELSE "wait"])

WakeUp(t) ==
  /\ Free /\ x.pc[t] = "woken"
  /\ Commit([x EXCEPT !.pc[t] = "run"])

\* Another thread, or a timeout in HOOK_PERIODIC, resumes a thread.
ResumeStalled(t, time) ==
  /\ ~x.failed
  /\ x.status[t] = "STALLED" /\ x.reason[t] = "FUTEX"
  /\ Commit(ResumeThread(x, t, time))

\* sched_yield and sched_setaffinity of thread t, for thread u.
ThreadYield(t, time) ==
  /\ "yield" \in sched.ops /\ Runs(t)
  /\ Commit(Yield(x, t, time))

ThreadSetAffinity(t, u, cores, time) ==
  /\ "affinity" \in sched.ops /\ Runs(t) /\ cores # {}
  /\ Commit(SetAffinity(x, t, u, cores, time))

\* SchedulerDynamic::__periodic begins with the statistics of every thread.
UpdateAll(y) ==
  FoldLeft(UpdateStats, y, [i \in 1 .. sched.threads |-> i - 1])

\* HOOK_PERIODIC: the barrier is reached, or is advanced by stallThread.
Aged(y) ==
  [y EXCEPT !.since = [t \in Thread |-> Max({LongAgo, @[t] - Period})]]

\* A core that the thread may use is kept for a thread that has not started yet.
Starting(y, t) == \E u \in Thread : y.on[u] \in y.aff[t] /\ y.status[u] = "INITIALIZING"

Periodic(want) ==
  /\ Dynamic /\ ~x.failed
  /\ \E z \in {Aged(FoldLeft(PeriodicCore, Reshuffle(UpdateAll(x), want),
                             [i \in 1 .. sched.cores |-> i - 1]))} :
       /\ x' = z
       /\ waited' = [t \in Thread |-> IF ~z.runnable[t] \/ z.on[t] # None THEN 0
                                      ELSE IF Starting(z, t) THEN waited[t] ELSE Min({waited[t] + 1, sched.age})]
       /\ joining' = [t \in Thread |-> IF z.pc[t] = "run" /\ z.core[t] # None THEN None ELSE joining[t]]
  /\ UNCHANGED sched

\* The threads that the scheduler's random number can select.
Wants == IF sched.type = "big_small" THEN Thread ELSE {0}

SchedNext ==
  \/ \E t \in Thread :
       \/ CreateThread(t) \/ RescheduleThread(t) \/ StallReturns(t) \/ WakeUp(t)
       \/ \E time \in Times :
            \/ OnThreadStart(t, time) \/ ResumeStalled(t, time) \/ ThreadYield(t, time)
            \/ \E want \in Wants :
                 \/ OnThreadExit(t, time, want) \/ StallThread(t, time, want)
                 \/ \E u \in Thread : JoinThread(t, u, time, want)
            \/ \E u \in Thread, cores \in SUBSET CoreId : ThreadSetAffinity(t, u, cores, time)
  \/ \E want \in Wants : Periodic(want)

SchedSpec == SchedInit /\ [][SchedNext]_schedVars

-----------------------------------------------------------------------------

\* The fields hold what the code puts there; the unsigned m_quantum_left does not wrap.
SchedTypeOK ==
  /\ x.status \in [Thread -> {"none", "INITIALIZING", "RUNNING", "STALLED", "IDLE"}]
  /\ x.pc \in [Thread -> {"none", "start", "run", "stalling", "wait", "woken", "done"}]
  /\ x.left \in [CoreId -> 0 .. sched.quantum]

\* "Cannot move thread to core as it is already running thread": setCore never finds
\* another thread on the core, and a thread that ends is RUNNING.
NeverTwoOnACore == ~x.failed

\* The scheduler, the thread and the core agree on who runs where, whatever calls were
\* nested inside each other.
BooksAgree ==
  Dynamic =>
    /\ \A t \in Thread : x.status[t] # "IDLE" => x.on[t] = x.core[t]
    /\ \A t \in Thread, c \in CoreId :
         x.status[t] # "IDLE" => /\ x.running[c] = t <=> x.on[t] = c
                                 /\ x.held[c] = t <=> x.core[t] = c

\* A runnable thread does not wait while a core it may use is free, except until the
\* sched.slack-th HOOK_PERIODIC: one that changed its own affinity is not looked
\* at before the next, and one that periodic takes off its core finds its new core, when
\* that has a lower number, looked at already.
NoCoreLeftFree ==
  sched.type # "sequential" =>
    \A t \in Thread :
      x.runnable[t] /\ x.on[t] = None /\ FreeCores(x, t) # {} => waited[t] < sched.slack

\* A thread that sleeps in stallThread has not been resumed: the signal of a resume that
\* happened before the wait is not lost.
NoLostResume == \A t \in Thread : x.pc[t] = "wait" => x.status[t] = "STALLED"

\* Who waits to be scheduled is scheduled after at most sched.bound periods: the quanta
\* of the other threads that may use the core.
BoundedWaiting == \A t \in Thread : waited[t] <= sched.bound

\* "Implement pthread_join": the end of a thread resumes the one that joins it.
ExitResumesJoiner ==
  \A t \in Thread :
    joining[t] # None /\ x.status[joining[t]] = "IDLE"
      => x.runnable[t] \/ (~Dynamic /\ x.status[t] = "RUNNING")

\* "make sure we don't reconsider this thread in the same periodic() call but for a next
\* core": a thread that periodic takes off its core does not move to another one.
NotReconsidered ==
  [][\A t \in Thread : x.on[t] # None /\ x'.on[t] # None => x'.on[t] = x.on[t]]_schedVars

\* "Increment per-thread statistics based on the progress our core has made since last
\* time": what a core does is added to the thread that runs on it, and to no other.
StatsFollowThread ==
  \A t \in Thread :
    /\ x.pc[t] = "run" /\ x.core[t] # None => x.counted[t] = x.core[t]
    /\ x.counted[t] # None /\ x.status[t] # "IDLE" => x.core[t] = x.counted[t]

================================================================================
