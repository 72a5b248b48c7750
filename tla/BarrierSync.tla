----------------------------- MODULE BarrierSync -----------------------------
(***************************************************************************)
(* The barrier that keeps the simulated cores' clocks together             *)
(* (BarrierSyncServer and BarrierSyncClient), with the parts of            *)
(* ThreadManager and SyscallServer that call into it: threads that stall,  *)
(* sleep, are resumed, start and exit.  The static scheduler is assumed:   *)
(* thread c runs on core c, so one name stands for both, and there are no  *)
(* SMT groups.                                                             *)
(*                                                                         *)
(* Every operation runs under ThreadManager's m_thread_lock and is one     *)
(* action, except barrierRelease: each iteration of its loop is a step of  *)
(* the thread that holds the lock.  A thread gives the lock up only in a   *)
(* ConditionVariable's wait; a signal moves it to a state in which it      *)
(* still has to get the lock back.                                         *)
(***************************************************************************)
EXTENDS Integers, Sequences, FiniteSets

CONSTANTS
  Core,           \* the application cores, and the threads on them
  NoCore,         \* INVALID_THREAD_ID
  Quantum,        \* m_barrier_interval
  NumHostCores,   \* how many threads barrierRelease lets go at once
  Configs         \* applications and configurations of the simulator

(***************************************************************************)
(* A configuration is a record: initial, the threads that run from the     *)
(* beginning; maxTime, a bound past which no core executes; steps, how     *)
(* long an instruction, or a group of them, may take; sleeps, how long a   *)
(* nanosleep may ask for; calls, which operations the application uses;    *)
(* roi, what leaving the region of interest does to the barrier.           *)
(***************************************************************************)

\* "stall": waits for another thread; "block": an operating-system call that
\* blocks; "spawn"; "roi": a thread begins or ends the region of interest;
\* "script": a periodic script does.
AllCalls == {"stall", "block", "spawn", "roi", "script"}

ASSUME BarrierConstants ==
  /\ NoCore \notin Core /\ IsFiniteSet(Core)
  /\ Quantum \in Nat \ {0} /\ NumHostCores \in Nat \ {0}
  /\ \A k \in Configs :
       /\ k.initial \subseteq Core /\ k.maxTime \in Nat
       /\ k.steps \subseteq Nat \ {0} /\ k.sleeps \subseteq Nat \ {0}
       /\ k.calls \subseteq AllCalls /\ k.roi \in {"none", "disable", "fastforward"}
       /\ k.roi = "none" => k.calls \cap {"roi", "script"} = {}

VARIABLES
  config,         \* the configuration: chosen initially, it never changes
  status,         \* ThreadManager's m_thread_state[c].status
  pc,             \* where thread c is, see Places
  elapsed,        \* the core's elapsed simulated time
  wakeup,         \* Thread's m_wakeup_time, or 0 when nobody will read it
  nextSync,       \* BarrierSyncClient's m_next_sync_time
  localClock,     \* m_local_clock_list
  acquired,       \* the cores whose m_barrier_acquire_list entry is set
  toRelease,      \* m_to_release: shuffled, so its order is of no interest
  nextBarrier,    \* m_next_barrier_time
  globalTime,     \* m_global_time
  fastforward,    \* m_fastforward
  disabled,       \* m_disable
  sleeping,       \* SyscallServer's m_sleeping
  lock            \* the thread that is inside barrierRelease, or NoCore

clocks == <<elapsed, wakeup, nextSync>>
server == <<localClock, acquired, toRelease, nextBarrier, globalTime,
            fastforward, disabled>>
vars == <<config, status, pc, clocks, server, sleeping, lock>>

(***************************************************************************)
(* "new": not created; "init": created, not yet started; "run": executing; *)
(* "barrier": waits on m_core_cond; "synced": signalled there; "stalled":  *)
(* waits on its own condition; "resumed": signalled there; "blocked": in   *)
(* an operating-system call; "unblocking": back from it, but not yet known *)
(* to be running; "exited"; "aborted": an assertion failed.                *)
(* The release places are inside barrierRelease: called from synchronize,  *)
(* from the hook of stallThread, from stallThread's advance(), from the    *)
(* hook of stallThread_async and from the hook of onThreadExit; "stalling" *)
(* is stallThread after its hook.  All of these hold the lock.             *)
(***************************************************************************)
ReleasePlaces == {"syncing", "signalling", "advancing", "blocking", "exiting"}
Places == {"new", "init", "run", "barrier", "synced", "stalled", "resumed",
           "blocked", "unblocking", "exited", "aborted", "stalling"}
          \cup ReleasePlaces

Max2(a, b) == IF a > b THEN a ELSE b

\* The largest of t and the times f[c] of the cores in S.
MaxOf(f, S, t) ==
  LET T == {t} \cup {f[c] : c \in S} IN CHOOSE m \in T : \A x \in T : x <= m

Running(st) == {c \in Core : st[c] = "RUNNING"}

\* ThreadManager::anyThreadRunning
AnyThreadRunning(st) == \E c \in Core : st[c] \in {"RUNNING", "INITIALIZING"}

\* The client's m_next_sync_time after a synchronization at time t.
NextSyncAfter(t) == (t \div Quantum) * Quantum + Quantum

(***************************************************************************)
(* ConditionVariable::signal on the condition a thread waits on: without a *)
(* waiter the signal is lost, since wait() resets it.                      *)
(***************************************************************************)
SignalBarrier(p, S) ==
  [c \in Core |-> IF c \in S /\ p[c] = "barrier" THEN "synced" ELSE p[c]]
SignalThread(p, c) ==
  IF p[c] = "stalled" THEN [p EXCEPT ![c] = "resumed"] ELSE p

\* doRelease(n): the sets of cores it may take from the shuffled list.
DoRelease(S, n) ==
  {R \in SUBSET S : Cardinality(R) = (IF Cardinality(S) < n
                                      THEN Cardinality(S) ELSE n)}

MutIsBarrierReached(st, acq, lc) ==
  /\ acq # {}
  /\ IF fastforward
     THEN Running(st) \subseteq acq
     ELSE \E c \in Running(st) : lc[c] >= nextBarrier

MutIsBarrierReachedEmpty(st, acq, lc) ==
  \A c \in Running(st) : lc[c] >= nextBarrier

(***************************************************************************)
(* isBarrierReached: every running core has checked in, and some core has. *)
(* In fast-forward it is enough to be in the barrier; otherwise the last   *)
(* time the core reported must have reached the barrier's.                 *)
(***************************************************************************)
IsBarrierReached(st, acq, lc) ==
  IF fastforward
  THEN acq # {} /\ Running(st) \subseteq acq
  ELSE Running(st) # {} /\ \A c \in Running(st) : lc[c] >= nextBarrier

Init ==
  /\ config \in Configs
  /\ status = [c \in Core |-> IF c \in config.initial THEN "RUNNING" ELSE "IDLE"]
  /\ pc = [c \in Core |-> IF c \in config.initial THEN "run" ELSE "new"]
  /\ elapsed = [c \in Core |-> 0]
  /\ wakeup = [c \in Core |-> 0]
  /\ nextSync = [c \in Core |-> Quantum]
  /\ localClock = [c \in Core |-> 0]
  /\ acquired = {} /\ toRelease = {}
  /\ nextBarrier = Quantum /\ globalTime = 0
  /\ fastforward = (config.roi = "fastforward")
  /\ disabled = (config.roi = "disable")
  /\ sleeping = <<>>
  /\ lock = NoCore

-----------------------------------------------------------------------------
(***************************************************************************)
(* What the hooks of HOOK_PERIODIC and the calls of the magic server change *)
(* as one record, since they follow each other inside one step.            *)
(***************************************************************************)
Hooked ==
  [status |-> status, pc |-> pc, wakeup |-> wakeup, sleeping |-> sleeping,
   acquired |-> acquired, nextBarrier |-> nextBarrier,
   fastforward |-> fastforward, disabled |-> disabled]

MutAbort(s) == [s EXCEPT !.pc = SignalBarrier(@, s.acquired)]

\* abortBarrier: everyone in the barrier leaves it, m_to_release is not looked at.
Abort(s) ==
  [s EXCEPT !.pc = SignalBarrier(@, s.acquired), !.acquired = {}]

MutFutexPeriodic(s, t) ==
  LET due == {i \in DOMAIN s.sleeping : s.sleeping[i].timeout + Quantum <= t}
      i == CHOOSE x \in due : \A y \in due : x <= y
      w == s.sleeping[i].thread
  IN IF due = {} THEN s
     ELSE [s EXCEPT !.sleeping = SubSeq(@, 1, i - 1) \o SubSeq(@, i + 1, Len(@)),
                    !.status[w] = "RUNNING",
                    !.wakeup[w] = t,
                    !.pc = SignalThread(@, w)]

MutFutexPeriodicTimeout(s, t) ==
  LET due == {i \in DOMAIN s.sleeping : s.sleeping[i].timeout <= t}
      i == CHOOSE x \in due : \A y \in due : x <= y
      w == s.sleeping[i].thread
  IN IF due = {} THEN s
     ELSE [s EXCEPT !.sleeping = SubSeq(@, 1, i - 1) \o SubSeq(@, i + 1, Len(@)),
                    !.status[w] = "RUNNING",
                    !.wakeup[w] = s.sleeping[i].timeout,
                    !.pc = SignalThread(@, w)]

(***************************************************************************)
(* SyscallServer::futexPeriodic: the first sleeper whose time has come is  *)
(* resumed; one that comes after it waits for the next barrier.            *)
(***************************************************************************)
FutexPeriodic(s, t) ==
  LET due == {i \in DOMAIN s.sleeping : s.sleeping[i].timeout <= t}
      i == CHOOSE x \in due : \A y \in due : x <= y
      w == s.sleeping[i].thread
  IN IF due = {} THEN s
     ELSE [s EXCEPT !.sleeping = SubSeq(@, 1, i - 1) \o SubSeq(@, i + 1, Len(@)),
                    !.status[w] = "RUNNING",
                    !.wakeup[w] = t,
                    !.pc = SignalThread(@, w)]

\* FastForwardPerformanceManager::step, called at every barrier while enabled.
FastForwardStep(s) ==
  IF s.fastforward
  THEN [s EXCEPT !.nextBarrier = MaxOf(elapsed, Core, @)]
  ELSE s

(***************************************************************************)
(* MagicServer::setPerformance(! m_performance_enabled).  With a           *)
(* fast-forward model the barrier changes its mode, else it is switched    *)
(* off outside the region of interest.                                     *)
(***************************************************************************)
SetPerformance(s) ==
  IF config.roi = "disable"
  THEN IF s.disabled
       THEN [s EXCEPT !.disabled = FALSE]
       ELSE Abort([s EXCEPT !.disabled = TRUE])
  ELSE IF s.fastforward
       THEN Abort([s EXCEPT !.fastforward = FALSE,
                            !.nextBarrier = MaxOf(elapsed, Running(s.status), @)])
       ELSE FastForwardStep(Abort([s EXCEPT !.fastforward = TRUE]))

\* The first lines of barrierRelease, called by thread me in a release place.
BeginRelease(me, place, p, lc) ==
  /\ lock' = me
  /\ pc' = [p EXCEPT ![me] = place]
  /\ nextBarrier' = IF fastforward THEN MaxOf(lc, Core, nextBarrier)
                                   ELSE nextBarrier

(***************************************************************************)
(* Where barrierRelease returns to: a synchronizing thread waits on its    *)
(* m_core_cond or goes on, a stalling one keeps the lock, one that is      *)
(* blocking or exiting is done.                                            *)
(***************************************************************************)
Return(me, p, mustWait) ==
  LET place == CASE pc[me] = "syncing" -> IF mustWait THEN "barrier" ELSE "run"
                 [] pc[me] \in {"signalling", "advancing"} -> "stalling"
                 [] pc[me] = "blocking" -> "blocked"
                 [] pc[me] = "exiting" -> "exited"
  IN /\ pc' = [p EXCEPT ![me] = place]
     /\ lock' = IF place = "stalling" THEN me ELSE NoCore
     /\ nextSync' = IF place = "run"
                    THEN [nextSync EXCEPT ![me] = NextSyncAfter(elapsed[me])]
                    ELSE nextSync
MutLetGo(me, s, nb) ==
  {c \in Core : localClock[c] < nb}

\* The cores a barrier at the new m_next_barrier_time nb lets go.
LetGo(me, s, nb) ==
  {c \in s.acquired : localClock[c] < nb}

\* Bound: later than any time at which somebody runs or has to be woken.
MaxBarrier == config.maxTime + (Cardinality(Core) + 1) * Quantum

(***************************************************************************)
(* One iteration of barrierRelease's loop: time moves to the barrier, the  *)
(* periodic hooks run (script: one of them begins or ends the region of    *)
(* interest), and the cores that have not yet reached the next barrier     *)
(* leave this one.  Without such a core the loop goes round again.         *)
(***************************************************************************)
Release(me, script) ==
  LET hooked == FastForwardStep(FutexPeriodic(Hooked, nextBarrier))
      s == IF script THEN SetPerformance(hooked) ELSE hooked
      nb == s.nextBarrier + Quantum
      go == LetGo(me, s, nb)
      others == IF pc[me] = "syncing" THEN go \ {me} ELSE go
  IN
  /\ lock = me /\ pc[me] \in ReleasePlaces
  /\ nextBarrier <= MaxBarrier
  /\ script => "script" \in config.calls
  /\ globalTime' = nextBarrier
  /\ status' = s.status /\ wakeup' = s.wakeup /\ sleeping' = s.sleeping
  /\ fastforward' = s.fastforward /\ disabled' = s.disabled
  /\ UNCHANGED <<config, elapsed, localClock>>
  /\ \/ /\ pc[me] = "advancing"
        /\ AnyThreadRunning(s.status) \/ (s.sleeping # <<>> /\ s.disabled)
        /\ Return(me, s.pc, FALSE)
        /\ nextBarrier' = s.nextBarrier /\ acquired' = s.acquired
        /\ UNCHANGED toRelease
     \/ /\ pc[me] = "advancing"
        /\ ~AnyThreadRunning(s.status) /\ s.sleeping = <<>>
        /\ pc' = [s.pc EXCEPT ![me] = "aborted"]
        /\ nextBarrier' = s.nextBarrier /\ acquired' = s.acquired
        /\ UNCHANGED <<toRelease, nextSync, lock>>
     \/ /\ pc[me] # "advancing" /\ s.disabled
        /\ Return(me, s.pc, FALSE)
        /\ nextBarrier' = s.nextBarrier /\ acquired' = s.acquired
        /\ UNCHANGED toRelease
     \/ /\ pc[me] = "advancing" => ~AnyThreadRunning(s.status) /\ s.sleeping # <<>>
        /\ ~s.disabled
        /\ nextBarrier' = nb
        /\ acquired' = s.acquired \ go
        /\ IF go = {}
           THEN /\ pc' = s.pc
                /\ UNCHANGED <<toRelease, nextSync, lock>>
           ELSE \E R \in DoRelease(others, IF s.fastforward THEN Cardinality(Core)
                                                            ELSE NumHostCores) :
                  /\ toRelease' = toRelease \cup (others \ R)
                  /\ Return(me, SignalBarrier(s.pc, R), me \notin go)

-----------------------------------------------------------------------------
\* The core simulates instructions that take d; the lock is not needed.
Execute(c, d) ==
  /\ d \in config.steps
  /\ pc[c] = "run" /\ ~disabled
  /\ elapsed[c] < nextSync[c] \/ fastforward
  /\ elapsed[c] + d <= config.maxTime
  /\ elapsed' = [elapsed EXCEPT ![c] = @ + d]
  /\ UNCHANGED <<config, status, pc, wakeup, nextSync, server, sleeping, lock>>

\* synchronize's early returns.
SynchronizeEarly(c) ==
  disabled \/ (elapsed[c] < nextBarrier /\ ~fastforward)

(***************************************************************************)
(* BarrierSyncClient::synchronize: in detailed mode when the next          *)
(* synchronization is due, in fast-forward when a number of instructions   *)
(* was executed.  Entering the barrier makes room for one thread that is   *)
(* still to be released.                                                   *)
(***************************************************************************)
Synchronize(c) ==
  /\ pc[c] = "run" /\ lock = NoCore
  /\ elapsed[c] >= nextSync[c] \/ (fastforward /\ elapsed[c] > localClock[c])
  /\ IF SynchronizeEarly(c)
     THEN /\ nextSync' = [nextSync EXCEPT ![c] = NextSyncAfter(elapsed[c])]
          /\ UNCHANGED <<pc, localClock, acquired, toRelease, nextBarrier, lock>>
     ELSE \E R \in DoRelease(toRelease, 1) :
          LET lc == [localClock EXCEPT ![c] = elapsed[c]]
              acq == acquired \cup {c}
              p == SignalBarrier(pc, R)
          IN /\ localClock' = lc /\ acquired' = acq
             /\ toRelease' = toRelease \ R
             /\ IF IsBarrierReached(status, acq, lc)
                THEN BeginRelease(c, "syncing", p, lc)
                ELSE /\ pc' = [p EXCEPT ![c] = "barrier"]
                     /\ UNCHANGED <<nextBarrier, lock>>
             /\ UNCHANGED nextSync
  /\ UNCHANGED <<config, status, elapsed, wakeup, globalTime, fastforward, disabled,
                 sleeping>>

\* A signalled thread gets the lock back and leaves synchronize.
LeaveBarrier(c) ==
  /\ pc[c] = "synced" /\ lock = NoCore
  /\ pc' = [pc EXCEPT ![c] = "run"]
  /\ nextSync' = [nextSync EXCEPT ![c] = NextSyncAfter(elapsed[c])]
  /\ UNCHANGED <<config, status, elapsed, wakeup, server, sleeping, lock>>
-----------------------------------------------------------------------------
MutThreadStopped(c, st, p, release, after, lockAfter) ==
  /\ lock' = lockAfter /\ pc' = [p EXCEPT ![c] = after]
  /\ UNCHANGED <<toRelease, localClock, nextBarrier>>

(***************************************************************************)
(* The barrier's hooks for a thread that stalls or exits (releaseThread    *)
(* and signal): one more thread may be let go, and if everyone else waits  *)
(* in the barrier, thread c releases it.  Else c is at place after.        *)
(***************************************************************************)
ThreadStopped(c, st, p, release, after, lockAfter) ==
  LET lc == IF c \in acquired THEN [localClock EXCEPT ![c] = 0] ELSE localClock
  IN \E R \in DoRelease(toRelease, 1) :
       /\ toRelease' = toRelease \ R
       /\ localClock' = lc
       /\ IF ~disabled /\ IsBarrierReached(st, acquired, lc)
          THEN BeginRelease(c, release, SignalBarrier(p, R), lc)
          ELSE /\ pc' = [SignalBarrier(p, R) EXCEPT ![c] = after]
               /\ lock' = lockAfter
               /\ UNCHANGED nextBarrier

\* Thread c stops running, up to the point where the hooks have returned.
StallThread(c) ==
  /\ status' = [status EXCEPT ![c] = "STALLED"]
  /\ ThreadStopped(c, status', pc, "signalling", "stalling", c)
  /\ UNCHANGED <<config, elapsed, wakeup, nextSync, acquired, globalTime,
                 fastforward, disabled>>

IsSleeping(c) == \E i \in DOMAIN sleeping : sleeping[i].thread = c

\* The application can go on without c: a thread runs, sleeps or is in the OS.
GoesOnWithout(c) ==
  \E o \in Core \ {c} : \/ status[o] \in {"RUNNING", "INITIALIZING"}
                        \/ IsSleeping(o) \/ pc[o] = "blocked"

\* c waits for another thread, which will resume it (futex, mutex, join, ...).
Stall(c) ==
  /\ "stall" \in config.calls
  /\ pc[c] = "run" /\ lock = NoCore
  /\ GoesOnWithout(c)
  /\ StallThread(c)
  /\ UNCHANGED sleeping

\* SyscallServer::handleSleepCall, for a nanosleep of d.
Sleep(c, d) ==
  /\ d \in config.sleeps
  /\ pc[c] = "run" /\ lock = NoCore
  /\ elapsed[c] + d <= config.maxTime
  /\ sleeping' = Append(sleeping, [thread |-> c, timeout |-> elapsed[c] + d])
  /\ StallThread(c)

\* The idle time until c was woken up, which a disabled performance model ignores.
SkipToWakeup(c) ==
  /\ elapsed' = IF disabled THEN elapsed
                ELSE [elapsed EXCEPT ![c] = Max2(@, wakeup[c])]
  /\ wakeup' = [wakeup EXCEPT ![c] = 0]

(***************************************************************************)
(* The rest of stallThread: while no thread runs the barrier is advanced.  *)
(* A thread that was resumed before it could wait goes on at once.         *)
(***************************************************************************)
StallLoop(c) ==
  /\ pc[c] = "stalling" /\ lock = c
  /\ IF ~AnyThreadRunning(status)
     THEN /\ BeginRelease(c, "advancing", pc, localClock)
          /\ UNCHANGED <<elapsed, wakeup>>
     ELSE /\ lock' = NoCore
          /\ IF status[c] = "RUNNING"
             THEN /\ pc' = [pc EXCEPT ![c] = "run"]
                  /\ SkipToWakeup(c)
             ELSE /\ pc' = [pc EXCEPT ![c] = "stalled"]
                  /\ UNCHANGED <<elapsed, wakeup>>
          /\ UNCHANGED nextBarrier
  /\ UNCHANGED <<config, status, nextSync, localClock, acquired, toRelease,
                 globalTime, fastforward, disabled, sleeping>>

\* Thread by resumes thread c at its own time.
Resume(by, c) ==
  /\ pc[by] = "run" /\ lock = NoCore
  /\ pc[c] = "stalled" /\ status[c] = "STALLED" /\ ~IsSleeping(c)
  /\ status' = [status EXCEPT ![c] = "RUNNING"]
  /\ wakeup' = [wakeup EXCEPT ![c] = elapsed[by]]
  /\ pc' = SignalThread(pc, c)
  /\ UNCHANGED <<config, elapsed, nextSync, server, sleeping, lock>>

\* A resumed thread gets the lock back and returns from stallThread.
LeaveStall(c) ==
  /\ pc[c] = "resumed" /\ lock = NoCore
  /\ pc' = [pc EXCEPT ![c] = "run"]
  /\ SkipToWakeup(c)
  /\ UNCHANGED <<config, status, nextSync, server, sleeping, lock>>
-----------------------------------------------------------------------------
\* SyscallMdl::runEnter for a call that blocks in the operating system.
Block(c) ==
  /\ "block" \in config.calls
  /\ pc[c] = "run" /\ lock = NoCore
  /\ elapsed[c] < config.maxTime
  /\ status' = [status EXCEPT ![c] = "STALLED"]
  /\ ThreadStopped(c, status', pc, "blocking", "blocked", NoCore)
  /\ UNCHANGED <<config, elapsed, wakeup, nextSync, acquired, globalTime,
                 fastforward, disabled, sleeping>>

\* SyscallMdl::runExit reads the time it resumes at before it has the lock ...
ReadWakeTime(c) ==
  /\ pc[c] = "blocked"
  /\ pc' = [pc EXCEPT ![c] = "unblocking"]
  /\ wakeup' = [wakeup EXCEPT ![c] = nextBarrier]
  /\ UNCHANGED <<config, status, elapsed, nextSync, server, sleeping, lock>>

\* ... and is running, as far as the barrier knows, when it got it.
Unblock(c) ==
  /\ pc[c] = "unblocking" /\ lock = NoCore
  /\ status' = [status EXCEPT ![c] = "RUNNING"]
  /\ pc' = [pc EXCEPT ![c] = "run"]
  /\ SkipToWakeup(c)
  /\ UNCHANGED <<config, nextSync, server, sleeping, lock>>

\* ThreadManager::createThread, called by thread by for a new thread c.
Spawn(by, c) ==
  /\ "spawn" \in config.calls
  /\ pc[by] = "run" /\ pc[c] = "new" /\ lock = NoCore
  /\ status' = [status EXCEPT ![c] = "INITIALIZING"]
  /\ pc' = [pc EXCEPT ![c] = "init"]
  /\ wakeup' = [wakeup EXCEPT ![c] = elapsed[by]]
  /\ UNCHANGED <<config, elapsed, nextSync, server, sleeping, lock>>

\* ThreadManager::onThreadStart, with the barrier's hook for its migration.
Start(c) ==
  /\ pc[c] = "init" /\ lock = NoCore
  /\ status' = [status EXCEPT ![c] = "RUNNING"]
  /\ elapsed' = [elapsed EXCEPT ![c] = Max2(@, wakeup[c])]
  /\ wakeup' = [wakeup EXCEPT ![c] = 0]
  /\ \E R \in DoRelease(toRelease, 1) :
       /\ toRelease' = toRelease \ R
       /\ pc' = [SignalBarrier(pc, R) EXCEPT ![c] = "run"]
  /\ UNCHANGED <<config, nextSync, localClock, acquired, nextBarrier, globalTime,
                 fastforward, disabled, sleeping, lock>>

(***************************************************************************)
(* ThreadManager::onThreadExit: the thread that joined it, one of waiter,  *)
(* is resumed first.                                                       *)
(***************************************************************************)
Exit(c, waiter) ==
  /\ pc[c] = "run" /\ lock = NoCore
  /\ \A w \in waiter : pc[w] = "stalled" /\ ~IsSleeping(w)
  /\ waiter # {} \/ GoesOnWithout(c) \/ \A o \in Core \ {c} : status[o] = "IDLE"
  /\ status' = [o \in Core |-> IF o = c THEN "IDLE"
                               ELSE IF o \in waiter THEN "RUNNING" ELSE status[o]]
  /\ wakeup' = [o \in Core |-> IF o \in waiter THEN elapsed[c] ELSE wakeup[o]]
  /\ ThreadStopped(c, status',
                   [o \in Core |-> IF o \in waiter THEN "resumed" ELSE pc[o]],
                   "exiting", "exited", NoCore)
  /\ UNCHANGED <<config, elapsed, nextSync, acquired, globalTime, fastforward,
                 disabled, sleeping>>

\* A running thread begins or ends the region of interest (MagicServer::Magic).
Roi(c) ==
  LET s == SetPerformance(Hooked) IN
  /\ "roi" \in config.calls
  /\ pc[c] = "run" /\ lock = NoCore
  /\ pc' = s.pc /\ acquired' = s.acquired /\ nextBarrier' = s.nextBarrier
  /\ fastforward' = s.fastforward /\ disabled' = s.disabled
  /\ UNCHANGED <<config, status, clocks, localClock, toRelease, globalTime,
                 sleeping, lock>>

Steps == UNION {k.steps : k \in Configs}
SleepTimes == UNION {k.sleeps : k \in Configs}
JoinSets == {{}} \cup {{c} : c \in Core}

Next ==
  \E c \in Core :
    \/ \E d \in Steps : Execute(c, d)
    \/ Synchronize(c)
    \/ \E script \in BOOLEAN : Release(c, script)
    \/ LeaveBarrier(c)
    \/ Stall(c)
    \/ \E d \in SleepTimes : Sleep(c, d)
    \/ StallLoop(c)
    \/ \E o \in Core : Resume(c, o)
    \/ LeaveStall(c)
    \/ Block(c)
    \/ ReadWakeTime(c)
    \/ Unblock(c)
    \/ \E o \in Core : Spawn(c, o)
    \/ Start(c)
    \/ \E waiter \in JoinSets : Exit(c, waiter)
    \/ Roi(c)

Spec == Init /\ [][Next]_vars
(***************************************************************************)
(* The host runs every simulation thread and its mutex lets every waiter   *)
(* in eventually.  Application code between two synchronizations, stalls   *)
(* or resumes takes simulated time, so a thread that keeps getting to run  *)
(* keeps executing: strong fairness of Progress.                           *)
(***************************************************************************)
Progress(c) ==
  \/ \E d \in Steps : Execute(c, d)
  \/ Synchronize(c)
  \/ \E waiter \in JoinSets : Exit(c, waiter)

Fairness ==
  \A c \in Core :
    /\ SF_vars(Progress(c))
    /\ WF_vars(Release(c, FALSE))
    /\ WF_vars(StallLoop(c))
    /\ SF_vars(LeaveBarrier(c))
    /\ SF_vars(LeaveStall(c))
    /\ SF_vars(Start(c))

FairSpec == Spec /\ Fairness

-----------------------------------------------------------------------------
Time == Nat

\* Every variable has its type; the lock's holder is where the lock is needed.
TypeOK ==
  /\ config \in Configs
  /\ status \in [Core -> {"INITIALIZING", "RUNNING", "STALLED", "IDLE"}]
  /\ pc \in [Core -> Places]
  /\ elapsed \in [Core -> Time] /\ wakeup \in [Core -> Time]
  /\ nextSync \in [Core -> Time] /\ localClock \in [Core -> Time]
  /\ acquired \subseteq Core /\ toRelease \subseteq Core
  /\ nextBarrier \in Time /\ globalTime \in Time
  /\ fastforward \in BOOLEAN /\ disabled \in BOOLEAN
  /\ sleeping \in Seq([thread : Core, timeout : Time])
  /\ lock \in Core \cup {NoCore}
  /\ \A c \in Core : (pc[c] \in ReleasePlaces \cup {"stalling", "aborted"})
                     <=> (lock = c)

(***************************************************************************)
(* The assertions of the barrier and the thread manager hold: a core that  *)
(* calls synchronize is running and not in the barrier already (lines 75   *)
(* and 76), a thread that exits is running (thread_manager.cc 160), and a  *)
(* barrier is never reached while cores of the previous one are still      *)
(* waiting to be let go (line 249).                                        *)
(***************************************************************************)
AssertionsHold ==
  /\ \A c \in Core : pc[c] = "run" => status[c] = "RUNNING" /\ c \notin acquired
  /\ lock # NoCore /\ pc[lock] \in ReleasePlaces => toRelease = {}

(***************************************************************************)
(* No release is lost: a core that waits in synchronize is in exactly one  *)
(* of m_barrier_acquire_list and m_to_release, and both hold only cores    *)
(* that wait (or whose thread is just releasing the barrier).              *)
(***************************************************************************)
NoLostRelease ==
  /\ {c \in Core : pc[c] = "barrier"} \subseteq acquired \cup toRelease
  /\ acquired \cap toRelease = {}
  /\ \A c \in acquired \cup toRelease : pc[c] \in {"barrier", "syncing"}

\* The simulation stays in detailed mode.
DetailedOnly == config.roi = "none"

\* And threads are neither spawned nor blocked in the operating system, and
\* no instruction outlasts a quantum.
Regular == /\ DetailedOnly /\ config.calls \subseteq {"stall"}
           /\ \A d \in config.steps : d <= Quantum

(***************************************************************************)
(* A core does not run ahead in detailed simulation: it executes past the  *)
(* next barrier only until its next synchronization, which is then due.    *)
(***************************************************************************)
NoRunAhead ==
  DetailedOnly => \A c \in Core : pc[c] = "run" /\ elapsed[c] < nextSync[c] =>
    elapsed[c] < nextBarrier

(***************************************************************************)
(* A core does not execute in the past: the times at which threads are     *)
(* released, resumed and woken are not behind the global time by the time  *)
(* they run.  Threads that are spawned or blocked are let run in the past. *)
(***************************************************************************)
NotInThePast == Regular => \A c \in Core : pc[c] = "run" => elapsed[c] >= globalTime

\* A core that runs is in step with the others: neither ahead nor in the past.
InStep == NoRunAhead /\ NotInThePast

(***************************************************************************)
(* Every core that runs when the global time moves has got to the new      *)
(* time: the barrier does not pass over a core (isBarrierReached).         *)
(***************************************************************************)
PassesNobody ==
  globalTime' > globalTime => \A c \in Running(status) : elapsed[c] >= globalTime'
NobodyLeftBehind == [][Regular => PassesNobody]_vars

(***************************************************************************)
(* futexPeriodic wakes one sleeper at a barrier.  The others oversleep,    *)
(* but of n threads none by n - 2 quanta or more beyond the barrier that   *)
(* follows its timeout: while all sleep, time does not move between two    *)
(* wake-ups.                                                               *)
(***************************************************************************)
OversleepBounded ==
  Regular => \A i \in DOMAIN sleeping :
    globalTime < sleeping[i].timeout + Max2(Cardinality(Core) - 2, 0) * Quantum

(***************************************************************************)
(* barrierRelease's loop comes to an end: called because the barrier was   *)
(* reached, it finds a core to resume.                                     *)
(***************************************************************************)
ResumesSomeCore ==
  lock # NoCore /\ pc[lock] \in ReleasePlaces \ {"advancing"} /\ ~disabled
    => acquired # {}

\* In detailed simulation barrierRelease's loop comes to an end.
ReleaseEnds == DetailedOnly => ResumesSomeCore

\* A thread that waits in the barrier leaves it.
BarrierLeft == \A c \in Core : pc[c] = "barrier" ~> pc[c] # "barrier"

\* A sleeping thread wakes up, as long as another thread runs.
SleeperWakes ==
  \A c \in Core : IsSleeping(c) ~> ~IsSleeping(c) \/ ~AnyThreadRunning(status)

\* A sleeping thread wakes up.
SleeperAlwaysWakes == \A c \in Core : IsSleeping(c) ~> ~IsSleeping(c)
=============================================================================
