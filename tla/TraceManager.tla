---------------------------- MODULE TraceManager ----------------------------
(***************************************************************************)
(* Which threads and applications of a trace-driven simulation are still   *)
(* running, and when the simulation ends (TraceManager, TraceThread::run). *)
(* m_threads is a vector, so a thread is its index in it.  Every operation *)
(* takes m_lock and is one action, except endApplication: it takes the     *)
(* lock anew for each thread it aborts.                                    *)
(*                                                                         *)
(* The environment: the first thread of a process ends it with exit_group, *)
(* other threads may stay blocked for ever in a system call; the process   *)
(* creates no threads once it is exiting.  A thread added to m_threads     *)
(* while endApplication iterates over it may reallocate the vector; what   *)
(* happens then is undefined and is left out (NoReallocation).             *)
(***************************************************************************)
EXTENDS Integers, Sequences, FiniteSets

CONSTANTS
  MaxApps,       \* bound: applications, those at the start and forked ones
  MaxCreated,    \* bound: threads created by the applications
  MaxRuns,       \* bound: restarts of one application
  WorkersExit    \* may threads other than the first call exit_group?

ASSUME TraceConstants ==
  /\ MaxApps \in Nat \ {0} /\ MaxCreated \in Nat /\ MaxRuns \in Nat
  /\ WorkersExit \in BOOLEAN

VARIABLES
  config,      \* m_stop_with_first_app and m_app_restart
  threads,     \* m_threads: each one's application, and whether it is its first
  pc,          \* where a thread is
  index,       \* endApplication's iterator
  stop,        \* the threads with m_stop set
  stopped,     \* the threads with m_stopped set
  numApps,     \* m_num_apps
  numThreads,  \* app_info_t::num_threads
  numRuns,     \* app_info_t::num_runs
  nonfinish,   \* m_num_apps_nonfinish
  done         \* whether m_done was signalled

counts == <<stop, stopped, numThreads, numRuns, nonfinish, done>>
vars == <<config, threads, pc, index, numApps, counts>>

App == 1..MaxApps
Apps == 1..numApps
Id == 1..(MaxApps * (1 + MaxRuns) + MaxCreated)
Ids == DOMAIN threads
AppOf(t) == threads[t].app
IsFirst(t) == threads[t].first

\* The thread that began the run t belongs to.
FirstOf(t) ==
  CHOOSE f \in 1..t : /\ AppOf(f) = AppOf(t) /\ IsFirst(f)
                      /\ \A g \in f+1..t : AppOf(g) = AppOf(t) => ~IsFirst(g)

\* TraceManager::init: one thread for each application of the command line.
Init ==
  /\ config \in [stopWithFirst : BOOLEAN, restart : BOOLEAN]
  /\ numApps \in App
  /\ threads = [i \in Apps |-> [app |-> i, first |-> TRUE]]
  /\ pc = [t \in Id |-> "init"]
  /\ index = [t \in Id |-> 0]
  /\ stop = {} /\ stopped = {}
  /\ numThreads = [a \in App |-> IF a \in Apps THEN 1 ELSE 0]
  /\ numRuns = [a \in App |-> 0]
  /\ nonfinish = numApps
  /\ done = FALSE

\* What newThread and signalDone change, as one record.
State == [threads |-> threads, stop |-> stop, stopped |-> stopped,
          numThreads |-> numThreads, numRuns |-> numRuns,
          nonfinish |-> nonfinish, done |-> done]

Becomes(s) ==
  /\ threads' = s.threads /\ stop' = s.stop /\ stopped' = s.stopped
  /\ numThreads' = s.numThreads /\ numRuns' = s.numRuns
  /\ nonfinish' = s.nonfinish /\ done' = s.done

\* TraceManager::newThread
NewThread(s, a, first) ==
  [s EXCEPT !.threads = Append(@, [app |-> a, first |-> first]),
            !.numThreads[a] = IF first THEN 1 ELSE @ + 1]

\* TraceManager::stop
StopAll(s) == [s EXCEPT !.stop = DOMAIN s.threads, !.done = TRUE]

\* signalDone when the last thread of application a ended: its run is counted.
Finished(s, a) ==
  [s EXCEPT !.numRuns[a] = @ + 1,
            !.nonfinish = IF s.numRuns[a] = 0 THEN @ - 1 ELSE @]

\* ... and the simulation ends, or the application starts again.
AfterRun(s, a) ==
  IF config.stopWithFirst \/ s.nonfinish = 0 THEN StopAll(s)
  ELSE IF config.restart THEN NewThread(s, a, TRUE) ELSE s

MutSignalDone(s, t, aborted) ==
  LET a == s.threads[t].app
      s2 == [s EXCEPT !.stopped = @ \cup {t}, !.numThreads[a] = @ - 1]
  IN IF aborted \/ s2.numThreads[a] # 0 THEN s2
     ELSE AfterRun(Finished(s2, a), a)

\* TraceManager::signalDone, for thread t.
SignalDone(s, t, aborted) ==
  LET a == s.threads[t].app
      s2 == [s EXCEPT !.stopped = @ \cup {t}, !.numThreads[a] = @ - 1]
  IN IF t \in s.stopped THEN s
     ELSE IF aborted \/ s2.numThreads[a] # 0 THEN s2
     ELSE AfterRun(Finished(s2, a), a)

Goto(t, place) == pc' = [pc EXCEPT ![t] = place]
Running(t) == t \in Ids /\ pc[t] = "run"

\* push_back reallocates a vector whose size is its capacity, a power of 2.
NoReallocation ==
  \/ Len(threads) \notin {2^k : k \in 0..Len(threads)}
  \/ \A t \in Ids : pc[t] # "ending"
-----------------------------------------------------------------------------
\* TraceThread::run begins: onThreadStart, the first instruction, signalStarted.
Start(t) ==
  /\ t \in Ids /\ pc[t] = "init"
  /\ Goto(t, "run")
  /\ UNCHANGED <<config, threads, index, numApps, counts>>

\* handleNewThreadFunc: createThread
Create(t) ==
  /\ Running(t) /\ pc[FirstOf(t)] = "run"
  /\ Cardinality({u \in Ids : ~IsFirst(u)}) < MaxCreated
  /\ NoReallocation
  /\ Becomes(NewThread(State, AppOf(t), FALSE))
  /\ UNCHANGED <<config, pc, index, numApps>>

\* handleForkFunc: createApplication
Fork(t) ==
  /\ Running(t) /\ numApps < MaxApps /\ NoReallocation
  /\ numApps' = numApps + 1
  /\ Becomes(NewThread([State EXCEPT !.nonfinish = @ + 1], numApps + 1, TRUE))
  /\ UNCHANGED <<config, pc, index>>

\* A thread blocks in a system call, and returns from it.
Block(t) ==
  /\ Running(t) /\ ~IsFirst(t)
  /\ Goto(t, "blocked")
  /\ UNCHANGED <<config, threads, index, numApps, counts>>

Unblock(t) ==
  /\ t \in Ids /\ pc[t] = "blocked"
  /\ Goto(t, "run")
  /\ UNCHANGED <<config, threads, index, numApps, counts>>

\* handleSyscallFunc for SYS_exit_group.
ExitGroup(t) ==
  /\ Running(t) /\ (IsFirst(t) \/ WorkersExit)
  /\ Goto(t, "ending")
  /\ index' = [index EXCEPT ![t] = 1]
  /\ UNCHANGED <<config, threads, numApps, counts>>

MutAborts(t, u) == AppOf(u) = AppOf(t)

\* The threads endApplication aborts: the others of the same application.
Aborts(t, u) == AppOf(u) = AppOf(t) /\ u # t

\* One iteration of endApplication's loop.
EndApplication(t) ==
  LET u == index[t] IN
  /\ t \in Ids /\ pc[t] = "ending"
  /\ IF u > Len(threads)
     THEN /\ Goto(t, "last")
          /\ index' = [index EXCEPT ![t] = 0]
          /\ UNCHANGED <<threads, counts>>
     ELSE /\ index' = [index EXCEPT ![t] = u + 1]
          /\ IF Aborts(t, u)
             THEN Becomes(SignalDone([State EXCEPT !.stop = @ \cup {u}], u, TRUE))
             ELSE UNCHANGED <<threads, counts>>
          /\ UNCHANGED pc
  /\ UNCHANGED <<config, numApps>>

\* The trace ends, or m_stop is seen: onThreadExit, and m_stop is read once
\* more for the call of signalDone.
Finish(t) ==
  /\ t \in Ids
  /\ \/ pc[t] = "last"
     \/ pc[t] = "run" /\ (t \in stop \/ ~IsFirst(t))
  /\ Goto(t, IF t \in stop THEN "aborted" ELSE "completed")
  /\ UNCHANGED <<config, threads, index, numApps, counts>>

\* The call of signalDone at the end of TraceThread::run.
CallSignalDone(t) ==
  LET s == SignalDone(State, t, pc[t] = "aborted") IN
  /\ t \in Ids /\ pc[t] \in {"aborted", "completed"}
  /\ \/ s.threads = threads
     \/ NoReallocation /\ s.numRuns[AppOf(t)] <= MaxRuns
  /\ Becomes(s)
  /\ Goto(t, "done")
  /\ UNCHANGED <<config, index, numApps>>

Next ==
  \E t \in Id :
    \/ Start(t) \/ Create(t) \/ Fork(t) \/ Block(t) \/ Unblock(t)
    \/ ExitGroup(t) \/ EndApplication(t)
    \/ Finish(t) \/ CallSignalDone(t)

Spec == Init /\ [][Next]_vars

\* The host runs every thread; the first thread of an application ends it.
Fairness ==
  \A t \in Id :
    /\ WF_vars(Start(t)) /\ WF_vars(EndApplication(t))
    /\ WF_vars(Finish(t)) /\ WF_vars(CallSignalDone(t))
    /\ WF_vars(ExitGroup(t) /\ IsFirst(t))

FairSpec == Spec /\ Fairness
-----------------------------------------------------------------------------
\* Every variable has its type.
TypeOK ==
  /\ threads \in Seq([app : App, first : BOOLEAN])
  /\ pc \in [Id -> {"init", "run", "blocked", "ending", "last", "aborted",
                "completed", "done"}]
  /\ stop \subseteq Ids /\ stopped \subseteq Ids
  /\ numApps \in App /\ numThreads \in [App -> Int] /\ numRuns \in [App -> Nat]
  /\ nonfinish \in Int /\ done \in BOOLEAN

(***************************************************************************)
(* The counts are exact.  That of an application's threads, although a     *)
(* thread can be counted out by itself and by whoever calls exit_group, is *)
(* the number of its threads without m_stopped.  m_num_apps_nonfinish is   *)
(* the number of applications without a completed run, across forks and    *)
(* restarts.                                                               *)
(***************************************************************************)
CountsExact ==
  /\ \A a \in App : numThreads[a] = Cardinality({t \in Ids \ stopped : AppOf(t) = a})
  /\ nonfinish = Cardinality({a \in Apps : numRuns[a] = 0})

(***************************************************************************)
(* signalDone stops the simulation only when some application, or every    *)
(* one that exists by then, has run to its end: an aborted thread, a       *)
(* restart or an application forked meanwhile never stands in for one.     *)
(***************************************************************************)
StopsWithReason ==
  ~done /\ done' => IF config.stopWithFirst THEN \E a \in Apps : numRuns'[a] > 0
                                    ELSE \A a \in Apps : numRuns'[a] > 0

EndsWithReason == [][StopsWithReason]_vars

\* The simulation ends (TraceManager::wait returns).
SimulationEnds == <>done

\* The simulation ends, and only for a reason.
EndsForAReason == EndsWithReason /\ SimulationEnds
=============================================================================
