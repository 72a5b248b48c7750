----------------------------- MODULE RobSmtTimer ------------------------------
(***************************************************************************)
(* The simultaneous multithreading core of rob_smt_timer.cc: every thread  *)
(* has its own reorder buffer; reservation stations, load and store queues *)
(* and issue ports are shared.  One thread dispatches in a cycle, threads  *)
(* issue in round robin, and a thread whose next event is in the future is *)
(* not looked at.  Cycles are never skipped with two threads or more.      *)
(*                                                                         *)
(* A thread's ahead is how far thread->now is ahead of the core's now.     *)
(* Micro-ops that wait to be dispatched have no effect before their        *)
(* dispatch, so a thread gets more only when canExecute() asks for them.   *)
(***************************************************************************)
EXTENDS RobEntries

CONSTANTS SmtConfigs, SmtMaxJump

VARIABLES sp, threads, core, dispatchThread, issueThread, unseen, starved

smtVars == <<sp, threads, core, dispatchThread, issueThread, unseen, starved>>

T == 1 .. sp.threads

After(t) == (t % sp.threads) + 1

SmtInit ==
  /\ sp \in SmtConfigs
  /\ threads = [t \in 1 .. sp.threads |->
                  [running |-> TRUE, ahead |-> 0, nextEvent |-> 0, buf |-> NewThread]]
  /\ core = NewShared(sp)
  /\ dispatchThread = 1 /\ issueThread = 1
  /\ unseen = FALSE /\ starved = [t \in 1 .. sp.threads |-> 0]

\* computeCurrentWindowsize: the buffer is shared out among the threads, or among
\* those that are awake.
CurrentWindowSize(ts) ==
  LET awake == Cardinality({t \in T : ts[t].running}) IN
  IF ~sp.repartition THEN sp.window \div sp.threads
  ELSE IF awake > 0 THEN sp.window \div awake ELSE sp.window

\* canExecute(thread_num): the thread may dispatch in this cycle.
MayDispatch(ts, t) ==
  /\ ts[t].buf.stalled <= 0 /\ ts[t].ahead = 0
  /\ ts[t].buf.n < CurrentWindowSize(ts) /\ ts[t].running

NeedsMore(t) ==
  MayDispatch(threads, t) /\ Len(threads[t].buf.rob) < threads[t].buf.n + 2 * sp.width

PushInstructions(t, uops) ==
  /\ NeedsMore(t)
  /\ threads' = [threads EXCEPT ![t].buf.rob = @ \o [i \in DOMAIN uops |-> NewEntry(uops[i])]]
  /\ UNCHANGED <<sp, core, dispatchThread, issueThread, unseen, starved>>

-----------------------------------------------------------------------------
(* Dispatch                                                                 *)

Dispatched(th, i) ==
  [th EXCEPT !.n = i, !.rob[i].ready = Larger(@, 1), !.stalled = IF th.rob[i].u.bad THEN Inf ELSE @]

Counted(th, i, d) == [count |-> d.count + 1, next |-> Smaller(d.next, th.rob[i].ready)]

RECURSIVE TryDispatch(_, _, _, _)

\* The micro-op at i has been dispatched and takes a station; a mispredicted branch
\* ends it.
NextDispatch(c, th, i, w, d) ==
  IF th.rob[i].u.bad
  THEN [c |-> [c EXCEPT !.rs = @ + 1], th |-> th, d |-> Counted(th, i, d)]
  ELSE TryDispatch([c EXCEPT !.rs = @ + 1], th, w, Counted(th, i, d))

\* tryDispatch: up to sp.width micro-ops of one thread; dependencies are set here.
TryDispatch(c, th, w, d) ==
  IF th.n >= w \/ d.count = sp.width THEN [c |-> c, th |-> th, d |-> d]
  ELSE LET i == th.n + 1
           u == th.rob[i].u
           fetched == [th EXCEPT !.inMiss = IF u.fetch > 0 THEN FALSE ELSE @]
       IN  IF u.fetch > 0 /\ ~th.inMiss
           THEN [c |-> c, th |-> [th EXCEPT !.stalled = u.fetch, !.inMiss = TRUE], d |-> d]
           ELSE IF c.rs = sp.stations THEN [c |-> c, th |-> fetched, d |-> d]
           ELSE NextDispatch(c, Dispatched(SetDependencies(sp, fetched, i), i), i, w, d)

FrontEventOf(r, w) == IF r.th.n < w THEN Smaller(r.th.stalled, r.d.next) ELSE r.d.next

DispatchedFrom(s, t, w, r) ==
  [c |-> r.c, next |-> FrontEventOf(r, w), from |-> IF r.d.count > 0 THEN t ELSE 0,
   ts |-> [s.ts EXCEPT ![t].buf = r.th,
                       ![t].nextEvent = IF r.d.count > 0 THEN Smaller(@, r.d.next) ELSE @]]

\* One thread of doDispatch's round: it dispatches unless an earlier one has.
DispatchFrom(s, t) ==
  LET w == CurrentWindowSize(s.ts)
  IN  IF ~MayDispatch(s.ts, t) \/ s.from # 0 THEN s
      ELSE DispatchedFrom(s, t, w,
             TryDispatch(s.c, s.ts[t].buf, w, [count |-> 0, next |-> s.next]))

Rounds(first) == [k \in 1 .. sp.threads |-> ((first + k - 2) % sp.threads) + 1]

\* doDispatch; its result `next' is the thread to start from in the next cycle.
StartAfter(s) == [s EXCEPT !.next = After(IF s.from = 0 THEN dispatchThread ELSE s.from)]

DoDispatch(c, ts) ==
  StartAfter(FoldLeft(DispatchFrom, [c |-> c, ts |-> ts, next |-> Inf, from |-> 0],
                      Rounds(dispatchThread)))

-----------------------------------------------------------------------------
(* Issue and commit                                                         *)

\* tryIssue
TryIssue(c, th) == Walk(sp, c, th, 1, WalkStart)

IssuedFrom(s, t, r) ==
  [c |-> r.c, ts |-> [s.ts EXCEPT ![t].buf = r.th, ![t].nextEvent = r.s.next],
   stop |-> IF r.s.issued > 0 /\ ~sp.simultaneousIssue THEN t ELSE 0]

\* One thread of doIssue's round; stop is the thread that ended it.
IssueFrom(s, t) ==
  IF s.stop # 0 \/ s.ts[t].nextEvent > 0 \/ s.ts[t].buf.n = 0 THEN s
  ELSE IssuedFrom(s, t, TryIssue(s.c, s.ts[t].buf))

DoIssue(c, ts) == FoldLeft(IssueFrom, [c |-> c, ts |-> ts, stop |-> 0], Rounds(issueThread))

\* What ASSERT_SKIP asserts in doIssue: a thread that is not looked at has nothing to
\* issue.
Overlooked(c, ts) ==
  \E t \in T : ts[t].nextEvent > 0 /\ TryIssue(c, ts[t].buf).s.issued > 0

\* doCommit: every thread commits up to sp.commit micro-ops.
DoCommit(ts) == [t \in T |-> Commit(sp, ts[t].buf, 0)]

\* The oldest micro-op waits for a queue that the threads share, or as a barrier for
\* the stores of all of them: nothing keeps another thread from taking every slot.
WaitsForOthers(th) ==
  LET e == Head(th.rob) IN
  /\ th.n > 0 /\ e.done = Inf /\ e.ready <= 0
  /\ IsLoad(e) \/ IsStore(e) \/ e.u.membar \/ e.u.serial

\* executeCycle, with more than one thread.
ExecuteCycle ==
  /\ \A t \in T : ~NeedsMore(t)
  /\ \E t \in T : threads[t].running
  /\ \E d \in {DoDispatch(core, threads)} :
     \E w \in {DoIssue(d.c, d.ts)} :
     \E m \in {DoCommit(w.ts)} :
        /\ threads' = [t \in T |-> [w.ts[t] EXCEPT !.buf = ThreadLater(m[t].th, 1),
                                                   !.ahead = Later(@, 1),
                                                   !.nextEvent = Later(@, 1)]]
        /\ core' = SharedLater(w.c, 1)
        /\ dispatchThread' = d.next
        /\ issueThread' = After(IF w.stop = 0 THEN issueThread ELSE w.stop)
        /\ unseen' = Overlooked(d.c, d.ts)
        /\ starved' = [t \in T |->
             IF \/ m[t].committed > 0 \/ ~threads[t].running \/ threads[t].ahead > 0
                \/ WaitsForOthers(w.ts[t].buf)
             THEN 0 ELSE starved[t] + 1]
  /\ UNCHANGED sp

\* synchronize, called by a thread that gets a new time: the thread's clock is set, and when every thread is ahead the
\* core moves on to the earliest.
Synchronize(t) ==
  LET ahead == [s \in T |-> IF s = t THEN SmtMaxJump ELSE threads[s].ahead]
      earliest == CHOOSE a \in Range(ahead) : \A s \in T : a <= ahead[s]
  IN  /\ sp.jumps /\ threads[t].running /\ threads[t].ahead = 0
      /\ threads' = [s \in T |-> [threads[s] EXCEPT !.ahead = ahead[s] - earliest,
                                                    !.nextEvent = Later(@, earliest),
                                                    !.buf = ThreadLater(@, earliest)]]
      /\ core' = SharedLater(core, earliest)
      /\ UNCHANGED <<sp, dispatchThread, issueThread, unseen, starved>>

\* A thread stalls or resumes (SmtTimer's hooks call notifyNumActiveThreadsChange).
NotifyNumActiveThreadsChange(t) ==
  /\ t \in sp.sleeps
  /\ threads' = [threads EXCEPT ![t].running = ~@]
  /\ starved' = [starved EXCEPT ![t] = 0]
  /\ UNCHANGED <<sp, core, dispatchThread, issueThread, unseen>>

SmtNext ==
  \/ ExecuteCycle
  \/ \E t \in T :
       \/ \E uops \in sp.insns : PushInstructions(t, uops)
       \/ Synchronize(t)
       \/ NotifyNumActiveThreadsChange(t)

SmtSpec == SmtInit /\ [][SmtNext]_smtVars

-----------------------------------------------------------------------------

\* Dispatched micro-ops are in their thread's buffer, the round-robin pointers name
\* threads.
SmtTypeOK ==
  /\ dispatchThread \in T /\ issueThread \in T
  /\ \A t \in T : /\ threads[t].buf.n \in 0 .. Len(threads[t].buf.rob)
                  /\ threads[t].buf.n <= sp.window

\* A thread that doIssue passes over because its next event is in the future would not
\* have issued anything (the assertion on would_have_skipped).
PassedOverIsQuiet == ~unseen

\* The shared reservation stations are those of all threads' waiting micro-ops.
SharedStationsCounted ==
  /\ core.rs = MapThenSumSet(LAMBDA t : InStations(threads[t].buf), T)
  /\ core.rs <= sp.stations

\* Round robin shares the core: a running thread commits within sp.bound cycles, other
\* than while its oldest micro-op waits for a shared queue or as a barrier.
EveryThreadCommits == \A t \in T : starved[t] <= sp.bound

\* Wake-ups within a thread are not lost to the other threads' activity.
ThreadWakeupsArrive == \A t \in T : NoLostWakeup(threads[t].buf)
=============================================================================
