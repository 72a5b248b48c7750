------------------------------- MODULE RobTimer -------------------------------
(***************************************************************************)
(* The out-of-order core timing model of rob_timer.cc: micro-ops arrive    *)
(* instruction by instruction, and cycles of dispatch, issue and commit    *)
(* are run until more are needed.  A cycle jumps over the cycles in which  *)
(* nothing is expected to happen.                                          *)
(***************************************************************************)
EXTENDS RobEntries

CONSTANTS RobConfigs, MaxJump

VARIABLES rp, thread, shared, quiet, idle, late

robVars == <<rp, thread, shared, quiet, idle, late>>

RobInit ==
  /\ rp \in RobConfigs
  /\ thread = NewThread
  /\ shared = NewShared(rp)
  /\ quiet = TRUE /\ idle = 0 /\ late = FALSE

\* RobTimer::simulate: the micro-ops of an instruction enter the buffer.
RECURSIVE Push(_, _)
Push(th, uops) ==
  IF uops = <<>> THEN th
  ELSE Push(SetDependencies(rp, [th EXCEPT !.rob = Append(@, NewEntry(Head(uops)))],
                            Len(th.rob) + 1),
            Tail(uops))

\* execute() asks for more before it does anything in a cycle.
NeedsMore(th) == th.stalled <= 0 /\ Len(th.rob) < th.n + 2 * rp.width

Simulate(uops) ==
  /\ NeedsMore(thread)
  /\ thread' = Push(thread, uops)
  /\ UNCHANGED <<rp, shared, quiet, idle, late>>

\* RobTimer::synchronize, between two instructions.
Synchronize ==
  /\ NeedsMore(thread)
  /\ MaxJump > 0
  /\ thread' = ThreadLater(thread, MaxJump)
  /\ shared' = SharedLater(shared, MaxJump)
  /\ UNCHANGED <<rp, quiet, idle, late>>

\* doDispatch: in order, up to rp.width micro-ops; d counts them.
RECURSIVE Dispatch(_, _, _, _)
Dispatch(c, th, d, next) ==
  IF th.n >= rp.window \/ d = rp.width THEN [c |-> c, th |-> th, d |-> d, next |-> next]
  ELSE LET i == th.n + 1
           u == th.rob[i].u
           waits == u.fetch > 0 /\ ~th.inMiss
           th1 == [th EXCEPT !.inMiss = IF u.fetch > 0 THEN FALSE ELSE @]
           ready == Larger(th.rob[i].ready, 1)
           th2 == [th1 EXCEPT !.n = i, !.rob[i].ready = ready,
                              !.stalled = IF u.bad THEN Inf ELSE @]
           c2 == [c EXCEPT !.rs = @ + 1]
           r == [c |-> c2, th |-> th2, d |-> d + 1, next |-> Smaller(next, ready)]
       IN  IF waits
           THEN [c |-> c, th |-> [th EXCEPT !.stalled = u.fetch, !.inMiss = TRUE], d |-> d, next |-> next]
           ELSE IF c.rs = rp.stations THEN [c |-> c, th |-> th1, d |-> d, next |-> next]
           ELSE IF u.bad THEN r
           ELSE Dispatch(c2, th2, d + 1, r.next)

FrontEnd(c, th) ==
  IF th.stalled <= 0 THEN Dispatch(c, th, 0, Inf) ELSE [c |-> c, th |-> th, d |-> 0, next |-> Inf]

FrontEndEvent(r) ==
  [r EXCEPT !.next = IF r.th.n = rp.window THEN @ ELSE Smaller(r.th.stalled, @)]


DoDispatch(c, th) == FrontEndEvent(FrontEnd(c, th))

\* One cycle, and the number of cycles to the next event; d, w and m are what dispatch,
\* issue and commit leave.
CycleResult(d, w, m) ==
  LET next == Min({d.next, w.s.next, FrontDone(m.th)})
  IN  [c |-> w.c, th |-> m.th, commits |-> m.committed,
       acts |-> d.d + w.s.issued + m.committed > 0,
       skip |-> IF next # Inf /\ next > 1 THEN next ELSE 1,
       late |-> ~AddressFirst(w.th)]

ThenCommit(d, w) == CycleResult(d, w, Commit(rp, w.th, 0))
ThenIssue(d) == ThenCommit(d, Walk(rp, d.c, d.th, 1, WalkStart))
Cycle(c, th) == ThenIssue(DoDispatch(c, th))

\* What ASSERT_SKIP asserts: a cycle that is skipped would have done nothing.
Acts(c, th) ==
  IF NeedsMore(th) THEN th.n < rp.window /\ c.rs < rp.stations ELSE Cycle(c, th).acts

Execute ==
  /\ ~NeedsMore(thread)
  /\ \E r \in {Cycle(shared, thread)} :
     /\ thread' = ThreadLater(r.th, r.skip)
     /\ shared' = SharedLater(r.c, r.skip)
     /\ quiet' = \A t \in 1 .. r.skip - 1 : ~Acts(SharedLater(r.c, t), ThreadLater(r.th, t))
     /\ idle' = IF r.commits > 0 THEN 0 ELSE idle + r.skip
     /\ late' = (late \/ r.late)
  /\ UNCHANGED rp

RobNext == (\E uops \in rp.insns : Simulate(uops)) \/ Synchronize \/ Execute

RobSpec == RobInit /\ [][RobNext]_robVars

-----------------------------------------------------------------------------

\* Dispatched micro-ops are in the buffer, which never holds more than the window and
\* what was asked for.
RobTypeOK ==
  /\ thread.n \in 0 .. rp.window /\ thread.n <= Len(thread.rob)
  /\ thread.membar \in 0 .. Len(thread.rob)
  /\ \A r \in Reg : thread.producer[r] \in 0 .. Len(thread.rob)

\* Cycles that execute() jumps over would have dispatched, issued and committed
\* nothing (the check that ASSERT_SKIP compiles in).
SkipsOnlyQuietCycles == quiet

\* A micro-op that waits is on the dependants list of everything it waits for, none of
\* which has issued: its wake-up is never lost.
WakeupsArrive == NoLostWakeup(thread)

\* m_rs_entries_used counts the dispatched micro-ops that have not issued, so stations
\* are neither leaked nor used twice.
StationsCounted == shared.rs = InStations(thread) /\ shared.rs <= rp.stations

\* The address of a store is never known later than its operands.
AddressBeforeData == ~late

\* Without store-to-load forwarding, a load issues after every earlier store to its
\* line that is still in the buffer.
LoadAfterStore == ~rp.forward => LoadsAfterStores(thread)

\* "Don't issue any memory operations following a memory barrier": holds for the
\* fence instructions, whether their order comes from the dependency on the last
\* barrier or, for a fence that is the oldest micro-op, from the walk itself.
FenceOrders == FencesHold(thread)

\* Nothing blocks for good: some micro-op commits every rp.bound cycles, whatever
\* barriers, full queues, mispredictions and fetch misses are under way.
HeadCommits == idle <= rp.bound
=============================================================================
