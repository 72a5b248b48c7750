----------------------------- MODULE RoutineTracer -----------------------------
(***************************************************************************)
(* The routine tracer (routine_tracer.cc) of one thread, with the          *)
(* per-function statistics of routine_tracer_funcstats.cc.  The trace says *)
(* which routine is entered or left, or just which one is running, with    *)
(* the stack pointer; the tracer keeps the call stack and tells the        *)
(* statistics, which charge what the thread does to the routine on top.    *)
(*                                                                         *)
(* r is the tracer: stack and esp (m_stack, m_last_esp), start and         *)
(* startFull (m_values_start, m_values_start_full), flat and calls (the    *)
(* Routine records of RtnMaster::m_routines), full and fullCalls (those    *)
(* of m_callstack_routines), now (the statistic that is traced).  entered  *)
(* and spent are history: how often functionEnter was called, and what the *)
(* thread did inside some routine in the region of interest.               *)
(*                                                                         *)
(* roi is MagicServer::m_performance_enabled; pending is the hook that     *)
(* setPerformance has still to call, when another thread changed roi.      *)
(***************************************************************************)
EXTENDS Integers, Sequences, SequencesExt, FiniteSetsExt, Functions

CONSTANTS TracerConfigs, Routine, MaxDepth, MaxNow,
          MaxEvents           \* bound on the routine changes and switches of roi

VARIABLES tc, r, roi, pending, events

tracerVars == <<tc, r, roi, pending, events>>

Stacks == BoundedSeq(Routine, MaxDepth)

Esp == 0 .. 1

TracerInit ==
  /\ tc \in TracerConfigs
  /\ r = [stack |-> <<>>, esp |-> 0, now |-> 0, start |-> 0, startFull |-> [s \in Stacks |-> 0],
          flat |-> [e \in Routine |-> 0], calls |-> [e \in Routine |-> 0],
          full |-> [s \in Stacks |-> 0], fullCalls |-> [s \in Stacks |-> 0],
          entered |-> [e \in Routine |-> 0], spent |-> 0]
  /\ roi = FALSE
  /\ pending = "none"
  /\ events = 0

-----------------------------------------------------------------------------
(* The statistics *)

FunctionBegin(t, e) ==
  [t EXCEPT !.start = t.now,
            !.startFull = IF t.stack = <<>> THEN @ ELSE [@ EXCEPT ![t.stack] = t.now]]

FunctionEnd(t, e, count) ==
  LET u == [t EXCEPT !.flat[e] = @ + t.now - t.start, !.calls[e] = @ + count] IN
  IF t.stack = <<>> THEN u
  ELSE [u EXCEPT !.full[t.stack] = @ + t.now - t.startFull[t.stack], !.fullCalls[t.stack] = @ + count]

FunctionEnter(t, e) == FunctionBegin([t EXCEPT !.entered[e] = @ + 1], e)
FunctionExit(t, e) == FunctionEnd(t, e, 1)

FunctionChildEnter(t, e) == FunctionEnd(t, e, 0)
FunctionChildExit(t, e) == FunctionBegin(t, e)

-----------------------------------------------------------------------------
(* The call stack *)

Pop(t) == [t EXCEPT !.stack = Front(@)]

\* routineEnter_unlocked
RoutineEnter(t, e, esp) ==
  LET p == IF t.stack # <<>> /\ roi THEN FunctionChildEnter(t, Last(t.stack)) ELSE t
      q == [p EXCEPT !.stack = Append(@, e), !.esp = esp]
  IN  IF roi THEN FunctionEnter(q, e) ELSE q

\* unwindTo, for a routine that is on the stack.
RECURSIVE UnwindTo(_, _)
UnwindTo(t, e) ==
  IF Last(t.stack) = e THEN t
  ELSE LET p == Pop(IF roi THEN FunctionExit(t, Last(t.stack)) ELSE t)
       IN  UnwindTo(IF roi THEN FunctionChildExit(p, Last(p.stack)) ELSE p, e)

\* routineExit: a routine that is not on the stack is not popped, yet the routine on top
\* is begun again.
RoutineExit(t, e, esp) ==
  LET u == UnwindTo(t, e)
      p == IF ~Contains(t.stack, e) THEN t ELSE Pop(IF roi THEN FunctionExit(u, e) ELSE u)
      q == [p EXCEPT !.esp = esp]
  IN  IF t.stack = <<>> THEN t
      ELSE IF q.stack # <<>> /\ roi THEN FunctionChildExit(q, Last(q.stack)) ELSE q

RoutineAssert(t, e, esp) ==
  CASE t.stack = <<>> -> RoutineEnter(t, e, esp)
    [] t.stack # <<>> /\ Last(t.stack) = e -> t
    [] t.stack # <<>> /\ Last(t.stack) # e /\ (esp <= t.esp \/ ~Contains(t.stack, e)) -> RoutineEnter(t, e, esp)
    [] OTHER -> [UnwindTo(t, e) EXCEPT !.esp = esp]

\* hookRoiBegin enters the routines from the bottom of the stack, with the whole stack in
\* place.
HookRoiBegin(t) ==
  FoldLeft(LAMBDA u, i : FunctionEnter(IF i > 1 THEN FunctionChildEnter(u, t.stack[i - 1]) ELSE u, t.stack[i]),
           t, [i \in DOMAIN t.stack |-> i])

\* hookRoiEnd exits them from the top, popping, and puts the stack back.
RECURSIVE ExitAll(_, _)
ExitAll(t, child) ==
  IF t.stack = <<>> THEN t
  ELSE LET u == IF child THEN FunctionChildExit(t, Last(t.stack)) ELSE t
       IN  ExitAll(Pop(FunctionExit(u, Last(u.stack))), TRUE)

HookRoiEnd(t) == [ExitAll(t, FALSE) EXCEPT !.stack = t.stack]

-----------------------------------------------------------------------------

Hook(t, which) == IF which = "begin" THEN HookRoiBegin(t) ELSE HookRoiEnd(t)

\* TraceThread::handleRoutineChangeFunc
HandleRoutineChange ==
  /\ \E e \in Routine, esp \in Esp :
       \/ Len(r.stack) < MaxDepth /\ r' = RoutineEnter(r, e, esp)
       \/ (tc.mismatch \/ Contains(r.stack, e)) /\ r' = RoutineExit(r, e, esp)
       \/ Len(r.stack) < MaxDepth /\ r' = RoutineAssert(r, e, esp)
  /\ pending = "none" \/ tc.racy
  /\ events < MaxEvents /\ events' = events + 1
  /\ UNCHANGED <<tc, roi, pending>>

\* What the thread does is charged to the routine on top, from the one hook to the other.
Open == r.stack # <<>> /\ (IF roi THEN pending = "none" ELSE pending = "end")

\* The thread executes; ThreadStatsManager::update makes the statistic current before use.
Execute ==
  /\ r.now < MaxNow
  /\ r' = [r EXCEPT !.now = @ + 1, !.spent = IF Open THEN @ + 1 ELSE @]
  /\ UNCHANGED <<tc, roi, pending, events>>

\* MagicServer::setPerformance sets m_performance_enabled and calls the hooks.
SetPerformance ==
  /\ pending = "none"
  /\ events < MaxEvents /\ events' = events + 1
  /\ roi' = ~roi
  /\ pending' = IF roi THEN "end" ELSE "begin"
  /\ UNCHANGED <<tc, r>>

CallHook ==
  /\ pending # "none"
  /\ r' = Hook(r, pending)
  /\ pending' = "none"
  /\ UNCHANGED <<tc, roi, events>>

TracerNext == HandleRoutineChange \/ Execute \/ SetPerformance \/ CallHook

TracerSpec == TracerInit /\ [][TracerNext]_tracerVars

-----------------------------------------------------------------------------

\* The stack holds routines, and nothing has been charged more than the thread did.
TracerTypeOK ==
  /\ r.stack \in Stacks /\ r.esp \in Esp
  /\ r.flat \in [Routine -> 0 .. MaxNow]
  /\ roi \in BOOLEAN /\ pending \in {"none", "begin", "end"}

\* Everything the thread does in the region of interest is charged to exactly one
\* routine, through calls, returns, tail calls and jumps out of several routines
\* (routine_tracer.cc): "Mismatch, ignore" leaves the accounts alone.
AllTimeCharged ==
  ~tc.racy => MapThenSumSet(LAMBDA e : r.flat[e], Routine) + (IF Open THEN r.now - r.start ELSE 0) = r.spent

\* The statistics per call stack add up to the statistics per routine.
FullMatchesFlat ==
  ~tc.racy =>
    \A e \in Routine :
      LET ends == {s \in Stacks : s # <<>> /\ Last(s) = e} IN
      /\ MapThenSumSet(LAMBDA s : r.full[s], ends) = r.flat[e]
      /\ MapThenSumSet(LAMBDA s : r.fullCalls[s], ends) = r.calls[e]

\* A routine that was entered in the region of interest is exited once, or is still on
\* the stack: unwinding and the end of the region forget none.
EveryEntryExited ==
  ~tc.racy =>
    \A e \in Routine :
      r.entered[e] = r.calls[e] + (IF Open THEN Len(SelectSeq(r.stack, LAMBDA f : f = e)) ELSE 0)
=============================================================================
