------------------------------ MODULE SmtBarrier ------------------------------
(***************************************************************************)
(* How the threads of one simultaneously multithreaded core wait for each  *)
(* other (smt_timer.cc, used by rob_smt_performance_model.cc).  A thread   *)
(* with many micro-ops outstanding enters the barrier; the last one lets a *)
(* thread execute cycles for all, and that thread then goes to the global  *)
(* barrier without holding m_lock, where the scheduler may move threads.   *)
(*                                                                         *)
(* A slot is a logical processor of the core, at[t] the slot whose         *)
(* performance model thread t is in, and surplus the number of micro-ops   *)
(* that are not dispatched, up to MaxSurplus.                              *)
(***************************************************************************)
EXTENDS Integers, FiniteSets, Sequences, SequencesExt, FiniteSetsExt

CONSTANTS NumSlots, Thread, None, Few, MaxSurplus, MayLeave, Placements

VARIABLES slots, inSync, enabled, executeThread, pc, at, spins, left

barVars == <<slots, inSync, enabled, executeThread, pc, at, spins, left>>

Slot == 1 .. NumSlots

\* The slot that runs t, or 0 (findSmtThreadFromThread).
SlotOf(t) == IF \E s \in Slot : slots[s].thread = t THEN CHOOSE s \in Slot : slots[s].thread = t ELSE 0

\* Threads are placed on the slots by HOOK_THREAD_MIGRATE at their start.
BarInit ==
  /\ slots \in {[s \in Slot |-> [thread |-> f[s], running |-> f[s] # None, inBarrier |-> FALSE, surplus |-> 0]] :
                  f \in Placements}
  /\ inSync = FALSE /\ enabled = TRUE /\ executeThread = 1
  /\ at = [t \in Thread |-> SlotOf(t)]
  /\ pc = [t \in Thread |-> IF SlotOf(t) = 0 THEN "off" ELSE "run"]
  /\ spins = FALSE /\ left = FALSE

Enough(sl, s) == sl[s].surplus > Few

\* isBarrierReached
IsBarrierReached(sl) ==
  /\ ~inSync
  /\ \A s \in Slot : sl[s].running => sl[s].inBarrier
  /\ \E s \in Slot : sl[s].inBarrier

\* The threads that wait for the signals of the slots in S are woken.
Signal(S) == [t \in Thread |-> IF pc[t] = "wait" /\ at[t] \in S THEN "woken" ELSE pc[t]]

\* barrierRelease: the slots released (me: the caller's slot, 0 for none), the slot
\* that executes next, and whether the search for someone to release never ends.
Release(sl, all, me) ==
  LET inb == {s \in Slot : sl[s].inBarrier}
      wanted == {s \in inb : ~Enough(sl, s)}
      first == IF all \/ wanted = {} THEN wanted ELSE {Min(wanted)}
      \* the first loop stops at the slot it releases
      seen == IF all \/ wanted = {} THEN Slot ELSE 1 .. Min(wanted)
      running == {s \in seen : sl[s].running /\ (s \in inb => s \in first)}
      stay == {s \in inb \ (first \ {me}) : sl[s].running}
      limit == CHOOSE l \in {2 ^ k : k \in 0 .. MaxSurplus} :
                 /\ \E s \in stay : sl[s].surplus < l
                 /\ l > 1 => \A s \in stay : sl[s].surplus >= l \div 2
      least == {s \in stay : sl[s].surplus < limit}
      second == IF running # {} \/ stay = {} THEN {} ELSE IF all THEN least ELSE {Min(least)}
      out == first \cup second
  IN  [out |-> out, spins |-> running = {} /\ stay = {},
       execute |-> IF ~all /\ second # {} THEN Min(second)
                   ELSE IF ~all /\ first # {} THEN Min(first) ELSE me]

\* What barrierRelease leaves behind; the caller's own slot is left to the caller.
Released(sl, r, me) ==
  [s \in Slot |-> IF s \in r.out \ {me} THEN [sl[s] EXCEPT !.inBarrier = FALSE] ELSE sl[s]]

\* execute(): cycles are run until some thread that may dispatch lacks micro-ops.
Executed(sl) ==
  LET lower == {k \in [Slot -> 0 .. MaxSurplus] :
                  /\ \A s \in Slot : k[s] <= sl[s].surplus
                  /\ \E s \in Slot : sl[s].running /\ k[s] < Few}
  IN  {[s \in Slot |-> [sl[s] EXCEPT !.surplus = k[s]]] : k \in lower}

\* RobSmtPerformanceModel::simulate pushes micro-ops.
Push(t) ==
  /\ pc[t] = "run" /\ SlotOf(t) = at[t] /\ at[t] # 0
  /\ slots[at[t]].surplus < MaxSurplus
  /\ slots' = [slots EXCEPT ![at[t]].surplus = @ + 1]
  /\ UNCHANGED <<inSync, enabled, executeThread, pc, at, spins, left>>

\* A thread that is to execute does so and goes on to the global barrier.
GoSync(t, sl, p) ==
  /\ slots' \in Executed(sl)
  /\ executeThread' = 0 /\ inSync' = TRUE
  /\ pc' = [p EXCEPT ![t] = "sync"]

\* SmtTimer::simulate with barrier(), for a thread with many micro-ops outstanding.
Simulate(t) ==
  LET s == at[t]
      sl == [slots EXCEPT ![s].inBarrier = TRUE]
      r == Release(sl, FALSE, s)
      sl2 == Released(sl, r, s)
      me == s \in r.out
  IN
  /\ pc[t] = "run" /\ SlotOf(t) = s /\ s # 0 /\ enabled /\ slots[s].surplus = MaxSurplus
  /\ UNCHANGED <<enabled, at, left>>
  /\ IF ~IsBarrierReached(sl)
     THEN slots' = sl /\ pc' = [pc EXCEPT ![t] = "wait"] /\ UNCHANGED <<inSync, executeThread, spins>>
     ELSE /\ spins' = (spins \/ r.spins)
          /\ IF me /\ r.execute = s
             THEN GoSync(t, [sl2 EXCEPT ![s].inBarrier = FALSE], Signal(r.out \ {s}))
             ELSE /\ slots' = [sl2 EXCEPT ![s].inBarrier = ~me]
                  /\ executeThread' = r.execute
                  /\ pc' = [Signal(r.out \ {s}) EXCEPT ![t] = IF me THEN "run" ELSE "wait"]
                  /\ UNCHANGED inSync

\* A thread comes out of cond.wait.
WakeUp(t) ==
  /\ pc[t] = "woken"
  /\ UNCHANGED <<enabled, at, spins, left>>
  /\ IF executeThread = at[t]
     THEN GoSync(t, slots, pc)
     ELSE pc' = [pc EXCEPT ![t] = "run"] /\ UNCHANGED <<slots, inSync, executeThread>>

\* client->synchronize() returns, and every thread that should go on is released.
SyncReturns(t) ==
  LET r == Release(slots, TRUE, at[t]) IN
  /\ pc[t] = "sync"
  /\ inSync' = FALSE
  /\ slots' = Released(slots, r, at[t])
  /\ executeThread' = r.execute
  /\ pc' = [Signal(r.out \ {at[t]}) EXCEPT ![t] = "run"]
  /\ spins' = (spins \/ r.spins)
  /\ UNCHANGED <<enabled, at, left>>

\* signalBarrier, on the slots sl, by a thread that is not in the barrier.
SignalBarrier(sl, p) ==
  LET r == Release(sl, FALSE, 0) IN
  IF IsBarrierReached(sl)
  THEN /\ slots' = Released(sl, r, 0)
       /\ executeThread' = r.execute
       /\ pc' = [t \in Thread |-> IF pc[t] = "wait" /\ at[t] \in r.out THEN "woken" ELSE p[t]]
       /\ spins' = (spins \/ r.spins)
  ELSE slots' = sl /\ pc' = p /\ UNCHANGED <<executeThread, spins>>


\* threadStall and threadExit: the thread itself stops running.
ThreadStall(t) ==
  /\ pc[t] = "run" /\ at[t] # 0 /\ SlotOf(t) = at[t]
  /\ SignalBarrier([slots EXCEPT ![at[t]].running = FALSE], [pc EXCEPT ![t] = "stalled"])
  /\ UNCHANGED <<inSync, enabled, at, left>>

ThreadResume(t) ==
  /\ pc[t] = "stalled"
  /\ slots' = [slots EXCEPT ![at[t]].running = TRUE]
  /\ pc' = [pc EXCEPT ![t] = "run"]
  /\ UNCHANGED <<inSync, enabled, executeThread, at, spins, left>>

\* Bug: in_barrier is not reset for the thread that leaves.
MutVacated(s) == [slots EXCEPT ![s].running = FALSE, ![s].thread = None]

\* threadMigrate, away from slot s: whoever waits there is let out of the barrier.
Vacated(s) == [slots EXCEPT ![s].running = FALSE, ![s].thread = None, ![s].inBarrier = FALSE]

LetOut(s) == IF slots[s].inBarrier THEN Signal({s}) ELSE pc

\* The scheduler takes a thread off the core while one is in the global barrier, the
\* one that is there included.
MigrateAway(t) ==
  LET s == SlotOf(t) IN
  /\ s # 0 /\ inSync
  /\ slots' = Vacated(s)
  /\ pc' = [LetOut(s) EXCEPT ![t] = IF @ = "stalled" THEN "off" ELSE @]
  /\ UNCHANGED <<inSync, enabled, executeThread, at, spins, left>>

\* Thread::reschedule: a thread that has lost its slot stalls until it is scheduled; the
\* hook looks at the barrier even though the thread is not on this core any more.
Unscheduled(t) ==
  /\ pc[t] = "run" /\ SlotOf(t) # at[t]
  /\ at' = [at EXCEPT ![t] = SlotOf(t)]
  /\ IF SlotOf(t) = 0 THEN SignalBarrier(slots, [pc EXCEPT ![t] = "off"])
     ELSE UNCHANGED <<slots, pc, executeThread, spins>>
  /\ UNCHANGED <<inSync, enabled, left>>

\* A running thread changes its own affinity and leaves its slot empty.
Leave(t) ==
  /\ MayLeave /\ pc[t] = "run" /\ at[t] # 0 /\ SlotOf(t) = at[t]
  /\ slots' = Vacated(at[t])
  /\ pc' = [pc EXCEPT ![t] = "off"]
  /\ left' = TRUE
  /\ at' = [at EXCEPT ![t] = 0]
  /\ UNCHANGED <<inSync, enabled, executeThread, spins>>

\* The scheduler puts a waiting thread on an empty slot.
MigrateTo(t, s) ==
  /\ pc[t] = "off" /\ slots[s].thread = None
  /\ slots' = [slots EXCEPT ![s].running = TRUE, ![s].thread = t]
  /\ at' = [at EXCEPT ![t] = s]
  /\ pc' = [pc EXCEPT ![t] = "run"]
  /\ UNCHANGED <<inSync, enabled, executeThread, spins, left>>

\* enable, disable: with the detailed model off nobody waits.
Enable ==
  /\ ~enabled /\ enabled' = TRUE
  /\ UNCHANGED <<slots, inSync, executeThread, pc, at, spins, left>>

Disable ==
  /\ enabled /\ enabled' = FALSE
  /\ slots' = [s \in Slot |-> [slots[s] EXCEPT !.inBarrier = FALSE]]
  /\ pc' = Signal({s \in Slot : slots[s].inBarrier})
  /\ UNCHANGED <<inSync, executeThread, at, spins, left>>

\* A search that never ends keeps m_lock, which every step takes.
BarNext ==
  /\ ~spins
  /\ \/ Enable \/ Disable
     \/ \E t \in Thread :
          \/ Push(t) \/ Simulate(t) \/ WakeUp(t) \/ SyncReturns(t)
          \/ ThreadStall(t) \/ ThreadResume(t)
          \/ MigrateAway(t) \/ Unscheduled(t) \/ Leave(t)
          \/ \E s \in Slot : MigrateTo(t, s)

BarSpec == BarInit /\ [][BarNext]_barVars

-----------------------------------------------------------------------------

\* Slots and threads name each other; in_barrier is set exactly where a thread waits.
BarTypeOK ==
  /\ executeThread \in 0 .. NumSlots
  /\ \A s \in Slot : slots[s].inBarrier <=> \E t \in Thread : pc[t] = "wait" /\ at[t] = s

\* "We executed this cycle, make sure no-one else ... executes again": one thread at a
\* time runs cycles for the core and waits in the global barrier for it.
OneAtGlobalBarrier ==
  /\ Cardinality({t \in Thread : pc[t] = "sync"}) <= 1
  /\ inSync = (\E t \in Thread : pc[t] = "sync")

\* Nobody is forgotten in the barrier: when all running threads of the core wait, some
\* thread that has lost its slot is still to stall, and looks at the barrier then.  The
\* exception is a thread that moved itself away.
NobodyForgotten ==
  enabled /\ IsBarrierReached(slots)
    => left \/ \E t \in Thread : pc[t] \in {"woken", "run"} /\ SlotOf(t) # at[t]

\* "We still need to release someone to make forward progress": the search in
\* barrierRelease finds a running thread that waits.
ReleaseFindsSomeone == ~spins
=============================================================================
