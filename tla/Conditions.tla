------------------------------- MODULE Conditions -------------------------------
(***************************************************************************)
(* ConditionVariable (cond.cc), Semaphore (semaphore.cc), and what is made *)
(* of them: MTCircularQueue (mt_circular_queue.h over circular_queue.h)    *)
(* and Barrier (barrier.cc).  They wait on a futex word of the kernel: the *)
(* word is cleared under a lock, the lock is given up, and FUTEX_WAIT      *)
(* sleeps unless the word was set in between.                              *)
(*                                                                         *)
(* cv is the configuration: kind is "queue", "semaphore" or "barrier";     *)
(* threads is how many there are (1 produces, the others consume; all but  *)
(* 1 wait; all meet); interrupts says if signals arrive.                   *)
(* lock is the mutex of the object, futex the word of each condition, pcs  *)
(* where the threads are, and o the object.  woken, items and round are    *)
(* history: the threads that were signalled since they began to wait, what *)
(* is in the queue, and how often each thread passed the barrier.          *)
(***************************************************************************)
EXTENDS Integers, Sequences, FiniteSets

CONSTANTS CondConfigs, NoThread,
          Items,              \* what is queued, in turn
          MaxCount            \* bound on the count of the semaphore and on the rounds

VARIABLES cv, lock, futex, pcs, o

condVars == <<cv, lock, futex, pcs, o>>

CondThread == 1 .. cv.threads

CondInit ==
  /\ cv \in CondConfigs
  /\ lock = NoThread
  /\ futex = [full |-> 0, empty |-> 0]
  /\ pcs = [t \in 1 .. cv.threads |-> "idle"]
  /\ o = [first |-> 0, last |-> 0, slots |-> [i \in 0 .. cv.size |-> 0],
          count |-> 0, waiting |-> 0, arrived |-> 0, leaving |-> 0,
          woken |-> {}, items |-> <<>>, next |-> 0, round |-> [t \in 1 .. cv.threads |-> 0]]

-----------------------------------------------------------------------------
(* The condition variable.  One for each direction of the queue. *)

WaitsOn(t) == IF cv.kind = "queue" /\ t = 1 THEN "full" ELSE "empty"

\* ConditionVariable::wait up to FUTEX_WAIT: the word is cleared, the lock released.
BeginWait(t) ==
  /\ futex' = [futex EXCEPT ![WaitsOn(t)] = 0]
  /\ lock' = NoThread

\* FUTEX_WAIT compares the word and sleeps.
FutexWait(t) ==
  /\ pcs[t] = "futex"
  /\ pcs' = [pcs EXCEPT ![t] = IF futex[WaitsOn(t)] = 0 THEN "asleep" ELSE "relock"]
  /\ UNCHANGED <<cv, lock, futex, o>>

\* A signal interrupts FUTEX_WAIT: syscall returns -1, which is not -EINTR, so that the loop
\* of ConditionVariable::wait ends; Semaphore::wait has no loop around it.
Interrupted(t) ==
  /\ cv.interrupts /\ pcs[t] = "asleep"
  /\ pcs' = [pcs EXCEPT ![t] = "relock"]
  /\ UNCHANGED <<cv, lock, futex, o>>

Asleep(c) == {t \in CondThread : pcs[t] = "asleep" /\ WaitsOn(t) = c}

\* signal and broadcast: the word is set, and sleepers are woken.
Wake(c, woken, p) ==
  /\ futex' = [futex EXCEPT ![c] = 1]
  /\ pcs' = [t \in CondThread |-> IF t \in woken THEN "relock" ELSE p[t]]

\* FUTEX_WAKE of one: any sleeper, if there is one.
One(c) == IF Asleep(c) = {} THEN {{}} ELSE {{t} : t \in Asleep(c)}

\* The threads a signal reaches: those woken and those still about to sleep.
Reached(c, woken) == woken \cup {t \in CondThread : pcs[t] = "futex" /\ WaitsOn(t) = c}

-----------------------------------------------------------------------------
(* MTCircularQueue *)

Full == (o.first + 1) % (cv.size + 1) = o.last
Empty == o.first = o.last

Push(q, item) == [q EXCEPT !.slots[q.first] = item, !.first = (q.first + 1) % (cv.size + 1)]
Pop(q) == [q EXCEPT !.last = (q.last + 1) % (cv.size + 1)]

\* push_wait and pop_wait, once the lock is held: wait, or do it, signal and release.
PushWait ==
  IF Full THEN BeginWait(1) /\ pcs' = [pcs EXCEPT ![1] = "futex"] /\ o' = [o EXCEPT !.woken = @ \ {1}]
  ELSE LET q == [Push(o, o.next) EXCEPT !.items = Append(@, o.next), !.next = (@ + 1) % Items]
           p == [pcs EXCEPT ![1] = "idle"]
       IN  /\ lock' = NoThread
           /\ IF Empty THEN \E w \in One("empty") : Wake("empty", w, p) /\ o' = [q EXCEPT !.woken = @ \cup Reached("empty", w)]
              ELSE pcs' = p /\ o' = q /\ UNCHANGED futex

PopWait(t) ==
  IF Empty THEN BeginWait(t) /\ pcs' = [pcs EXCEPT ![t] = "futex"] /\ o' = [o EXCEPT !.woken = @ \ {t}]
  ELSE LET q == [Pop(o) EXCEPT !.items = Tail(@)]
           p == [pcs EXCEPT ![t] = "idle"]
       IN  /\ lock' = NoThread
           /\ IF Full THEN \E w \in One("full") : Wake("full", w, p) /\ o' = [q EXCEPT !.woken = @ \cup Reached("full", w)]
              ELSE pcs' = p /\ o' = q /\ UNCHANGED futex

QueueCall(t) == cv.kind = "queue" /\ IF t = 1 THEN PushWait ELSE PopWait(t)

-----------------------------------------------------------------------------
(* Semaphore *)

SemaphoreWait(t) ==
  /\ lock' = NoThread
  /\ IF o.count = 0
     THEN /\ futex' = [futex EXCEPT !["empty"] = 0]
          /\ pcs' = [pcs EXCEPT ![t] = "futex"] /\ o' = [o EXCEPT !.waiting = @ + 1, !.woken = @ \ {t}]
     ELSE /\ UNCHANGED futex
          /\ pcs' = [pcs EXCEPT ![t] = "idle"] /\ o' = [o EXCEPT !.count = @ - 1]

\* signal wakes one, broadcast all; either adds one to the count.
SemaphoreSignal ==
  LET p == [pcs EXCEPT ![1] = "idle"] IN
  /\ lock' = NoThread
  /\ IF o.waiting = 0 THEN o' = [o EXCEPT !.count = @ + 1] /\ pcs' = p /\ UNCHANGED futex
     ELSE \E w \in One("empty") \cup {Asleep("empty")} :
            Wake("empty", w, p) /\ o' = [o EXCEPT !.count = @ + 1, !.woken = @ \cup Reached("empty", w)]

SemaphoreCall(t) ==
  /\ cv.kind = "semaphore"
  /\ IF t = 1 THEN SemaphoreSignal ELSE SemaphoreWait(t)

-----------------------------------------------------------------------------
(* Barrier *)

\* Bug: those that arrive do not wait for the last round to be left.
MutMayEnter == TRUE

MayEnter == o.leaving <= 0

\* The last one to arrive broadcasts after it released the lock.
BarrierArrive(t) ==
  /\ lock' = NoThread
  /\ IF o.arrived + 1 = cv.threads
     THEN /\ o' = [o EXCEPT !.arrived = 0, !.leaving = cv.threads - 1]
          /\ pcs' = [pcs EXCEPT ![t] = "broadcast"] /\ UNCHANGED futex
     ELSE /\ o' = [o EXCEPT !.arrived = @ + 1, !.woken = @ \ {t}]
          /\ pcs' = [pcs EXCEPT ![t] = "futex"] /\ futex' = [futex EXCEPT !["empty"] = 0]

BarrierCall(t) == cv.kind = "barrier" /\ BarrierArrive(t)

Broadcast(t) ==
  /\ pcs[t] = "broadcast"
  /\ Wake("empty", Asleep("empty"), [pcs EXCEPT ![t] = "idle"])
  /\ o' = [o EXCEPT !.woken = @ \cup Reached("empty", Asleep("empty")), !.round[t] = @ + 1]
  /\ UNCHANGED <<cv, lock>>

\* What a thread that has its lock back does.
BarrierLeave(t) ==
  /\ cv.kind = "barrier"
  /\ o' = [o EXCEPT !.leaving = @ - 1, !.round[t] = @ + 1]
  /\ pcs' = [pcs EXCEPT ![t] = "idle"] /\ UNCHANGED <<lock, futex>>

-----------------------------------------------------------------------------

\* Barrier::wait looks at m_leaving before it takes the lock.
Enter(t) ==
  /\ pcs[t] = "idle"
  /\ cv.kind = "barrier" => MayEnter /\ o.round[t] < MaxCount
  /\ cv.kind = "semaphore" /\ t = 1 => o.count < MaxCount
  /\ pcs' = [pcs EXCEPT ![t] = "acquire"]
  /\ UNCHANGED <<cv, lock, futex, o>>

Acquire(t) ==
  /\ pcs[t] = "acquire" /\ lock = NoThread /\ lock' = t
  /\ pcs' = [pcs EXCEPT ![t] = "call"]
  /\ UNCHANGED <<cv, futex, o>>

Call(t) ==
  /\ pcs[t] = "call" /\ lock = t
  /\ QueueCall(t) \/ SemaphoreCall(t) \/ BarrierCall(t)
  /\ UNCHANGED cv

\* The queue and the semaphore look again; the barrier is left.
Relock(t) ==
  /\ pcs[t] = "relock" /\ lock = NoThread
  /\ UNCHANGED cv
  /\ \/ BarrierLeave(t)
     \/ /\ cv.kind # "barrier"
        /\ lock' = t /\ pcs' = [pcs EXCEPT ![t] = "call"]
        /\ o' = [o EXCEPT !.waiting = IF cv.kind = "semaphore" THEN @ - 1 ELSE @]
        /\ UNCHANGED futex

CondNext ==
  \E t \in CondThread :
    Enter(t) \/ Acquire(t) \/ Call(t) \/ FutexWait(t) \/ Interrupted(t) \/ Broadcast(t) \/ Relock(t)

CondSpec == CondInit /\ [][CondNext]_condVars

-----------------------------------------------------------------------------

CondTypeOK ==
  /\ lock \in CondThread \cup {NoThread}
  /\ \A c \in DOMAIN futex : futex[c] \in {0, 1}
  /\ o.count \in 0 .. MaxCount /\ o.waiting \in 0 .. cv.threads

\* Asleep, or about to be: nothing but a signal gets the thread on.
Stuck(t) == pcs[t] = "asleep" \/ (pcs[t] = "futex" /\ futex[WaitsOn(t)] = 0)

\* The threads that will look at the object again.
OnTheirWay == {t \in CondThread : pcs[t] \in {"relock", "call"} \/ (pcs[t] = "futex" /\ ~Stuck(t))}

\* No signal gets lost: with one producer and one consumer, nobody sleeps over a queue that
\* has room, or something in it; a thread stuck at the semaphore means that every count has
\* somebody coming for it; nobody is stuck at a barrier that has opened.
NoWakeupLost ==
  \A t \in CondThread : Stuck(t) =>
    CASE cv.kind = "queue" -> cv.threads = 2 => IF t = 1 THEN Full ELSE Empty
      [] cv.kind = "semaphore" -> o.count <= Cardinality(OnTheirWay \ {1})
      [] OTHER -> o.leaving > 0 => \E u \in CondThread : pcs[u] = "broadcast"

\* The ring holds, from m_last on, what was pushed and not popped, in that order.
RingIsQueue ==
  cv.kind = "queue" =>
    /\ Len(o.items) = (o.first + cv.size + 1 - o.last) % (cv.size + 1)
    /\ \A i \in 1 .. Len(o.items) : o.slots[(o.last + i - 1) % (cv.size + 1)] = o.items[i]

\* Nobody passes the barrier before everybody came to it: rounds differ by one at most, and
\* never while all are outside.
RoundsTogether ==
  cv.kind = "barrier" /\ ~cv.interrupts =>
    /\ o.leaving \in 0 .. cv.threads - 1
    /\ \A t, u \in CondThread :
         /\ o.round[t] - o.round[u] <= 1
         /\ o.round[t] > o.round[u] => pcs[u] \in {"futex", "asleep", "relock", "broadcast"}

\* "Restart futex_wait if it was interrupted by a signal": wait returns to a thread only
\* after a signal or broadcast on the condition.
WaitEndsWithSignal == \A t \in CondThread : pcs[t] = "relock" => t \in o.woken
=============================================================================
