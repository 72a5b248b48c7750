----------------------------- MODULE SyncServer -----------------------------
(***************************************************************************)
(* The emulated pthread mutexes, condition variables and barriers          *)
(* (SyncServer, called by SyncClient).  Every call runs under              *)
(* ThreadManager's m_thread_lock, and is one action; a call that stalls    *)
(* its thread ends with a separate return.                                 *)
(*                                                                         *)
(* The application is a correct pthread program: a thread locks one mutex  *)
(* at a time, unlocks only what it holds, waits on a condition with its    *)
(* mutex held and enters the barrier with none.                            *)
(***************************************************************************)
EXTENDS Integers, Sequences, FiniteSets

CONSTANTS
  Thread, NoThread,   \* NO_OWNER
  Mutex, NoMutex,
  Cond,
  MaxEpisodes         \* bound: how often a thread enters the barrier

ASSUME SyncConstants ==
  /\ NoThread \notin Thread /\ NoMutex \notin Mutex
  /\ IsFiniteSet(Thread) /\ Thread # {} /\ MaxEpisodes \in Nat

VARIABLES
  status,       \* ThreadManager's status: "RUNNING" or "STALLED"
  call,         \* the call a thread is in: a kind, and the mutex it ends with
  owner,        \* SimMutex::m_owner
  muxWaiting,   \* SimMutex::m_waiting
  condWaiting,  \* SimCond::m_waiting: pairs of a thread and its mutex
  barWaiting,   \* SimBarrier::m_waiting
  arrived,      \* how often each thread has entered the barrier
  passed        \* and left it

vars == <<status, call, owner, muxWaiting, condWaiting, barWaiting, arrived,
          passed>>

NoCall == [kind |-> "none", mux |-> NoMutex]
Calls == [kind : {"none", "lock", "cond", "barrier"}, mux : Mutex \cup {NoMutex}]

Ran(s) == {s[i] : i \in DOMAIN s}

\* SimBarrier's m_count: all threads take part.
Count == Cardinality(Thread)

Init ==
  /\ status = [t \in Thread |-> "RUNNING"]
  /\ call = [t \in Thread |-> NoCall]
  /\ owner = [m \in Mutex |-> NoThread]
  /\ muxWaiting = [m \in Mutex |-> <<>>]
  /\ condWaiting = [c \in Cond |-> <<>>]
  /\ barWaiting = <<>>
  /\ arrived = [t \in Thread |-> 0]
  /\ passed = [t \in Thread |-> 0]

\* The application's view: t is outside any call and owns m.
Holds(t, m) == status[t] = "RUNNING" /\ call[t] = NoCall /\ owner[m] = t
Idle(t) == status[t] = "RUNNING" /\ call[t] = NoCall
HoldsNone(t) == \A m \in Mutex : owner[m] # t

\* SimMutex::isLocked
IsLocked(m, t) == owner[m] \notin {NoThread, t}

\* SyncServer::mutexLock; a mutexTrylock that fails changes nothing.
MutexLock(t, m, tryLock) ==
  /\ Idle(t) /\ HoldsNone(t)
  /\ tryLock => ~IsLocked(m, t)
  /\ call' = [call EXCEPT ![t] = [kind |-> "lock", mux |-> m]]
  /\ IF owner[m] = NoThread
     THEN /\ owner' = [owner EXCEPT ![m] = t]
          /\ UNCHANGED <<status, muxWaiting>>
     ELSE /\ muxWaiting' = [muxWaiting EXCEPT ![m] = Append(@, t)]
          /\ status' = [status EXCEPT ![t] = "STALLED"]
          /\ UNCHANGED owner
  /\ UNCHANGED <<condWaiting, barWaiting, arrived, passed>>

MutUnlock(m) ==
  IF muxWaiting[m] = <<>>
  THEN /\ owner' = [owner EXCEPT ![m] = NoThread]
       /\ UNCHANGED muxWaiting
  ELSE /\ owner' = [owner EXCEPT ![m] = NoThread]
       /\ muxWaiting' = [muxWaiting EXCEPT ![m] = Tail(@)]

MutUnlockLast(m) ==
  IF muxWaiting[m] = <<>>
  THEN /\ owner' = [owner EXCEPT ![m] = NoThread]
       /\ UNCHANGED muxWaiting
  ELSE /\ owner' = [owner EXCEPT ![m] = muxWaiting[m][Len(muxWaiting[m])]]
       /\ muxWaiting' = [muxWaiting EXCEPT ![m] = SubSeq(@, 1, Len(@) - 1)]

\* SimMutex::unlock: the first waiter becomes the owner ...
Unlock(m) ==
  IF muxWaiting[m] = <<>>
  THEN /\ owner' = [owner EXCEPT ![m] = NoThread]
       /\ UNCHANGED muxWaiting
  ELSE /\ owner' = [owner EXCEPT ![m] = Head(muxWaiting[m])]
       /\ muxWaiting' = [muxWaiting EXCEPT ![m] = Tail(@)]

\* ... and is resumed.
Resumed(s, m) ==
  IF muxWaiting[m] = <<>> THEN s ELSE [s EXCEPT ![Head(muxWaiting[m])] = "RUNNING"]

\* SyncServer::mutexUnlock
MutexUnlock(t, m) ==
  /\ Holds(t, m)
  /\ Unlock(m)
  /\ status' = Resumed(status, m)
  /\ UNCHANGED <<call, condWaiting, barWaiting, arrived, passed>>

\* SyncServer::condWait: the mutex is given up before the thread stalls.
CondWait(t, c, m) ==
  /\ Holds(t, m)
  /\ Unlock(m)
  /\ condWaiting' = [condWaiting EXCEPT ![c] = Append(@, <<t, m>>)]
  /\ status' = [Resumed(status, m) EXCEPT ![t] = "STALLED"]
  /\ call' = [call EXCEPT ![t] = [kind |-> "cond", mux |-> m]]
  /\ UNCHANGED <<barWaiting, arrived, passed>>

\* The threads in a sequence of waiters that wait with mutex m, in order: the k-th is the
\* one with k such waiters up to it.
WaitersFor(woken, m) ==
  LET hits == {i \in DOMAIN woken : woken[i][2] = m}
      rank(i) == Cardinality({j \in hits : j <= i})
  IN [k \in 1 .. Cardinality(hits) |-> woken[CHOOSE i \in hits : rank(i) = k][1]]

MutWakeCond(woken) ==
  /\ owner' = [m \in Mutex |-> IF owner[m] = NoThread /\ WaitersFor(woken, m) # <<>>
                               THEN Head(WaitersFor(woken, m)) ELSE owner[m]]
  /\ UNCHANGED muxWaiting
  /\ status' = [t \in Thread |-> IF \E m \in Mutex : owner'[m] = t /\ owner[m] # t
                                 THEN "RUNNING" ELSE status[t]]

(***************************************************************************)
(* SimMutex::lock_async for every thread woken from a condition: the first *)
(* one that wants a free mutex gets it and is resumed, the others go on    *)
(* waiting for the mutex.                                                  *)
(***************************************************************************)
WakeCond(woken) ==
  LET granted(m) == owner[m] = NoThread /\ WaitersFor(woken, m) # <<>>
      firstFor(m) == Head(WaitersFor(woken, m))
  IN
  /\ owner' = [m \in Mutex |-> IF granted(m) THEN firstFor(m) ELSE owner[m]]
  /\ muxWaiting' = [m \in Mutex |->
        muxWaiting[m] \o (IF granted(m) THEN Tail(WaitersFor(woken, m))
                                        ELSE WaitersFor(woken, m))]
  /\ status' = [t \in Thread |->
        IF \E m \in Mutex : granted(m) /\ t = firstFor(m) THEN "RUNNING"
                                                          ELSE status[t]]

\* SyncServer::condSignal; without a waiter it does nothing.
CondSignal(t, c) ==
  /\ Idle(t) /\ condWaiting[c] # <<>>
  /\ WakeCond(<<Head(condWaiting[c])>>)
  /\ condWaiting' = [condWaiting EXCEPT ![c] = Tail(@)]
  /\ UNCHANGED <<call, barWaiting, arrived, passed>>

\* SyncServer::condBroadcast
CondBroadcast(t, c) ==
  /\ Idle(t) /\ condWaiting[c] # <<>>
  /\ WakeCond(condWaiting[c])
  /\ condWaiting' = [condWaiting EXCEPT ![c] = <<>>]
  /\ UNCHANGED <<call, barWaiting, arrived, passed>>

MutIsLast == Len(barWaiting) >= Count - 2

\* SimBarrier::wait's test for the last thread.
IsLast == Len(barWaiting) = Count - 1

\* The last thread resumes all others.
BarrierOpen(t) ==
  /\ barWaiting' = <<>>
  /\ status' = [u \in Thread |-> IF u \in Ran(barWaiting) THEN "RUNNING"
                                                          ELSE status[u]]

\* SyncServer::barrierWait
BarrierWait(t) ==
  /\ Idle(t) /\ HoldsNone(t) /\ arrived[t] < MaxEpisodes
  /\ arrived' = [arrived EXCEPT ![t] = @ + 1]
  /\ call' = [call EXCEPT ![t] = [kind |-> "barrier", mux |-> NoMutex]]
  /\ IF IsLast
     THEN BarrierOpen(t)
     ELSE /\ barWaiting' = Append(barWaiting, t)
          /\ status' = [status EXCEPT ![t] = "STALLED"]
  /\ UNCHANGED <<owner, muxWaiting, condWaiting, passed>>

\* A running thread gets m_thread_lock back and returns to the application.
Return(t) ==
  /\ status[t] = "RUNNING" /\ call[t] # NoCall
  /\ call' = [call EXCEPT ![t] = NoCall]
  /\ passed' = IF call[t].kind = "barrier" THEN [passed EXCEPT ![t] = @ + 1]
                                           ELSE passed
  /\ UNCHANGED <<status, owner, muxWaiting, condWaiting, barWaiting, arrived>>

Next ==
  \E t \in Thread :
    \/ \E m \in Mutex, try \in BOOLEAN : MutexLock(t, m, try)
    \/ \E m \in Mutex : MutexUnlock(t, m)
    \/ \E c \in Cond, m \in Mutex : CondWait(t, c, m)
    \/ \E c \in Cond : CondSignal(t, c) \/ CondBroadcast(t, c)
    \/ BarrierWait(t)
    \/ Return(t)

Spec == Init /\ [][Next]_vars

(***************************************************************************)
(* The host runs every thread, and a thread that holds a mutex unlocks it. *)
(***************************************************************************)
Fairness ==
  \A t \in Thread :
    /\ WF_vars(Return(t))
    /\ \A m \in Mutex : WF_vars(MutexUnlock(t, m))

FairSpec == Spec /\ Fairness
-----------------------------------------------------------------------------
\* Every variable has its type.
TypeOK ==
  /\ status \in [Thread -> {"RUNNING", "STALLED"}]
  /\ call \in [Thread -> Calls]
  /\ owner \in [Mutex -> Thread \cup {NoThread}]
  /\ muxWaiting \in [Mutex -> Seq(Thread)]
  /\ condWaiting \in [Cond -> Seq(Thread \X Mutex)]
  /\ barWaiting \in Seq(Thread)
  /\ arrived \in [Thread -> Nat] /\ passed \in [Thread -> Nat]

(***************************************************************************)
(* A call returns with its mutex: a thread whose mutexLock or condWait is  *)
(* about to return owns the mutex it asked for, however the unlocks,       *)
(* signals and broadcasts of the others handed it over.                    *)
(***************************************************************************)
ReturnsAsOwner ==
  \A t \in Thread : status[t] = "RUNNING" /\ call[t].kind \in {"lock", "cond"}
    => owner[call[t].mux] = t

\* Where thread t is queued.
Places(t) ==
  UNION ({{<<"mutex", m, i>> : i \in {j \in DOMAIN muxWaiting[m] : muxWaiting[m][j] = t}}
          : m \in Mutex}
         \cup {{<<"cond", c, i>> :
                 i \in {j \in DOMAIN condWaiting[c] : condWaiting[c][j][1] = t}}
               : c \in Cond}
         \cup {{<<"barrier", "", i>> : i \in {j \in DOMAIN barWaiting : barWaiting[j] = t}}})

(***************************************************************************)
(* Nobody is forgotten and nobody waits twice: a stalled thread is in the  *)
(* queue of exactly one mutex, condition or the barrier, a running one in  *)
(* none.                                                                   *)
(***************************************************************************)
QueuedOnce ==
  \A t \in Thread : Cardinality(Places(t)) = IF status[t] = "STALLED" THEN 1 ELSE 0

\* Nobody waits for a free mutex or for a barrier everyone has reached.
NoIdleWaiters ==
  /\ \A m \in Mutex : owner[m] = NoThread => muxWaiting[m] = <<>>
  /\ Len(barWaiting) < Count

\* Nobody is forgotten, waits twice, or waits for what is there.
WaitersSound == QueuedOnce /\ NoIdleWaiters

(***************************************************************************)
(* The barrier separates its episodes: no thread has left it more often    *)
(* than every other thread has entered it.                                 *)
(***************************************************************************)
BarrierSeparates == \A t, u \in Thread : passed[t] <= arrived[u]

\* Whoever queues for a mutex, directly or after a signal, gets it.
MutexGranted ==
  \A t \in Thread, m \in Mutex : t \in Ran(muxWaiting[m]) ~> Holds(t, m)

\* A barrier that all threads have entered lets all of them go.
BarrierOpens ==
  \A k \in 1..MaxEpisodes :
    (\A t \in Thread : arrived[t] >= k) ~> (\A t \in Thread : passed[t] >= k)

\* Whoever waits for a mutex or in a full barrier goes on.
WaitersReturn == MutexGranted /\ BarrierOpens
=============================================================================
