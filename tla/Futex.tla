-------------------------------- MODULE Futex --------------------------------
(***************************************************************************)
(* The emulated futex system call and nanosleep (SyscallServer and         *)
(* SimFutex).  A call runs under ThreadManager's m_thread_lock, but the    *)
(* application's stores do not: a call that looks at memory reads it in    *)
(* one step and acts on what it saw in a later one.                        *)
(*                                                                         *)
(* Every wake-up is done with FUTEX_BITSET_MATCH_ANY, so the waiters'      *)
(* masks are left out.                                                     *)
(***************************************************************************)
EXTENDS Integers, Sequences, FiniteSets, Bitwise

CONSTANTS
  Thread, NoThread,
  Addr,
  MaxValue,      \* futex words hold 0..MaxValue
  Ops,           \* the encoded operations of FUTEX_WAKE_OP
  Delays,        \* how long a timed wait or a sleep may ask for
  Width,         \* SubsecondTime wraps around at Width, 2^64 in the code; > MaxTime + 1
  TimeStart,     \* osemu/time_start: what the emulated clock shows at time 0
  MaxTime,       \* bound: the time of the last periodic hook
  MaxStores      \* bound: how often a futex word is written

Everyone == Cardinality(Thread)

VARIABLES
  mem,        \* the futex words
  writes,     \* how often each word was written
  drained,    \* and the value of writes at its last wake-up of everyone
  call,       \* the call each thread is in
  lock,       \* the thread that is in the middle of a call, or NoThread
  waiting,    \* SimFutex::m_waiting of each address
  sleeping,   \* m_sleeping
  now         \* the time of the last HOOK_PERIODIC

vars == <<mem, writes, drained, call, lock, waiting, sleeping, now>>

Never == Width - 1         \* SubsecondTime::MaxTime()
Values == 0..MaxValue

(***************************************************************************)
(* "run": executing; "read": has the lock and has read memory; "written":  *)
(* FUTEX_WAKE_OP has written memory; "wait" and "sleep": stalled; "ok" and *)
(* "ETIMEDOUT": resumed with that result, returns when it has the lock.    *)
(***************************************************************************)
NoCall == [pc |-> "run"]

Ran(s) == {s[i] : i \in DOMAIN s}
Waiter(t, timeout) == [thread |-> t, timeout |-> timeout]
MinOf(a, b) == IF a < b THEN a ELSE b

Init ==
  /\ mem = [a \in Addr |-> 0]
  /\ writes = [a \in Addr |-> 0]
  /\ drained = [a \in Addr |-> 0]
  /\ call = [t \in Thread |-> NoCall]
  /\ lock = NoThread
  /\ waiting = [a \in Addr |-> <<>>]
  /\ sleeping = <<>>
  /\ now = 0

Running(t) == call[t].pc = "run"

\* The application writes a futex word; the lock is not needed.
Store(t, a, v) ==
  /\ Running(t) /\ writes[a] < MaxStores
  /\ mem' = [mem EXCEPT ![a] = v]
  /\ writes' = [writes EXCEPT ![a] = @ + 1]
  /\ UNCHANGED <<drained, call, lock, waiting, sleeping, now>>

MutTakeLock(t) == UNCHANGED lock

\* ScopedLock in handleFutexCall.
TakeLock(t) == lock = NoThread /\ lock' = t

(***************************************************************************)
(* The timeout handleFutexCall computes for a delay: FUTEX_WAIT_BITSET is  *)
(* given a time of the emulated clock, FUTEX_WAIT the delay itself.  The   *)
(* start of that clock is subtracted from both.                            *)
(***************************************************************************)
TimeoutVal(given) == (given - TimeStart) % Width
TimeoutTime(delay, absolute) ==
  IF delay = Never THEN Never
  ELSE IF absolute THEN TimeoutVal(now + TimeStart + delay)
  ELSE (now + TimeoutVal(delay)) % Width

(***************************************************************************)
(* handleFutexCall up to the read of *uaddr, for FUTEX_WAIT and            *)
(* FUTEX_CMP_REQUEUE (n threads woken, the others moved to b), and of      *)
(* *uaddr2 in futexDoOp for FUTEX_WAKE_OP.                                 *)
(***************************************************************************)
ReadWait(t, a, val, delay, absolute) ==
  /\ Running(t)
  /\ TakeLock(t)
  /\ call' = [call EXCEPT ![t] =
       [pc |-> "read", op |-> "wait", addr |-> a, val |-> val, act |-> mem[a],
        seen |-> writes[a], timeout |-> TimeoutTime(delay, absolute),
        asked |-> IF delay = Never THEN Never ELSE now + delay]]
  /\ UNCHANGED <<mem, writes, drained, waiting, sleeping, now>>

ReadRequeue(t, a, b, val, n) ==
  /\ Running(t) /\ a # b
  /\ TakeLock(t)
  /\ call' = [call EXCEPT ![t] =
       [pc |-> "read", op |-> "requeue", addr |-> a, addr2 |-> b, val |-> val,
        act |-> mem[a], wake |-> n]]
  /\ UNCHANGED <<mem, writes, drained, waiting, sleeping, now>>

ReadWakeOp(t, a, b, op, n) ==
  /\ Running(t) /\ writes[b] < MaxStores
  /\ TakeLock(t)
  /\ call' = [call EXCEPT ![t] =
       [pc |-> "read", op |-> "wakeop", addr |-> a, addr2 |-> b, act |-> mem[b],
        code |-> op, wake |-> n]]
  /\ UNCHANGED <<mem, writes, drained, waiting, sleeping, now>>

\* futexWait: on a mismatch it returns at once, else the thread is enqueued.
FutexWait(t) ==
  LET c == call[t] IN
  /\ c.pc = "read" /\ c.op = "wait"
  /\ IF c.val # c.act
     THEN /\ call' = [call EXCEPT ![t] = NoCall]
          /\ UNCHANGED waiting
     ELSE /\ waiting' = [waiting EXCEPT ![c.addr] = Append(@, Waiter(t, c.timeout))]
          /\ call' = [call EXCEPT ![t].pc = "wait"]
  /\ lock' = NoThread
  /\ UNCHANGED <<mem, writes, drained, sleeping, now>>

-----------------------------------------------------------------------------
\* dequeueWaiter called n times: the queue that remains ...
Dequeue(q, n) == SubSeq(q, MinOf(n, Len(q)) + 1, Len(q))

\* ... and the threads that are resumed.
Dequeued(q, n) == {q[i].thread : i \in 1..MinOf(n, Len(q))}

\* resumeThread for the threads in S, with message msg.
Resume(cs, S, msg) ==
  [t \in Thread |-> IF t \in S THEN [pc |-> msg, timeout |-> cs[t].timeout] ELSE cs[t]]

\* How often a had been written when everyone who waited there was woken.
Drain(a, n) ==
  drained' = IF n >= Len(waiting[a]) THEN [drained EXCEPT ![a] = writes[a]] ELSE drained

\* futexWake of up to n threads.
FutexWake(t, a, n) ==
  /\ Running(t) /\ lock = NoThread
  /\ waiting' = [waiting EXCEPT ![a] = Dequeue(@, n)]
  /\ call' = Resume(call, Dequeued(waiting[a], n), "ok")
  /\ Drain(a, n)
  /\ UNCHANGED <<mem, writes, lock, sleeping, now>>

\* requeueWaiter until the first queue is empty: order and timeouts are kept.
Requeued(q, r, n) == r \o Dequeue(q, n)

\* futexCmpRequeue
FutexCmpRequeue(t) ==
  LET c == call[t]
      woken == Dequeued(waiting[c.addr], c.wake)
  IN
  /\ c.pc = "read" /\ c.op = "requeue"
  /\ IF c.val # c.act
     THEN /\ call' = [call EXCEPT ![t] = NoCall]
          /\ UNCHANGED waiting
     ELSE /\ waiting' = [waiting EXCEPT ![c.addr] = <<>>,
                ![c.addr2] = Requeued(waiting[c.addr], @, c.wake)]
          /\ call' = Resume([call EXCEPT ![t] = NoCall], woken, "ok")
  /\ lock' = NoThread
  /\ UNCHANGED <<mem, writes, drained, sleeping, now>>

\* futexDoOp: the new value; it has to fit a word of this model.
NewValue(op, old) ==
  CASE op.fn = "SET" -> op.arg
    [] op.fn = "ADD" -> (old + op.arg) % (MaxValue + 1)
    [] op.fn = "OR" -> old | op.arg
    [] op.fn = "ANDN" -> old - (old & op.arg)
    [] op.fn = "XOR" -> old ^^ op.arg

\* The comparison with the old value decides about the second wake-up.
Compare(op, old) ==
  CASE op.cmp = "EQ" -> old = op.cmparg
    [] op.cmp = "NE" -> old # op.cmparg
    [] op.cmp = "LT" -> old < op.cmparg
    [] op.cmp = "GE" -> old >= op.cmparg
    [] op.cmp = "LE" -> old <= op.cmparg
    [] op.cmp = "GT" -> old > op.cmparg

\* The second half of futexDoOp: a store since the read is overwritten.
WriteOp(t) ==
  LET c == call[t] IN
  /\ c.pc = "read" /\ c.op = "wakeop"
  /\ mem' = [mem EXCEPT ![c.addr2] = NewValue(c.code, c.act)]
  /\ writes' = [writes EXCEPT ![c.addr2] = @ + 1]
  /\ call' = [call EXCEPT ![t].pc = "written"]
  /\ UNCHANGED <<drained, lock, waiting, sleeping, now>>

\* The rest of futexWakeOp.
FutexWakeOp(t) ==
  LET c == call[t]
      n2 == IF Compare(c.code, c.act) THEN c.wake ELSE 0
      q == [waiting EXCEPT ![c.addr] = Dequeue(@, c.wake)]
      woken == Dequeued(waiting[c.addr], c.wake) \cup Dequeued(q[c.addr2], n2)
  IN
  /\ c.pc = "written"
  /\ waiting' = [q EXCEPT ![c.addr2] = Dequeue(@, n2)]
  /\ call' = Resume([call EXCEPT ![t] = NoCall], woken, "ok")
  /\ lock' = NoThread
  /\ UNCHANGED <<mem, writes, drained, sleeping, now>>

-----------------------------------------------------------------------------
\* handleSleepCall
Sleep(t, d) ==
  /\ Running(t) /\ lock = NoThread
  /\ sleeping' = Append(sleeping, Waiter(t, now + d))
  /\ call' = [call EXCEPT ![t] = [pc |-> "sleep", timeout |-> now + d]]
  /\ UNCHANGED <<mem, writes, drained, lock, waiting, now>>

\* The entries of a queue whose timeout has come; the first one is woken.
Due(q, time) == {i \in DOMAIN q : q[i].timeout <= time}
FirstDue(q, time) == CHOOSE i \in Due(q, time) : \A j \in Due(q, time) : i <= j

\* wakeTimedOut, and the same for m_sleeping: the queue without the first due.
WithoutDue(q, time) ==
  IF Due(q, time) = {} THEN q
  ELSE SubSeq(q, 1, FirstDue(q, time) - 1) \o SubSeq(q, FirstDue(q, time) + 1, Len(q))
DueThreads(q, time) ==
  IF Due(q, time) = {} THEN {} ELSE {q[FirstDue(q, time)].thread}

(***************************************************************************)
(* getNextTimeout, which the barrier asks whether anyone will still wake   *)
(* up: a queue answers with its last timeout.                              *)
(***************************************************************************)
LastTimeout(q) ==
  LET timed == {i \in DOMAIN q : q[i].timeout < Never}
  IN IF timed = {} THEN Never
     ELSE q[CHOOSE i \in timed : \A j \in timed : j <= i].timeout
NextTimeout ==
  LET T == {LastTimeout(sleeping)} \cup {LastTimeout(waiting[a]) : a \in Addr}
  IN CHOOSE x \in T : \A y \in T : x <= y

(***************************************************************************)
(* futexPeriodic at the next barrier: one sleeper, and one waiter of each  *)
(* futex, whose time has come are resumed.  The barrier only moves time on *)
(* when somebody runs or will wake up.                                     *)
(***************************************************************************)
FutexPeriodic ==
  LET t == now + 1
      woken == DueThreads(sleeping, t) \cup UNION {DueThreads(waiting[a], t) : a \in Addr}
  IN
  /\ lock = NoThread /\ now < MaxTime
  /\ (\E u \in Thread : call[u].pc \in {"run", "ok", "ETIMEDOUT"}) \/ NextTimeout < Never
  /\ now' = t
  /\ sleeping' = WithoutDue(sleeping, t)
  /\ waiting' = [a \in Addr |-> WithoutDue(waiting[a], t)]
  /\ call' = Resume(call, woken, "ETIMEDOUT")
  /\ UNCHANGED <<mem, writes, drained, lock>>

\* A resumed thread gets the lock back and returns.
Return(t) ==
  /\ call[t].pc \in {"ok", "ETIMEDOUT"} /\ lock = NoThread
  /\ call' = [call EXCEPT ![t] = NoCall]
  /\ UNCHANGED <<mem, writes, drained, lock, waiting, sleeping, now>>

Next ==
  \/ FutexPeriodic
  \/ \E t \in Thread :
       \/ \E a \in Addr, v \in Values : Store(t, a, v)
       \/ \E a \in Addr, v \in Values, d \in Delays \cup {Never}, abs \in BOOLEAN :
            ReadWait(t, a, v, d, abs)
       \/ \E a, b \in Addr, v \in Values : ReadRequeue(t, a, b, v, 1)
       \/ \E a, b \in Addr, op \in Ops : ReadWakeOp(t, a, b, op, 1)
       \/ FutexWait(t) \/ FutexCmpRequeue(t) \/ WriteOp(t) \/ FutexWakeOp(t)
       \/ \E a \in Addr, n \in {1, Everyone} : FutexWake(t, a, n)
       \/ \E d \in Delays : Sleep(t, d)
       \/ Return(t)

Spec == Init /\ [][Next]_vars
-----------------------------------------------------------------------------
Queues == [a \in Addr \cup {"sleep"} |-> IF a = "sleep" THEN sleeping ELSE waiting[a]]
EntriesOf(t) ==
  UNION {{<<a, i>> : i \in {j \in DOMAIN Queues[a] : Queues[a][j].thread = t}}
         : a \in DOMAIN Queues}

\* Every variable has its type; only the lock's holder is inside a call.
TypeOK ==
  /\ mem \in [Addr -> Values]
  /\ lock \in Thread \cup {NoThread}
  /\ \A t \in Thread : call[t].pc \in {"read", "written"} <=> lock = t
  /\ \A t \in Thread :
       call[t].pc \in {"run", "read", "written", "wait", "sleep", "ok", "ETIMEDOUT"}

(***************************************************************************)
(* A stalled thread is queued exactly once, on one futex or among the      *)
(* sleepers, and nobody else is queued: waking, requeueing and timing out  *)
(* lose nobody and wake nobody twice.                                      *)
(***************************************************************************)
WaitersQueuedOnce ==
  \A t \in Thread :
    Cardinality(EntriesOf(t)) = IF call[t].pc \in {"wait", "sleep"} THEN 1 ELSE 0

(***************************************************************************)
(* No wake-up is lost: a thread that waits on an address has looked at it  *)
(* after the last write that a wake-up of all its waiters followed.        *)
(***************************************************************************)
NoLostWakeup ==
  \A a \in Addr, t \in Thread :
    call[t].pc = "wait" /\ call[t].addr = a /\ a \in {e[1] : e \in EntriesOf(t)} =>
      call[t].seen >= drained[a]

(***************************************************************************)
(* A requeued waiter keeps its timeout, and ETIMEDOUT is only returned     *)
(* when it has passed: the entry in the queue is the caller's.             *)
(***************************************************************************)
TimeoutsKept ==
  /\ \A a \in DOMAIN Queues : \A i \in DOMAIN Queues[a] :
       Queues[a][i].timeout = call[Queues[a][i].thread].timeout
  /\ \A t \in Thread : call[t].pc = "ETIMEDOUT" => call[t].timeout <= now

(***************************************************************************)
(* The deadlock test of barrierRelease is right about timeouts, although   *)
(* getNextTimeout does not return the next one: it is Never only when      *)
(* nobody will wake up by themselves.                                      *)
(***************************************************************************)
NextTimeoutSound ==
  NextTimeout < Never <=>
    \E a \in DOMAIN Queues : \E i \in DOMAIN Queues[a] : Queues[a][i].timeout < Never

(***************************************************************************)
(* A timed wait ends about when it was asked to: handleFutexCall says that *)
(* FUTEX_WAIT "uses relative timeout".                                     *)
(***************************************************************************)
WaitsAsAsked ==
  \A t \in Thread : call[t].pc = "wait" => now < call[t].asked + Everyone
=============================================================================
