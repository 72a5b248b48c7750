---------------------------- MODULE MCSystem --------------------------------
(***************************************************************************)
(* The threads of the simulated program and what keeps them in step, one   *)
(* component after another in one run: part names the component that runs, *)
(* other its configuration. Both are chosen initially. The variables of the*)
(* other components are off, and BarrierSync stays in an initial state.    *)
(***************************************************************************)
EXTENDS BarrierSync, TLC

CONSTANTS c1, c2, c3, a1, a2, None

VARIABLES
  part,   \* the component that runs
  other,  \* the configuration of a component other than the barrier
  \* Futex
  mem, writes, drained, call, futexLock, waiting, futexSleeping, now,
  \* Threads
  x, joining, waited

-----------------------------------------------------------------------------
Cores == {c1, c2, c3}

Config(initial, t, steps, sleeps, calls, roi) ==
  [initial |-> initial, maxTime |-> t, steps |-> steps, sleeps |-> sleeps,
   calls |-> calls, roi |-> roi]

\* Threads that wait for each other and sleep, in detailed simulation.
Waiting == Config(Cores, 4, {1, 2}, {1, 2}, {"stall"}, "none")

BarrierConfigs ==
  {Waiting}
  \* a thread that spawns the others; they block in the operating system, and some
  \* instructions take longer than a quantum
  \cup {Config({c}, 4, {1, 3}, {}, {"block", "spawn"}, "none") : c \in Cores}
  \* threads that leave and enter fast-forward mode
  \cup {Config(Cores, 3, {3}, {}, {"stall", "roi"}, "fastforward"),
        Config(Cores, 6, {3}, {}, {"roi"}, "fastforward")}
  \cup {Config(Cores \ {c}, 6, {3}, {}, {"stall", "roi"}, "fastforward") : c \in Cores}
  \* threads, and a periodic script, that switch the barrier off and on
  \cup {Config(Cores, 2, {2}, {}, {"stall", "roi", "script"}, "disable")}
  \cup {Config(Cores \ {c}, 4, {2}, {}, {"stall", "roi", "script"}, "disable") : c \in Cores}

\* What glibc's condition variables ask of FUTEX_WAKE_OP.
WakeOps == {[fn |-> "SET", arg |-> 0, cmp |-> "GT", cmparg |-> 0]}

\* Each scheduler with few threads and the operations it is about.
SchedulerConfigs ==
  LET Pinned == [type |-> "pinned", threads |-> 3, cores |-> 1, mask |-> {0}, interleaving |-> 1,
                 quantum |-> 1, bigs |-> {}, counts |-> <<3>>, first |-> <<0>>, ops |-> {},
                 early |-> FALSE, skew |-> {}, age |-> 5, bound |-> 4, slack |-> 0]
      TwoCores == [Pinned EXCEPT !.cores = 2, !.mask = {0, 1}, !.quantum = 0, !.age = 3, !.bound = 2,
                                 !.first = <<0, 2>>, !.counts = <<2, 1>>]
  IN {Pinned,
      [Pinned EXCEPT !.threads = 2, !.ops = {"stall"}, !.skew = {1}],
      [TwoCores EXCEPT !.ops = {"join", "yield"}, !.quantum = 2, !.age = 5, !.bound = 4],
      [TwoCores EXCEPT !.threads = 2, !.ops = {"affinity"}, !.slack = 2],
      [TwoCores EXCEPT !.type = "roaming"],
      [TwoCores EXCEPT !.type = "big_small", !.threads = 2, !.bigs = {0}, !.ops = {"stall"},
                       !.quantum = 2, !.age = 5, !.bound = 4, !.slack = 3],
      [TwoCores EXCEPT !.type = "sequential", !.ops = {"stall"}],
      [TwoCores EXCEPT !.type = "static", !.ops = {"stall", "join"}]}

-----------------------------------------------------------------------------
F == INSTANCE Futex WITH
       Thread <- Cores, NoThread <- NoCore, Addr <- {a1, a2}, MaxValue <- 1, Ops <- WakeOps,
       Delays <- {1}, Width <- 8, TimeStart <- 0, MaxTime <- 1, MaxStores <- 1,
       lock <- futexLock, sleeping <- futexSleeping
S == INSTANCE Threads WITH Scheds <- SchedulerConfigs, sched <- other

futexVars ==
  <<mem, writes, drained, call, futexLock, waiting, futexSleeping, now>>
schedVars ==
  <<x, joining, waited>>

sysVars == <<part, other, futexVars, schedVars, vars>>

Off(v) == v = "off"
futexOff ==
  /\ Off(mem) /\ Off(writes) /\ Off(drained) /\ Off(call) /\ Off(futexLock)
  /\ Off(waiting) /\ Off(futexSleeping) /\ Off(now)
schedOff ==
  /\ Off(x) /\ Off(joining) /\ Off(waited)

Parts == {"futex", "scheduler", "barrier"}

SysInit ==
  /\ part \in Parts
  /\ IF part = "futex" THEN F!Init /\ Off(other) ELSE futexOff
  /\ IF part = "scheduler" THEN S!SchedInit ELSE schedOff
  /\ IF part = "barrier" THEN Init ELSE Init /\ config = Waiting
  /\ IF part \in {"barrier"} THEN Off(other) ELSE TRUE

\* Only component p takes a step.
Only(p) ==
  /\ part = p /\ UNCHANGED part
  /\ IF p = "futex" THEN UNCHANGED other ELSE UNCHANGED futexVars
  /\ IF p = "scheduler" THEN TRUE ELSE UNCHANGED schedVars
  /\ IF p = "barrier" THEN UNCHANGED other ELSE UNCHANGED vars

\* Threads may all have exited or wait for each other, and times are
\* bounded.
MayStop == {"barrier", "futex", "scheduler"}

SysNext ==
  \/ Only("futex") /\ F!Next
  \/ Only("scheduler") /\ S!SchedNext
  \/ Only("barrier") /\ Next
  \/ part \in MayStop /\ UNCHANGED sysVars

SysSpec == SysInit /\ [][SysNext]_sysVars

\* Cores of the barrier and threads of the futexes are interchangeable, and so are the
\* futexes; no other component has them.
Symmetry == Permutations(Cores) \cup Permutations({a1, a2})

-----------------------------------------------------------------------------
\* Every component's variables have their types.
SysTypeOK ==
  CASE part = "futex" -> F!TypeOK
    [] part = "scheduler" -> S!SchedTypeOK
    [] part = "barrier" -> TypeOK

\* No thread that waits on a futex is lost: it is queued once, a wake finds
\* it, and its timeout is kept and seen by the next check.
FutexWaitersKept ==
  part = "futex" => /\ F!WaitersQueuedOnce
                    /\ F!NoLostWakeup
                    /\ F!TimeoutsKept
                    /\ F!NextTimeoutSound

\* No core runs two threads and no thread is on two cores, the books of the
\* schedulers agree with those of the threads, and statistics follow the
\* thread.
NeverTwoOnACore ==
  part = "scheduler" => S!NeverTwoOnACore /\ S!BooksAgree /\ S!StatsFollowThread

\* A thread that can run does so within a bounded time: no core stays free
\* beside a waiting thread, no resume is lost, and an exit resumes the
\* thread that joins.
EveryThreadRuns ==
  part = "scheduler" => /\ S!NoCoreLeftFree
                        /\ S!NoLostResume
                        /\ S!BoundedWaiting
                        /\ S!ExitResumesJoiner
=============================================================================
