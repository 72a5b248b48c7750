---------------------------- MODULE MCMemory --------------------------------
(***************************************************************************)
(* The components beyond the last-level caches, and sampling and the       *)
(* locks of the simulator itself, one after another in one run: part names *)
(* the component that runs, config its configuration. Both are chosen      *)
(* initially. The variables of the other components are off, and           *)
(* DirectoryCache and SharedLocks stay in an initial state.                *)
(***************************************************************************)
EXTENDS DirectoryCache, SharedLocks, TLC

CONSTANTS c1, c2, c3, v1, NoCore, NoData

VARIABLES
  part,   \* the component that runs
  config, \* its configuration
  \* Coherence
  cstate, cdata, waiters, serving, toDir, toCache, dstate, sharers, owner, forwarder,
  requests, dpc, dbuf, fromDram, dram,
  \* HomeMemory
  nuca, dramData, wire, reply, waiting, modified, newest, answered,
  \* Network
  sent, flight, queue, sim, active, quit, delivered,
  \* Sampling
  s,
  \* Conditions
  lock, futex, pcs, o

-----------------------------------------------------------------------------
\* A pair is a protocol and a limit on the sharers.
CoherenceConfigs == {<<"MSI", 1>>, <<"MESI", 3>>, <<"MESIF", 3>>}

\* Without a NUCA slice, and with one that holds every line.
HomeConfigs == {[ways |-> w] : w \in 0 .. 2}

\* Sends over networks whose sim threads run; and, last, the start and the end of
\* the sim threads with messages under way.
MeshConfigs ==
  LET Mesh == [model |-> "hop", width |-> 2, height |-> 1, conc |-> 1, wrap |-> FALSE, group |-> 1,
               delay |-> 1, senders |-> {0}, dests |-> {-1, 0, 1}, sends |-> 1, replies |-> 0,
               born |-> TRUE, quits |-> FALSE, early |-> FALSE]
  IN {[Mesh EXCEPT !.width = 3, !.height = 2, !.senders = {0, 4}, !.dests = {0, 2, 5}],
      [Mesh EXCEPT !.width = 5, !.wrap = TRUE, !.senders = {0, 4}, !.dests = {1, 2, 3}],
      [Mesh EXCEPT !.width = 4, !.wrap = TRUE, !.sends = 2, !.dests = {1, 2, 3}],
      [Mesh EXCEPT !.conc = 2, !.group = 2, !.senders = {0, 1}, !.dests = {0, 2, 3}],
      [Mesh EXCEPT !.senders = {0, 1}, !.delay = 0],
      [Mesh EXCEPT !.model = "counter", !.sends = 2],
      [Mesh EXCEPT !.model = "bus", !.sends = 2],
      [Mesh EXCEPT !.model = "magic", !.sends = 2],
      [Mesh EXCEPT !.delay = 0, !.dests = {1, -1}, !.replies = 1, !.born = FALSE, !.quits = TRUE]}

\* Sampling with one and two cores; see the parameters of Sampling.
SampleConfigs ==
  LET Base == [cores |-> 2, quantum |-> 6, period |-> 3, width |-> 1, costs |-> {3}, detailed |-> 12,
               fastforward |-> 12, stretch |-> 6, warmup |-> 0, detailedWarmup |-> 0, start |-> 0,
               offsets |-> {}, uncoordinated |-> FALSE, detailedSync |-> TRUE, constantIpc |-> FALSE,
               naps |-> 1]
  IN {Base,
      [Base EXCEPT !.cores = 1, !.costs = {3, 6}, !.fastforward = 6, !.detailed = 6, !.naps = 0],
      [Base EXCEPT !.detailedWarmup = 6, !.costs = {3, 6}, !.constantIpc = TRUE, !.naps = 0],
      [Base EXCEPT !.warmup = 6, !.offsets = {0, 6}, !.start = 6],
      [Base EXCEPT !.uncoordinated = TRUE, !.detailedSync = FALSE, !.costs = {3, 9}, !.naps = 0],
      [Base EXCEPT !.uncoordinated = TRUE, !.constantIpc = TRUE]}

\* The queue of MTCircularQueue, the semaphore and the barrier of misc/.
WaitingConfigs ==
  LET Queue == [kind |-> "queue", threads |-> 2, size |-> 2, interrupts |-> FALSE]
  IN {[Queue EXCEPT !.interrupts = TRUE], [Queue EXCEPT !.threads = 3],
      [Queue EXCEPT !.kind = "semaphore", !.threads = 4],
      [Queue EXCEPT !.kind = "semaphore", !.threads = 3, !.interrupts = TRUE],
      [Queue EXCEPT !.kind = "barrier", !.threads = 3]}

\* The caches' lock, and SELock with and without readers.
SetLock == [kind |-> "set", sharers |-> 3, mayRead |-> TRUE, mayWrite |-> TRUE]
ThreeLocks == {SetLock, [SetLock EXCEPT !.kind = "se"],
               [SetLock EXCEPT !.kind = "se", !.mayRead = FALSE]}

\* Associativities of the directory cache.
OneOrTwoWays == {1, 2}

-----------------------------------------------------------------------------
Cache == {c1, c2, c3}
Value == {v1}
C(p, h) == INSTANCE Coherence WITH
             Protocol <- p, MaxHwSharers <- h, MaxWaiters <- 1, reqs <- requests
M == INSTANCE HomeMemory WITH
       Homes <- HomeConfigs, Addr <- {"a", "b"}, Values <- 2, MaxWire <- 3,
       home <- config, dram <- dramData, owner <- modified
N == INSTANCE Network WITH NetConfigs <- MeshConfigs, Serialization <- 1, nc <- config
S == INSTANCE Sampling WITH SamplingConfigs <- SampleConfigs, Off <- 999, Horizon <- 60, sc <- config
W == INSTANCE Conditions WITH CondConfigs <- WaitingConfigs, NoThread <- 0, Items <- 4, MaxCount <- 2, cv <- config

cohVars ==
  <<cstate, cdata, waiters, serving, toDir, toCache, dstate, sharers, owner, forwarder,
    requests, dpc, dbuf, fromDram, dram>>
memVars ==
  <<nuca, dramData, wire, reply, waiting, modified, newest, answered>>
meshVars ==
  <<sent, flight, queue, sim, active, quit, delivered>>
sampleVars ==
  <<s>>
condVars ==
  <<lock, futex, pcs, o>>

sumVars == <<part, config, cohVars, memVars, meshVars, sampleVars, condVars, dirVars,
             lockVars>>

Off(v) == v = "off"
cohOff ==
  /\ Off(cstate) /\ Off(cdata) /\ Off(waiters) /\ Off(serving) /\ Off(toDir)
  /\ Off(toCache) /\ Off(dstate) /\ Off(sharers) /\ Off(owner) /\ Off(forwarder)
  /\ Off(requests) /\ Off(dpc) /\ Off(dbuf) /\ Off(fromDram) /\ Off(dram)
memOff ==
  /\ Off(nuca) /\ Off(dramData) /\ Off(wire) /\ Off(reply) /\ Off(waiting)
  /\ Off(modified) /\ Off(newest) /\ Off(answered)
meshOff ==
  /\ Off(sent) /\ Off(flight) /\ Off(queue) /\ Off(sim) /\ Off(active) /\ Off(quit)
  /\ Off(delivered)
sampleOff ==
  /\ Off(s)
condOff ==
  /\ Off(lock) /\ Off(futex) /\ Off(pcs) /\ Off(o)

Parts == {"coherence", "home", "network", "sampling", "conditions", "directory", "locks"}

MemInit ==
  /\ part \in Parts
  /\ IF part = "coherence" THEN (\E k \in CoherenceConfigs : config = k /\ C(k[1], k[2])!Init) ELSE cohOff
  /\ IF part = "home" THEN M!HomeInit ELSE memOff
  /\ IF part = "network" THEN N!NetInit ELSE meshOff
  /\ IF part = "sampling" THEN S!SamplingInit ELSE sampleOff
  /\ IF part = "conditions" THEN W!CondInit ELSE condOff
  /\ IF part = "directory" THEN DirInit ELSE DirInit /\ assoc = 1
  /\ IF part = "locks" THEN LockInit ELSE LockInit /\ lc = SetLock
  /\ IF part \in {"directory", "locks"} THEN Off(config) ELSE TRUE

\* Only component p takes a step.
Only(p) ==
  /\ part = p /\ UNCHANGED part
  /\ IF p = "coherence" THEN UNCHANGED config ELSE UNCHANGED cohVars
  /\ IF p = "home" THEN TRUE ELSE UNCHANGED memVars
  /\ IF p = "network" THEN TRUE ELSE UNCHANGED meshVars
  /\ IF p = "sampling" THEN TRUE ELSE UNCHANGED sampleVars
  /\ IF p = "conditions" THEN TRUE ELSE UNCHANGED condVars
  /\ IF p = "directory" THEN UNCHANGED config ELSE UNCHANGED dirVars
  /\ IF p = "locks" THEN UNCHANGED config ELSE UNCHANGED lockVars

\* Messages, simulated time, and the uses of a queue or a semaphore are
\* bounded.
MayStop == {"network", "sampling", "conditions"}

MemNext ==
  \/ Only("coherence") /\ \E k \in CoherenceConfigs : config = k /\ C(k[1], k[2])!Next
  \/ Only("home") /\ M!HomeNext
  \/ Only("network") /\ N!NetNext
  \/ Only("sampling") /\ S!SamplingNext
  \/ Only("conditions") /\ W!CondNext
  \/ Only("directory") /\ DirNext
  \/ Only("locks") /\ LockNext
  \/ part \in MayStop /\ UNCHANGED sumVars

MemSpec == MemInit /\ [][MemNext]_sumVars

\* The last-level caches are interchangeable; no other component has them.
Symmetry == Permutations(Cache)

-----------------------------------------------------------------------------
\* Every component's variables have their types.
MemTypeOK ==
  CASE part = "coherence" -> \A k \in CoherenceConfigs : config = k => C(k[1], k[2])!TypeOK
    [] part = "home" -> M!HomeTypeOK
    [] part = "network" -> N!NetTypeOK
    [] part = "sampling" -> S!SamplingTypeOK
    [] part = "conditions" -> W!CondTypeOK
    [] part = "directory" -> DirTypeOK
    [] part = "locks" -> LockTypeOK

\* A last-level cache that may write a line is the only one that holds it,
\* in every race of requests, invalidations and write-backs.
SingleWriter ==
  part = "coherence" => \A k \in CoherenceConfigs : config = k => C(k[1], k[2])!SingleWriter

\* The directory knows the holders of a line whenever nothing about it is
\* under way, its entry is well formed, no assertion of the directory
\* fails, and it only gets replies it waits for.
DirectoryPrecise ==
  part = "coherence" => /\ \A k \in CoherenceConfigs : config = k => C(k[1], k[2])!DirectoryPrecise
                        /\ \A k \in CoherenceConfigs : config = k => C(k[1], k[2])!DirectoryAssertionsHold
                        /\ \A k \in CoherenceConfigs : config = k => C(k[1], k[2])!RepliesExpected
                        /\ \A k \in CoherenceConfigs : config = k => C(k[1], k[2])!ForwarderIsSharer
                        /\ \A k \in CoherenceConfigs : config = k => C(k[1], k[2])!SharersWithinLimit
                        /\ \A k \in CoherenceConfigs : config = k => C(k[1], k[2])!EntryWellFormed



\* Nobody waits for something that has happened or cannot happen: wake-ups
\* of condition variables are not lost and barrier rounds stay together,
\* some thread can go on when a lock is free, a directory set refuses a
\* request only when all its entries are busy, and no core is left out of
\* sampling or sampled without detail.
NobodyStuck ==
  CASE part = "conditions" -> W!NoWakeupLost /\ W!RoundsTogether
    [] part = "locks" -> SomebodyGoesOn
    [] part = "directory" -> StuckOnlyWhenAllBusy
    [] part = "sampling" -> S!SamplingAsserts /\ S!NoSilentCore /\ S!SampleIsDetailed
    [] OTHER -> TRUE
=============================================================================
