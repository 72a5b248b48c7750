---------------------------- MODULE MCCore ----------------------------------
(***************************************************************************)
(* The models of a core and of its front ends, one after another in one    *)
(* run: part names the component that runs, config its configuration. Both *)
(* are chosen initially; the variables of the others are off.              *)
(***************************************************************************)
EXTENDS Integers, Sequences, FiniteSets

VARIABLES
  part,   \* the component that runs
  config, \* its configuration
  \* RobTimer
  thread, shared, quiet, idle, late,
  \* RobSmtTimer
  threads, core, dispatchThread, issueThread, unseen, starved,
  \* IntervalTimer
  w, spun, charged,
  \* PerformanceModel
  pm, cur,
  \* BranchPredictors
  bp, seen,
  \* QueueModels
  q, served,
  \* TraceThread
  t,
  \* RoutineTracer
  r, roi, pending, events,
  \* SmtBarrier
  slots, inSync, enabled, executeThread, places, at, spins, left

-----------------------------------------------------------------------------
\* Instruction mixes for the reorder buffer: dependences, mispredicted branches,
\* instruction cache misses, loads and stores with and without disambiguation,
\* fences, serializing instructions, and the ports of a Nehalem.
RobMixes ==
  LET U == [kind |-> "exec", lat |-> 1, src |-> {}, addr |-> {}, dst |-> {}, mem |-> 0, intra |-> 0,
            bad |-> FALSE, fetch |-> 0, membar |-> FALSE, serial |-> FALSE, port |-> "015", alu |-> 0]
      Slow == [U EXCEPT !.lat = 3, !.dst = {"a"}, !.port = "0", !.alu = 2]
      Use == [U EXCEPT !.src = {"a"}, !.dst = {"b"}]
      Branch == [U EXCEPT !.src = {"a"}, !.bad = TRUE, !.port = "5"]
      Miss == [U EXCEPT !.fetch = 3]
      Fence == [U EXCEPT !.membar = TRUE]
      Serial == [U EXCEPT !.serial = TRUE, !.src = {"a"}]
      Load == [U EXCEPT !.kind = "load", !.lat = 3, !.dst = {"a"}, !.mem = 1, !.port = "2"]
      Store == [U EXCEPT !.kind = "store", !.lat = 4, !.src = {"a", "b"}, !.addr = {"a", "b"},
                         !.mem = 1, !.port = "34"]
      Rmw == <<Load, [U EXCEPT !.intra = 1], [Store EXCEPT !.intra = 1, !.membar = TRUE]>>
      P == [width |-> 1, commit |-> 1, window |-> 2, stations |-> 2, penalty |-> 4, forward |-> FALSE,
            noDisambiguation |-> FALSE, inorder |-> FALSE, loads |-> 1, stores |-> 1, ports |-> FALSE,
            bound |-> 20, insns |-> {}]
  IN {[P EXCEPT !.window = 3, !.insns = {<<Slow>>, <<Use>>, <<Branch>>, <<Miss>>}],
      [P EXCEPT !.window = 3, !.insns = {<<Slow>>, <<Use>>, <<Load>>, <<Store>>},
                !.noDisambiguation = TRUE],
      [P EXCEPT !.insns = {<<Slow>>, <<Load>>, <<Store>>, <<Fence>>, <<Serial>>, Rmw}],
      [P EXCEPT !.window = 4, !.stations = 4, !.insns = {<<Load>>, <<Store>>, <<Fence>>}],
      [P EXCEPT !.width = 2, !.commit = 2, !.stations = 2, !.window = 3,
                !.insns = {<<Slow>>, <<Use>>, <<Load>>}, !.ports = TRUE]}

\* Two hardware threads, with mixes in which one holds up the other.
SmtMixes ==
  LET U == [kind |-> "exec", lat |-> 1, src |-> {}, addr |-> {}, dst |-> {}, mem |-> 0, intra |-> 0,
            bad |-> FALSE, fetch |-> 0, membar |-> FALSE, serial |-> FALSE, port |-> "015", alu |-> 0]
      Slow == [U EXCEPT !.lat = 3, !.dst = {"a"}, !.port = "0", !.alu = 2]
      Use == [U EXCEPT !.src = {"a"}, !.dst = {"b"}]
      Branch == [U EXCEPT !.src = {"a"}, !.bad = TRUE, !.port = "5"]
      Miss == [U EXCEPT !.fetch = 3]
      Fence == [U EXCEPT !.membar = TRUE]
      Load == [U EXCEPT !.kind = "load", !.lat = 2, !.dst = {"a"}, !.mem = 1, !.port = "2"]
      Store == [U EXCEPT !.kind = "store", !.lat = 2, !.mem = 1, !.port = "34"]
      LoadUse == <<Load, [U EXCEPT !.intra = 1]>>
      P == [threads |-> 2, width |-> 1, commit |-> 1, window |-> 2, stations |-> 2, penalty |-> 4,
            forward |-> FALSE, noDisambiguation |-> FALSE, inorder |-> FALSE, loads |-> 1, stores |-> 1,
            ports |-> FALSE, bound |-> 30, repartition |-> TRUE, sleeps |-> {},
            simultaneousIssue |-> FALSE, jumps |-> FALSE, insns |-> {}]
  IN {[P EXCEPT !.insns = {<<U>>}, !.window = 8],
      [P EXCEPT !.insns = {<<[Slow EXCEPT !.lat = 6]>>, <<Use>>}, !.window = 4],
      [P EXCEPT !.insns = {LoadUse, <<Use>>}, !.sleeps = {2}],
      [P EXCEPT !.insns = {<<Branch>>, <<Miss>>, <<Slow>>}, !.simultaneousIssue = TRUE],
      [P EXCEPT !.insns = {<<Store>>, <<Fence>>, LoadUse}],
      [P EXCEPT !.insns = {<<Branch>>, <<Slow>>}, !.repartition = FALSE, !.jumps = TRUE]}

\* Mixes for the interval model's window.
IntervalMixes ==
  LET U == [kind |-> "exec", lat |-> 1, deps |-> {}, port |-> "015", line |-> 0, icache |-> 0,
            bad |-> FALSE, membar |-> FALSE, serial |-> FALSE, last |-> TRUE]
      Slow == [U EXCEPT !.lat = 2, !.port = "0"]
      Div == [U EXCEPT !.lat = 4, !.port = "0"]
      Use == [U EXCEPT !.deps = {1}]
      Branch == [U EXCEPT !.kind = "branch", !.bad = TRUE, !.deps = {1, 2}, !.port = "5"]
      Fetch == [U EXCEPT !.icache = 2]
      Load == [U EXCEPT !.kind = "load", !.lat = 2, !.deps = {2}, !.line = 1, !.port = "2"]
      Miss == [Load EXCEPT !.lat = 5]
      Other == [Miss EXCEPT !.line = 2, !.deps = {1}]
      Free == [Miss EXCEPT !.line = 3, !.deps = {}]
      Store == [U EXCEPT !.kind = "store", !.lat = 3, !.deps = {1}]
      Fence == [U EXCEPT !.membar = TRUE]
      Serial == [U EXCEPT !.serial = TRUE]
      I == [size |-> 2, width |-> 2, cutoff |-> 3, penalty |-> 2, slots |-> 0, units |-> FALSE,
            atDispatch |-> FALSE, uops |-> {}]
  IN {[I EXCEPT !.size = 3, !.uops = {[Slow EXCEPT !.deps = {2}], Use, Branch}],
      [I EXCEPT !.units = TRUE, !.uops = {Slow, U, Use, [Use EXCEPT !.last = FALSE]}],
      [I EXCEPT !.size = 3, !.uops = {Use, Other, Free}],
      [I EXCEPT !.atDispatch = TRUE, !.uops = {Use, Free, Load, Branch}],
      [I EXCEPT !.slots = 1, !.uops = {Miss, Store, Fence}],
      [I EXCEPT !.slots = 1, !.uops = {Load, Fence, Use}],
      [I EXCEPT !.uops = {Fetch, Serial, Free, [Branch EXCEPT !.icache = 2], Div}]}

\* Pseudo-instructions with and without a cutoff for the memory accesses they
\* wait for, and instructions with every combination of few operands.
ProgramConfigs ==
  LET Ops == [dir : {"read", "write"}, line : 1..2]
      Insn(ops, e) == [kind |-> "instruction", ops |-> ops, execs |-> e]
      Lines(d, s) == [k \in DOMAIN s |-> [dir |-> d, line |-> s[k]]]
      Nop == Insn(<<>>, 1)
  IN {[cutoff |-> 2, insns |-> {Nop}, pseudo |-> {"idle", "tlb", "memaccess"}, costs |-> {0, 1, 3}],
      [cutoff |-> 0, insns |-> {Nop}, pseudo |-> {"memaccess", "unknown"}, costs |-> {3}],
      [cutoff |-> 2, pseudo |-> {}, costs |-> {},
       insns |-> {Insn(o, 1) : o \in UNION {[1..n -> Ops] : n \in 1..2}}
                 \cup {Insn(Lines("read", s), 1) : s \in [1..4 -> 1..3]}
                 \cup {Insn(Lines("write", s), e) : s \in [1..3 -> 1..3], e \in {0, 1}}]}

\* The Pentium M predictor with small tables, and the one-bit predictor.
PredictorConfigs ==
  LET Pm(ips, ways, pir, tags, runs, visits) ==
        [type |-> "pentium_m", ips |-> ips, ways |-> ways, pir |-> pir, tags |-> tags,
         runs |-> runs, visits |-> visits]
  IN {Pm({1}, 2, 16, 4, 6, 0), Pm({0, 1}, 2, 4, 4, 3, 1), Pm({0, 1}, 1, 4, 4, 3, 2),
      [Pm({0, 1}, 1, 1, 1, 1, 9) EXCEPT !.type = "one_bit"]}

\* The queue models; times of the M/G/1 model start late, as its window needs.
ResourceConfigs ==
  LET Base == [kind |-> "history", sizes |-> {2}, times |-> 0..6, requests |-> 4, min |-> 2, list |-> 2,
               window |-> 2, units |-> 1, shared |-> FALSE, averaging |-> FALSE, start |-> 0]
  IN {Base,
      [Base EXCEPT !.kind = "readwrite", !.shared = TRUE, !.times = {0, 1, 3, 4}, !.list = 3],
      [Base EXCEPT !.kind = "basic", !.sizes = {1, 2}, !.times = 0..4],
      [Base EXCEPT !.kind = "basic", !.averaging = TRUE, !.times = {0, 2, 5}],
      [Base EXCEPT !.kind = "contention", !.sizes = {1, 3}, !.times = 0..4, !.units = 2],
      [Base EXCEPT !.kind = "mg1", !.sizes = {1, 3}, !.window = 4, !.times = {40, 41, 44, 48, 84},
                   !.start = 40]}
\* Traces with lines of 4 and pages of 8 bytes: accesses that span lines and
\* pages, changes of the mode, small TLBs, and a randomized address mapping.
Traces ==
  LET I == [addr |-> 4, size |-> 2, branch |-> FALSE, pair |-> FALSE, atomic |-> FALSE, nop |-> FALSE,
            prefetch |-> FALSE, executed |-> TRUE, ops |-> <<>>, data |-> <<>>]
      R(n) == [read |-> TRUE, write |-> FALSE, size |-> n]
      W(n) == [read |-> FALSE, write |-> TRUE, size |-> n]
      RW(n) == [read |-> TRUE, write |-> TRUE, size |-> n]
      D(p) == [I EXCEPT !.addr = 2 + p, !.size = 1, !.branch = TRUE, !.ops = <<R(4)>>, !.data = <<8 * p>>]
      Code == <<[I EXCEPT !.addr = 2, !.size = 3, !.ops = <<R(2), W(4)>>, !.data = <<3, 6>>],
                [I EXCEPT !.addr = 5, !.ops = <<RW(4)>>, !.data = <<8>>, !.atomic = TRUE],
                [I EXCEPT !.addr = 7, !.branch = TRUE],
                [I EXCEPT !.addr = 9, !.size = 1, !.ops = <<R(1)>>, !.data = <<15>>, !.executed = FALSE],
                [I EXCEPT !.addr = 10, !.size = 3, !.branch = TRUE, !.ops = <<R(6)>>, !.data = <<13>>,
                          !.prefetch = TRUE]>>
      Base == [g |-> [line |-> 4, page |-> 8, itlb |-> 0, dtlb |-> 0, stlb |-> 0], code |-> Code,
               apps |-> {1}, base |-> 2, randomization |-> FALSE, hasPa |-> FALSE, unmapped |-> {},
               mode |-> "DETAILED", modes |-> {"DETAILED"}, icache |-> TRUE, max |-> 6, records |-> 1]
  IN {Base,
      [Base EXCEPT !.modes = {"FAST_FORWARD", "CACHE_ONLY", "DETAILED"}, !.g.itlb = 1, !.g.dtlb = 1,
                   !.g.stlb = 2, !.hasPa = TRUE, !.unmapped = {1}, !.max = 3],
      [Base EXCEPT !.code = <<D(0), D(1), D(2), D(3)>>, !.g.dtlb = 2, !.g.stlb = 2, !.icache = FALSE],
      [Base EXCEPT !.apps = {0, 1}, !.base = 3, !.randomization = TRUE, !.code = <<I>>, !.g.page = 2,
                   !.max = 1]}

\* Calls and returns that match, in one thread.
MatchedCalls == {[mismatch |-> FALSE, racy |-> FALSE]}

-----------------------------------------------------------------------------
R == INSTANCE RobTimer WITH
       RobConfigs <- RobMixes, MaxJump <- 2, Reg <- {"a", "b"}, Inf <- 99, rp <- config
S == INSTANCE RobSmtTimer WITH
       SmtConfigs <- SmtMixes, SmtMaxJump <- 2, Reg <- {"a", "b"}, Inf <- 99, sp <- config
V == INSTANCE IntervalTimer WITH
       IntervalConfigs <- IntervalMixes, Memory <- 9, One <- 64, MaxSpins <- 20, ip <- config
P == INSTANCE PerformanceModel WITH PmConfigs <- ProgramConfigs, QueueCap <- 1, MaxLag <- 6, pc <- config
B == INSTANCE BranchPredictors WITH BpConfigs <- PredictorConfigs, MaxSame <- 5, bc <- config
Q == INSTANCE QueueModels WITH
       QueueConfigs <- ResourceConfigs, Forever <- 200, Wrap <- 1000, qc <- config
T == INSTANCE TraceThread WITH TraceConfigs <- Traces, NoPage <- 999, tt <- config
F == INSTANCE RoutineTracer WITH
       TracerConfigs <- MatchedCalls, Routine <- {1, 2}, MaxDepth <- 3, MaxNow <- 2, MaxEvents <- 5,
       tc <- config
W == INSTANCE SmtBarrier WITH
       NumSlots <- 2, Thread <- {"t1", "t2", "t3"}, Few <- 1, MaxSurplus <- 2, MayLeave <- TRUE,
       None <- "none",
       Placements <- {<<"t1", "t2">>}, pc <- places

robVars ==
  <<thread, shared, quiet, idle, late>>
smtVars ==
  <<threads, core, dispatchThread, issueThread, unseen, starved>>
intervalVars ==
  <<w, spun, charged>>
perfVars ==
  <<pm, cur>>
branchVars ==
  <<bp, seen>>
queueVars ==
  <<q, served>>
traceVars ==
  <<t>>
routineVars ==
  <<r, roi, pending, events>>
barVars ==
  <<slots, inSync, enabled, executeThread, places, at, spins, left>>

vars == <<part, config, robVars, smtVars, intervalVars, perfVars, branchVars,
          queueVars, traceVars, routineVars, barVars>>

Off(v) == v = "off"
robOff ==
  /\ Off(thread) /\ Off(shared) /\ Off(quiet) /\ Off(idle) /\ Off(late)
smtOff ==
  /\ Off(threads) /\ Off(core) /\ Off(dispatchThread) /\ Off(issueThread)
  /\ Off(unseen) /\ Off(starved)
intervalOff ==
  /\ Off(w) /\ Off(spun) /\ Off(charged)
perfOff ==
  /\ Off(pm) /\ Off(cur)
branchOff ==
  /\ Off(bp) /\ Off(seen)
queueOff ==
  /\ Off(q) /\ Off(served)
traceOff ==
  /\ Off(t)
routineOff ==
  /\ Off(r) /\ Off(roi) /\ Off(pending) /\ Off(events)
barOff ==
  /\ Off(slots) /\ Off(inSync) /\ Off(enabled) /\ Off(executeThread) /\ Off(places)
  /\ Off(at) /\ Off(spins) /\ Off(left)

Parts == {"rob", "smt", "interval", "performance", "branches", "queue", "trace", "routines", "smt barrier"}

Init ==
  /\ part \in Parts
  /\ IF part = "rob" THEN R!RobInit ELSE robOff
  /\ IF part = "smt" THEN S!SmtInit ELSE smtOff
  /\ IF part = "interval" THEN V!IntervalInit ELSE intervalOff
  /\ IF part = "performance" THEN P!PmInit ELSE perfOff
  /\ IF part = "branches" THEN B!BpInit ELSE branchOff
  /\ IF part = "queue" THEN Q!QInit ELSE queueOff
  /\ IF part = "trace" THEN T!TraceInit ELSE traceOff
  /\ IF part = "routines" THEN F!TracerInit ELSE routineOff
  /\ IF part = "smt barrier" THEN W!BarInit /\ Off(config) ELSE barOff

\* Only component p takes a step.
Only(p) ==
  /\ part = p /\ UNCHANGED part
  /\ IF p = "rob" THEN TRUE ELSE UNCHANGED robVars
  /\ IF p = "smt" THEN TRUE ELSE UNCHANGED smtVars
  /\ IF p = "interval" THEN TRUE ELSE UNCHANGED intervalVars
  /\ IF p = "performance" THEN TRUE ELSE UNCHANGED perfVars
  /\ IF p = "branches" THEN TRUE ELSE UNCHANGED branchVars
  /\ IF p = "queue" THEN TRUE ELSE UNCHANGED queueVars
  /\ IF p = "trace" THEN TRUE ELSE UNCHANGED traceVars
  /\ IF p = "routines" THEN TRUE ELSE UNCHANGED routineVars
  /\ IF p = "smt barrier" THEN UNCHANGED config ELSE UNCHANGED barVars

\* The requests to a queue model, the length of a trace and the routine
\* changes are bounded, and the threads of a core may all have left.
MayStop == {"queue", "trace", "routines", "smt barrier"}

Next ==
  \/ Only("rob") /\ R!RobNext
  \/ Only("smt") /\ S!SmtNext
  \/ Only("interval") /\ V!IntervalNext
  \/ Only("performance") /\ P!PmNext
  \/ Only("branches") /\ B!BpNext
  \/ Only("queue") /\ Q!QNext
  \/ Only("trace") /\ T!TraceNext
  \/ Only("routines") /\ F!TracerNext
  \/ Only("smt barrier") /\ W!BarNext
  \/ part \in MayStop /\ UNCHANGED vars

Spec == Init /\ [][Next]_vars

-----------------------------------------------------------------------------
\* Every component's variables have their types.
TypeOK ==
  CASE part = "rob" -> R!RobTypeOK
    [] part = "smt" -> S!SmtTypeOK
    [] part = "interval" -> V!IntervalTypeOK
    [] part = "performance" -> P!PmTypeOK
    [] part = "branches" -> B!BpTypeOK
    [] part = "queue" -> Q!QTypeOK
    [] part = "trace" -> T!TraceTypeOK
    [] part = "routines" -> F!TracerTypeOK
    [] part = "smt barrier" -> W!BarTypeOK



\* Program order is kept where it matters: loads after stores to their
\* line, nothing across a fence, addresses before data, no miss hidden
\* behind one it depends on, exactly the dependences of the operands that
\* remain.
OrderKept ==
  CASE part = "rob" -> R!AddressBeforeData /\ R!LoadAfterStore /\ R!FenceOrders
    [] part = "interval" -> V!HiddenLoadsIndependent
    [] part = "performance" -> P!DependenciesExact /\ P!OneFirstOneLast
    [] OTHER -> TRUE

\* A resource serves one at a time and none leaks: reservation stations are
\* counted exactly, requests to a queue model get intervals that do not
\* overlap, and a peek tells the start that the request gets.
ResourcesNotShared ==
  CASE part = "rob" -> R!StationsCounted
    [] part = "smt" -> S!SharedStationsCounted
    [] part = "queue" -> Q!UnitsNotShared /\ Q!FreeListSound /\ Q!PeekTellsStart
    [] OTHER -> TRUE



=============================================================================
