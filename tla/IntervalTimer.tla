---------------------------- MODULE IntervalTimer ----------------------------
(***************************************************************************)
(* The interval core timing model (interval_timer.cc, windows.cc).         *)
(* Micro-ops wait in a window; when it is full they are dispatched to the  *)
(* old window, whose critical path sets the rate of dispatch.  A load that *)
(* misses empties the old window and hides the independent micro-ops       *)
(* behind it.                                                              *)
(*                                                                         *)
(* ops is the old window (the first `old` micro-ops) followed by the       *)
(* window, a dependency is the distance to the producer, and times are     *)
(* relative to the head of the critical path, with Past for the times so   *)
(* far back that nothing can tell them apart.                              *)
(***************************************************************************)
EXTENDS Integers, Sequences, FiniteSetsExt, SequencesExt

CONSTANTS IntervalConfigs,  \* the parameters of the core and its instructions
          Memory,           \* how many cycles back a time is kept
          One,              \* the scale of FixedPoint
          MaxSpins          \* cycles without a dispatch after which a run is given up

VARIABLES ip, w, spun, charged

intervalVars == <<ip, w, spun, charged>>

Later(a, b) == Max({a, b})

Past == 0 - Memory

Port == {"0", "1", "5", "05", "015", "2"}

NoUse == [p \in Port |-> 0]

\* Windows::WindowEntry::initialize; the latency of a memory access is not known
\* before it is issued.
NewEntry(u) ==
  [u |-> u, lat |-> IF ip.atDispatch /\ u.kind \in {"load", "store"} THEN 0 ELSE u.lat,
   exec |-> Past, contr |-> 0, flags |-> {}, dep |-> "no"]

\* Windows::clear and the constructor of IntervalTimer
IntervalInit ==
  /\ ip \in IntervalConfigs
  /\ w = [ops |-> <<>>, old |-> 0, head |-> 0, tail |-> 0, total |-> 0, use |-> NoUse,
          rem |-> 0, maxLoad |-> 0, maxStore |-> 0, origin |-> 0,
          slots |-> [s \in 1 .. ip.slots |-> 0], last |-> 0]
  /\ spun = 0 /\ charged = TRUE

Next(v) == v.old + 1                      \* getInstructionToDispatch

IsLoad(e) == e.u.kind = "load"

LongLatencyLoad(e) == IsLoad(e) /\ e.lat > ip.cutoff

\* The producers of a micro-op in the old window and in the window
\* (oldWindowContains, windowContains).
OldProducers(v, i) == {i - d : d \in v.ops[i].u.deps} \cap 1 .. v.old

WindowProducers(v, i) == {i - d : d \in v.ops[i].u.deps} \cap Next(v) .. Len(v.ops)

-----------------------------------------------------------------------------
(* The old window and its critical path *)

ClearOldWindow(v, t) ==
  [v EXCEPT !.ops = SubSeq(@, Next(v), Len(@)), !.old = 0, !.head = t, !.tail = t,
            !.total = 0, !.use = NoUse]

\* Windows::dispatchInstruction: the oldest micro-op leaves a full old window.
MoveToOldWindow(v) ==
  LET first == v.ops[1]
      v1 == IF v.old < ip.size THEN v
            ELSE [v EXCEPT !.ops = Tail(@), !.old = @ - 1, !.head = Later(@, first.exec),
                           !.total = @ - first.contr, !.use[first.u.port] = @ - 1]
      e == v1.ops[Next(v1)]
  IN  [v1 EXCEPT !.old = @ + 1, !.total = @ + e.contr, !.use[e.u.port] = @ + 1]

CriticalPathLength(v) == IF v.head <= v.tail THEN v.tail - v.head ELSE 0

\* IntervalContentionNehalem::getEffectiveCriticalPathLength
EffectiveLength(v) ==
  LET cp == Max({CriticalPathLength(v)} \cup {v.use[p] : p \in Port \ {"05", "015"}})
      use05 == v.use["0"] + v.use["5"] + v.use["05"]
      cp05 == IF use05 > 2 * cp THEN (use05 + 1) \div 2 ELSE cp
      use015 == v.use["0"] + v.use["1"] + v.use["5"] + v.use["015"]
  IN  IF ~ip.units THEN CriticalPathLength(v)
      ELSE IF use015 > 3 * cp05 THEN (use015 + 2) \div 3 ELSE cp05

\* longLatencyOperationLatency: a truth value, not the length of the extension
LongLatencyOperation(v, exec) == IF exec - v.tail < ip.cutoff THEN 0 ELSE 1

\* updateCriticalPath, for the micro-op at the head of the window
UpdateCriticalPath(r, exec) ==
  LET v == [r.v EXCEPT !.ops[Next(r.v)].exec = exec]
      more == exec - v.tail
      lll == LongLatencyOperation(v, exec)
  IN  IF lll > 0
      THEN [r EXCEPT !.v = ClearOldWindow(v, exec), !.latency = @ + lll,
                     !.charged = @ /\ lll >= more]
      ELSE IF more > 0
      THEN [r EXCEPT !.v = [v EXCEPT !.ops[Next(v)].contr = more, !.tail = exec]]
      ELSE [r EXCEPT !.v = v]


\* One step of calculateBranchResolutionLatency: the producers of a marked micro-op
\* are marked with the longest way through it.
Mark(v, map, i) ==
  [j \in DOMAIN map |->
     IF j \in OldProducers(v, i) THEN Later(v.ops[j].lat + map[i], map[j]) ELSE map[j]]

RECURSIVE Resolve(_, _, _, _)
Resolve(v, map, i, longest) ==
  IF i = 0 THEN longest
  ELSE IF map[i] = 0 THEN Resolve(v, map, i - 1, longest)
  ELSE Resolve(v, [Mark(v, map, i) EXCEPT ![i] = 0], i - 1, Later(longest, map[i]))

BranchResolutionLatency(v) ==
  Resolve(v, [j \in 1 .. v.old |-> IF j \in OldProducers(v, Next(v)) THEN v.ops[j].lat ELSE 0],
          v.old, 0)

\* The load and store units: m_loadstore_contention, getBarrierCompletionTime and
\* getCompletionTime.
Complete(v, start, delay, barrier) ==
  LET n == Len(v.slots)
      all == Max({start} \cup Range(v.slots)) + delay
      free == {s \in 1 .. n : v.slots[s] <= start}
      unit == IF free # {} THEN Min(free)
              ELSE CHOOSE s \in 1 .. n : \A t \in 1 .. n : v.slots[s] <= v.slots[t]
      end == Later(start, v.slots[unit]) + delay
  IN  IF n = 0 THEN [v |-> v, end |-> start + delay]
      ELSE IF barrier THEN [v |-> [v EXCEPT !.slots = [s \in 1 .. n |-> all]], end |-> all]
      ELSE IF start = v.origin \/ start < v.last THEN [v |-> v, end |-> start + delay]
      ELSE [v |-> [v EXCEPT !.slots[unit] = end, !.last = start], end |-> end]

-----------------------------------------------------------------------------
(* A long-latency load blocks the window *)

\* issueMemOp: once, whoever comes first
IssueMemOp(v, i) == [v EXCEPT !.ops[i].lat = v.ops[i].u.lat]

DataDependent(v, i) ==
  \/ \E j \in WindowProducers(v, i) :
        \/ v.ops[j].dep = "data"
        \/ v.ops[j].dep = "indep" /\ LongLatencyLoad(v.ops[j])
  \/ IsLoad(v.ops[i]) /\ v.ops[i].u.line = v.ops[Next(v)].u.line

\* blockWindow, from the micro-op at i on
RECURSIVE Block(_, _, _)
Block(v, i, fenced) ==
  IF i > Len(v.ops) THEN v
  ELSE LET v1 == [v EXCEPT !.ops[i].dep = "no", !.ops[i].flags = @ \cup {"I"}]
           e == v1.ops[i]
           waits == DataDependent(v1, i)
           fence == fenced \/ e.u.membar
           hides == IsLoad(e) /\ ~waits /\ ~fence /\ "D" \notin e.flags
           v2 == IF waits THEN [v1 EXCEPT !.ops[i].dep = "data"]
                 ELSE IF e.u.kind = "branch" THEN [v1 EXCEPT !.ops[i].flags = @ \cup {"B"}]
                 ELSE IF hides
                 THEN IssueMemOp([v1 EXCEPT !.ops[i].flags = @ \cup {"D"}, !.ops[i].dep = "indep",
                                            !.ops[i].exec = v.head], i)
                 ELSE v1
       IN  IF e.u.serial THEN v1 ELSE Block(v2, i + 1, fence)

BlockWindow(v) == Block([v EXCEPT !.ops[Next(v)].dep = "indep"], Next(v) + 1, FALSE)

-----------------------------------------------------------------------------
(* Dispatch *)

\* The last part of dispatchInstruction, by the kind of the micro-op; start is the
\* cycle at which its producers are done.
ExecuteOp(r, producer) ==
  LET v == r.v
      e == v.ops[Next(v)]
      start == Later(producer, v.head)
      c == Complete(v, start, e.lat, e.u.membar)
      flush == Later(CriticalPathLength(v), (v.old + ip.width - 1) \div ip.width)
      miss == [c.v EXCEPT !.ops[Next(v)].exec = v.tail]
      load == IF "D" \in e.flags THEN r
              ELSE IF LongLatencyLoad(e)
              THEN [r EXCEPT !.v = BlockWindow(ClearOldWindow(miss, v.tail + c.end - start)),
                             !.latency = @ + c.end - start]
              ELSE UpdateCriticalPath([r EXCEPT !.v = c.v], c.end)
      store == UpdateCriticalPath(r, start + 1)
  IN  IF e.u.serial
      THEN [r EXCEPT !.v = ClearOldWindow([v EXCEPT !.ops[Next(v)].exec = v.tail], v.tail),
                     !.latency = @ + flush + e.lat]
      ELSE CASE e.u.kind = "load" ->
                  [load EXCEPT !.v.maxLoad = Later(@, load.v.ops[Next(load.v)].exec)]
             [] e.u.kind = "store" ->
                  [store EXCEPT !.v.maxStore = Later(@, start + e.lat)]
             [] e.u.kind = "exec" /\ e.u.membar ->
                  UpdateCriticalPath(r, Max({producer, v.maxStore, v.maxLoad}) + e.lat)
             [] OTHER -> UpdateCriticalPath(r, start + e.lat)

\* When the producers of a micro-op in the old window are all done.
MaxProducerExecTime(v, i) == Max({v.origin} \cup {v.ops[j].exec : j \in OldProducers(v, i)})

\* dispatchInstruction: instruction cache misses and mispredicted branches that are not
\* hidden behind a load empty the old window and end the cycle.
DispatchInstruction(v0) ==
  LET v == IssueMemOp(v0, Next(v0))
      e == v.ops[Next(v)]
      producer == MaxProducerExecTime(v, Next(v))
      fetch == e.u.icache > 0 /\ "I" \notin e.flags
      v1 == IF fetch THEN ClearOldWindow(v, v.tail + e.u.icache) ELSE v
      bad == e.u.kind = "branch" /\ e.u.bad /\ "B" \notin e.flags
      penalty == ip.penalty + BranchResolutionLatency(v1)
      v2 == IF bad THEN ClearOldWindow(v1, v.tail + penalty) ELSE v1
  IN  ExecuteOp([v |-> v2, stop |-> fetch \/ bad, charged |-> TRUE,
                 latency |-> (IF fetch THEN e.u.icache ELSE 0) + (IF bad THEN penalty ELSE 0)],
                producer)

\* calculateCurrentDispatchRate
DispatchRate(v) ==
  LET ipc == (v.old * One) \div EffectiveLength(v) + v.rem
  IN  IF CriticalPathLength(v) = 0 THEN [rate |-> ip.width, rem |-> 0]
      ELSE [rate |-> ipc \div One, rem |-> IF ipc \div One < ip.width THEN ipc % One ELSE 0]

\* The loop of dispatchWindow: s counts the micro-ops and the instructions of a cycle.
RECURSIVE DispatchLoop(_, _, _)

AfterInstruction(r, rate, s) ==
  DispatchLoop(MoveToOldWindow(r.v), rate,
               [insns |-> s.insns + (IF r.v.ops[Next(r.v)].u.last THEN 1 ELSE 0),
                uops |-> s.uops + 1, stop |-> r.stop, charged |-> s.charged /\ r.charged])

DispatchLoop(v, rate, s) ==
  IF v.old = Len(v.ops) \/ s.insns >= ip.width \/ s.uops >= rate \/ s.stop
  THEN [v |-> v, s |-> s]
  ELSE AfterInstruction(DispatchInstruction(v), rate, s)

DispatchAt(v, d) ==
  DispatchLoop([v EXCEPT !.rem = d.rem], d.rate,
               [insns |-> 0, uops |-> 0, stop |-> FALSE, charged |-> TRUE])

DispatchWindow(v) == DispatchAt(v, DispatchRate(v))

\* Cycles of dispatch until the window is no longer full; spins counts those in a row
\* that dispatch nothing.
RECURSIVE DispatchWhileFull(_, _, _, _)

AfterCycle(r, spins, most, ok) ==
  LET now == IF r.s.uops = 0 THEN spins + 1 ELSE 0
  IN  DispatchWhileFull(r.v, now, Later(now, most), ok /\ r.s.charged)

DispatchWhileFull(v, spins, most, ok) ==
  IF Len(v.ops) - v.old < ip.size \/ spins > MaxSpins
  THEN [v |-> v, spun |-> Later(spins, most), charged |-> ok]
  ELSE AfterCycle(DispatchWindow(v), spins, most, ok)

Back(v, t) == Later(Past, t - v.head)

Relative(v) ==
  [v EXCEPT !.ops = [i \in DOMAIN @ |-> [@[i] EXCEPT !.exec = Back(v, @)]],
            !.head = 0, !.tail = @ - v.head, !.maxLoad = Back(v, @), !.maxStore = Back(v, @),
            !.origin = Back(v, @), !.last = Back(v, @),
            !.slots = [s \in DOMAIN @ |-> Back(v, @[s])]]

\* IntervalTimer::simulate, for one micro-op that is not squashed
Simulate(u) ==
  /\ spun <= MaxSpins
  /\ \E r \in {DispatchWhileFull([w EXCEPT !.ops = Append(@, NewEntry(u))], 0, 0, TRUE)} :
       w' = Relative(r.v) /\ spun' = r.spun /\ charged' = r.charged
  /\ UNCHANGED ip

IntervalNext == \E u \in ip.uops : Simulate(u)

IntervalSpec == IntervalInit /\ [][IntervalNext]_intervalVars

-----------------------------------------------------------------------------

\* Neither window ever holds more micro-ops than its size, so that the two fit in the
\* double window, and there is always room for the next micro-op ("Window is full").
IntervalTypeOK ==
  /\ ip \in IntervalConfigs
  /\ w.old \in 0 .. ip.size
  /\ Len(w.ops) - w.old \in 0 .. ip.size - 1
  /\ w.rem \in 0 .. One - 1
  /\ spun \in Nat /\ charged \in BOOLEAN

\* The critical path is exactly as long as what the micro-ops of the old window were
\* recorded to add to it, and m_cpcontr_total and the uses of the ports are the sums
\* over the old window, whichever micro-ops left it or emptied it.
CriticalPathIsSum ==
  /\ w.tail - w.head = w.total
  /\ w.total = MapThenSumSet(LAMBDA i : w.ops[i].contr, 1 .. w.old)
  /\ \A p \in Port : w.use[p] = Cardinality({i \in 1 .. w.old : w.ops[i].u.port = p})

\* The loop of simulate comes to an end: a full window waits at most as many cycles as
\* the longest critical path for its next dispatch.
WindowDrains == spun <= ip.size * ip.cutoff

\* The micro-ops of the window whose results micro-op i uses, directly or not.
RECURSIVE Uses(_, _)
Uses(v, i) == LET p == WindowProducers(v, i) IN p \cup UNION {Uses(v, j) : j \in p}

\* A load whose miss is hidden behind an earlier one does not use, directly or through
\* other micro-ops of the window, the result of a long-latency load that is still to
\* pay for its own miss, and no memory barrier stands before it in the window.
HiddenLoadsIndependent ==
  \A i \in Next(w) .. Len(w.ops) :
    "D" \in w.ops[i].flags =>
      /\ \A j \in Uses(w, i) : LongLatencyLoad(w.ops[j]) => "D" \in w.ops[j].flags
      /\ \A j \in Next(w) .. i : ~w.ops[j].u.membar

\* The latency of the longest chain of producers that leads to micro-op i.
RECURSIVE LongestChain(_, _)
LongestChain(v, i) ==
  Max({0} \cup {v.ops[j].lat + LongestChain(v, j) : j \in OldProducers(v, i)})

\* The time to resolve the branch to dispatch next is the longest chain of producers of
\* the old window that leads to it.
ResolutionIsLongestChain ==
  w.old < Len(w.ops) => BranchResolutionLatency(w) = LongestChain(w, Next(w))

\* A micro-op that extends the critical path by the long-latency cutoff or more has its
\* latency added directly when the old window is emptied for it.
LongLatencyCharged == charged
=============================================================================
