------------------------------ MODULE RobEntries ------------------------------
(***************************************************************************)
(* What the two ROB timers (rob_timer.cc, rob_smt_timer.cc) share: reorder *)
(* buffer entries, register and memory dependencies, the load and store    *)
(* queues, the issue ports, and the issue of one micro-op.                 *)
(*                                                                         *)
(* Times are cycles from now: 0 is now or earlier, Inf is MaxTime().       *)
(* Micro-ops are named by their position in the buffer instead of their    *)
(* sequence number; a commit moves every position down by one.             *)
(*                                                                         *)
(* p: the configuration.  th: a thread's buffer.  c: what threads share.   *)
(* A micro-op u has fields kind, lat, src, addr, dst (registers), mem (the *)
(* line it accesses), intra (how many micro-ops just before it, of its own *)
(* instruction, it waits for), bad (a mispredicted branch), fetch (cycles  *)
(* of its instruction cache miss), membar, serial, port and alu.           *)
(***************************************************************************)
EXTENDS Integers, Sequences, FiniteSets, SequencesExt, FiniteSetsExt

CONSTANTS Reg, Inf

Larger(a, b) == IF a > b THEN a ELSE b
Smaller(a, b) == IF a < b THEN a ELSE b

\* RobEntry::init
NewEntry(u) ==
  [u |-> u, deps |-> {}, wakes |-> {}, ready |-> Inf, readyMax |-> 0,
   addressReady |-> Inf, addressReadyMax |-> 0, producers |-> {}, done |-> Inf]

NewThread ==
  [rob |-> <<>>, n |-> 0, stalled |-> 0, inMiss |-> FALSE,
   producer |-> [r \in Reg |-> 0], membar |-> 0]

NoPorts == [used |-> {}, generic |-> 0, generic05 |-> 0]

NewShared(p) ==
  [rs |-> 0, lastStoreDone |-> 0,
   loads |-> [i \in 1 .. p.loads |-> 0], stores |-> [i \in 1 .. p.stores |-> 0],
   ports |-> NoPorts, alu |-> 0]

IsLoad(e) == e.u.kind = "load"
IsStore(e) == e.u.kind = "store"

\* Time passes by d cycles.
Later(t, d) == IF t = Inf THEN Inf ELSE Larger(t - d, 0)

ThreadLater(th, d) ==
  [th EXCEPT !.stalled = Later(@, d),
             !.rob = [i \in DOMAIN @ |->
                        [@[i] EXCEPT !.ready = Later(@, d), !.readyMax = Later(@, d),
                                     !.addressReady = Later(@, d),
                                     !.addressReadyMax = Later(@, d), !.done = Later(@, d)]]]

SharedLater(c, d) ==
  [c EXCEPT !.lastStoreDone = Later(@, d), !.alu = Later(@, d), !.ports = NoPorts,
            !.loads = [i \in DOMAIN @ |-> Later(@[i], d)],
            !.stores = [i \in DOMAIN @ |-> Later(@[i], d)]]

-----------------------------------------------------------------------------
(* Dependencies of the micro-op at position i                               *)

\* RegisterDependencies::setDependencies, source registers
RegisterProducers(th, regs) == {th.producer[r] : r \in regs} \ {0}

\* MemoryDependencies: the latest earlier store to the same line still in the buffer
MemoryProducer(th, i) ==
  LET before == {j \in 1 .. i - 1 : IsStore(th.rob[j]) /\ th.rob[j].u.mem = th.rob[i].u.mem}
  IN  IF before = {} THEN {} ELSE {Max(before)}

\* MemoryDependencies::setDependencies; a barrier that is the oldest micro-op of the
\* buffer is not counted.
MemoryDeps(th, i) ==
  LET e == th.rob[i]
      barrier == IF th.membar > 1 THEN {th.membar} ELSE {}
  IN  IF IsLoad(e) THEN MemoryProducer(th, i) \cup barrier
      ELSE IF IsStore(e) \/ e.u.membar THEN barrier ELSE {}

\* DynamicMicroOp::getDependency, intra-instruction dependencies; those already
\* committed are left out.
IntraDeps(th, i) == {j \in i - th.rob[i].u.intra .. i - 1 : j >= 1}

\* A load takes over the dependencies of the store it depends on.
Forwarded(p, th, i, deps) ==
  LET stores == {j \in deps : IsStore(th.rob[j])} IN
  IF p.forward /\ IsLoad(th.rob[i]) /\ stores # {}
  THEN LET s == Min(stores) IN (deps \ {s}) \cup th.rob[s].deps
  ELSE deps

\* The address registers of a store (setStoreAddressProducers).
WithAddressProducers(th, i) ==
  LET prods == RegisterProducers(th, th.rob[i].u.addr)
      open == {j \in prods : th.rob[j].done = Inf}
      known == Max({0} \cup {th.rob[j].done : j \in prods \ open})
  IN  IF ~IsStore(th.rob[i]) THEN th
      ELSE [th EXCEPT !.rob[i].producers = open,
                      !.rob[i].addressReadyMax = known,
                      !.rob[i].addressReady = IF open = {} THEN known ELSE Inf]

Open(th, deps) == {j \in deps : th.rob[j].done = Inf}

Dependencies(p, th, i) ==
  Forwarded(p, th, i, RegisterProducers(th, th.rob[i].u.src) \cup MemoryDeps(th, i) \cup IntraDeps(th, i))

\* addDependant: a producer that has not issued gets the micro-op on its list.
TellProducers(th, i, open) ==
  [th EXCEPT !.rob = [j \in DOMAIN @ |-> IF j \in open THEN [@[j] EXCEPT !.wakes = @ \cup {i}] ELSE @[j]]]

\* A producer that has issued already only counts with its time.
WaitFor(th, i, deps) ==
  LET open == Open(th, deps)
      known == Max({0} \cup {th.rob[j].done : j \in deps \ open})
      u == th.rob[i].u
  IN  [TellProducers(th, i, open) EXCEPT
         !.rob = [j \in DOMAIN @ |->
                    IF j # i THEN @[j]
                    ELSE [@[j] EXCEPT !.deps = open, !.readyMax = known,
                                      !.ready = IF open = {} THEN known ELSE Inf]],
         !.producer = [r \in Reg |-> IF r \in u.dst THEN i ELSE @[r]],
         !.membar = IF u.membar /\ u.kind \notin {"load", "store"} THEN i ELSE @]

\* The dependency part of RobTimer::simulate.
SetDependencies(p, th, i) == WaitFor(WithAddressProducers(th, i), i, Dependencies(p, th, i))

-----------------------------------------------------------------------------
(* The load and store queues (contention_model.cc) and the issue ports      *)

\* ContentionModel::hasFreeSlot
HasFreeSlot(q) == \E i \in DOMAIN q : q[i] <= 0

\* ContentionModel::getCompletionTime: the first free slot, or the one free first.
TakeSlot(q, lat) ==
  LET free == {i \in DOMAIN q : q[i] <= 0}
      first == {i \in DOMAIN q : \A j \in DOMAIN q : q[i] <= q[j]}
      unit == IF free # {} THEN Min(free) ELSE Min(first)
  IN  IF q = <<>> THEN q ELSE [q EXCEPT ![unit] = Larger(@, 0) + lat]

\* RobContentionNehalem::tryIssue, the ports; a port taken stays taken for the cycle
\* even when the unit behind it turns out to be busy.
TryPort(p, ports, u) ==
  LET single == [used |-> ports.used \cup {u.port},
                 generic |-> ports.generic + 1,
                 generic05 |-> IF u.port = "1" THEN ports.generic05 ELSE ports.generic05 + 1]
  IN  CASE u.port = "015" -> [ok |-> ports.generic < 3, ports |-> [ports EXCEPT !.generic = @ + 1]]
        [] u.port = "05" -> [ok |-> ports.generic05 < 2, ports |-> [ports EXCEPT !.generic05 = @ + 1]]
        [] u.port \in {"2", "34"} -> [ok |-> u.port \notin ports.used,
                                      ports |-> [ports EXCEPT !.used = @ \cup {u.port}]]
        [] OTHER -> [ok |-> /\ u.port \notin ports.used
                            /\ ports.generic < 3
                            /\ u.port = "1" \/ ports.generic05 < 2,
                     ports |-> single]

\* RobContentionNehalem::noMore
NoMorePorts(ports) == {"2", "34"} \subseteq ports.used /\ ports.generic >= 3

-----------------------------------------------------------------------------
(* Issue                                                                    *)

\* A dependant d of the micro-op at i, whose result is there in `depend' cycles.
Wake(th, d, i, depend) ==
  LET e == th.rob[d]
      deps == e.deps \ {i}
      rmax == Larger(e.readyMax, depend)
      amax == IF i \in e.producers THEN Larger(e.addressReadyMax, depend) ELSE e.addressReadyMax
      known == \A j \in e.producers \ {i} : j <= 0 \/ th.rob[j].done # Inf
  IN  [e EXCEPT !.deps = deps, !.readyMax = rmax,
                !.ready = IF deps = {} THEN rmax ELSE @,
                !.addressReadyMax = IF IsStore(e) /\ e.addressReady = Inf THEN amax ELSE @,
                !.addressReady = IF IsStore(e) /\ e.addressReady = Inf /\ known THEN amax ELSE @]

\* RobTimer::issueInstruction
IssueInstruction(p, c, th, i) ==
  LET e == th.rob[i]
      depend == IF IsStore(e) THEN 1 ELSE e.u.lat
      done == IF IsStore(e) THEN 1 ELSE e.u.lat + 1
  IN [c |-> [c EXCEPT !.rs = @ - 1,
                      !.loads = IF IsLoad(e) THEN TakeSlot(@, e.u.lat) ELSE @,
                      !.stores = IF IsStore(e) THEN TakeSlot(@, e.u.lat) ELSE @,
                      !.lastStoreDone = IF IsStore(e) THEN Larger(@, e.u.lat + 1) ELSE @,
                      !.alu = IF p.ports /\ e.u.alu > 0 THEN e.u.alu ELSE @],
      th |-> [th EXCEPT !.rob = [j \in DOMAIN @ |->
                                   IF j = i THEN [@[j] EXCEPT !.done = done]
                                   ELSE IF j \in e.wakes THEN Wake(th, j, i, depend) ELSE @[j]],
                        !.stalled = IF e.u.bad THEN p.penalty - 2 ELSE @]]

\* Bug: a barrier that waits does not hold up the memory operations behind it.
MutCanIssue(p, c, th, i, s) ==
  LET e == th.rob[i] IN
  /\ e.ready <= 0
  /\ IF e.u.serial \/ e.u.membar THEN s.head /\ c.lastStoreDone <= 0
     ELSE /\ p.ports \/ s.issued < p.width
          /\ IsLoad(e) => HasFreeSlot(c.loads) /\ ~(p.noDisambiguation /\ s.unresolved)
          /\ IsStore(e) => s.head /\ HasFreeSlot(c.stores)

\* The conditions of doIssue for the micro-op at i; s: what the walk has seen so far.
CanIssue(p, c, th, i, s) ==
  LET e == th.rob[i] IN
  /\ e.ready <= 0
  /\ ~(s.noMore /\ (IsLoad(e) \/ IsStore(e)))
  /\ IF e.u.serial \/ e.u.membar THEN s.head /\ c.lastStoreDone <= 0
     ELSE /\ p.ports \/ s.issued < p.width
          /\ IsLoad(e) => HasFreeSlot(c.loads) /\ ~(p.noDisambiguation /\ s.unresolved)
          /\ IsStore(e) => s.head /\ HasFreeSlot(c.stores)

\* The walk stops at a serializing micro-op that is ready and cannot issue.
StopsAt(c, th, i, s) ==
  LET e == th.rob[i] IN
  e.ready <= 0 /\ ~(s.noMore /\ (IsLoad(e) \/ IsStore(e))) /\ e.u.serial
    /\ ~(s.head /\ c.lastStoreDone <= 0)

Seen(s, time) == [s EXCEPT !.next = Smaller(@, time)]

IssuedBy(r, i, s) ==
  [c |-> r.c, th |-> r.th, s |-> Seen([s EXCEPT !.issued = @ + 1], r.th.rob[i].done)]

PassedBy(c, th, i, s, can) ==
  LET e == th.rob[i] IN
  [c |-> c, th |-> th,
   s |-> [s EXCEPT !.head = FALSE,
                   !.noMore = @ \/ (e.ready <= 0 /\ e.u.membar /\ ~e.u.serial /\ ~can),
                   !.unresolved = @ \/ (IsStore(e) /\ e.addressReady > 0)]]

WithPort(p, c, th, i, s, try) ==
  CASE ~try.ok -> PassedBy(c, th, i, s, TRUE)
    [] try.ok /\ th.rob[i].u.alu > 0 /\ c.alu > 0 ->
         PassedBy([c EXCEPT !.ports = try.ports], th, i, s, TRUE)
    [] OTHER -> IssuedBy(IssueInstruction(p, [c EXCEPT !.ports = try.ports], th, i), i, s)

TryMicroOp(p, c, th, i, s) ==
  CASE ~CanIssue(p, c, th, i, s) -> PassedBy(c, th, i, s, FALSE)
    [] CanIssue(p, c, th, i, s) /\ p.ports ->
         WithPort(p, c, th, i, s, TryPort(p, c.ports, th.rob[i].u))
    [] OTHER -> IssuedBy(IssueInstruction(p, c, th, i), i, s)

\* RobTimer::doIssue: the walk over the n dispatched micro-ops from position i on.
RECURSIVE Walk(_, _, _, _, _)

GoOn(p, r, i, before) ==
  IF \/ r.s.issued = before /\ p.inorder
     \/ IF p.ports THEN NoMorePorts(r.c.ports) ELSE r.s.issued = p.width
  THEN r ELSE Walk(p, r.c, r.th, i + 1, r.s)

Walk(p, c, th, i, s) ==
  IF i > th.n THEN [c |-> c, th |-> th, s |-> s]
  ELSE IF th.rob[i].done # Inf THEN Walk(p, c, th, i + 1, Seen(s, th.rob[i].done))
  ELSE IF StopsAt(c, th, i, s) THEN [c |-> c, th |-> th, s |-> Seen(s, th.rob[i].ready)]
  ELSE GoOn(p, TryMicroOp(p, c, th, i, Seen(s, th.rob[i].ready)), i, s.issued)

WalkStart == [head |-> TRUE, noMore |-> FALSE, unresolved |-> FALSE, issued |-> 0, next |-> Inf]

-----------------------------------------------------------------------------

Down(S) == {j - 1 : j \in S}

\* rob.pop(): every position moves down; what is below 1 is gone.
PopFront(th) ==
  LET less(j) == Larger(j - 1, 0) IN
  [th EXCEPT !.n = @ - 1, !.membar = less(@),
             !.producer = [r \in Reg |-> less(@[r])],
             !.rob = [i \in 1 .. Len(@) - 1 |->
                        [@[i + 1] EXCEPT !.deps = Down(@), !.wakes = Down(@),
                                         !.producers = Down(@) \ {0}]]]

\* RobTimer::doCommit: up to p.commit micro-ops that are done, in order.
RECURSIVE Commit(_, _, _)
Commit(p, th, k) ==
  IF th.rob = <<>> \/ k = p.commit \/ Head(th.rob).done > 0 THEN [th |-> th, committed |-> k]
  ELSE Commit(p, PopFront(th), k + 1)

FrontDone(th) == IF th.rob = <<>> THEN Inf ELSE Head(th.rob).done

-----------------------------------------------------------------------------
(* Properties of a buffer                                                   *)

\* Lost wake-ups: a micro-op that is not ready waits for one that has not issued and
\* has it on its dependants list.
NoLostWakeup(th) ==
  \A i \in DOMAIN th.rob :
    LET e == th.rob[i] IN
    /\ e.deps # {} => e.ready = Inf
    /\ \A j \in e.deps : j \in 1 .. i - 1 /\ th.rob[j].done = Inf /\ i \in th.rob[j].wakes

Waiting(e) == e.done = Inf

\* No load has issued past a store to the line it reads.
LoadsAfterStores(th) ==
  \A i \in DOMAIN th.rob : \A j \in 1 .. i - 1 :
    IsLoad(th.rob[i]) /\ IsStore(th.rob[j]) /\ th.rob[i].u.mem = th.rob[j].u.mem
      /\ Waiting(th.rob[j]) => Waiting(th.rob[i])

\* No memory operation has issued past a fence instruction.
FencesHold(th) ==
  \A i \in DOMAIN th.rob : \A j \in 1 .. i - 1 :
    (IsLoad(th.rob[i]) \/ IsStore(th.rob[i])) /\ th.rob[j].u.membar /\ th.rob[j].u.kind = "exec"
      /\ Waiting(th.rob[j]) => Waiting(th.rob[i])

\* The reservation stations in use by a thread.
InStations(th) == Cardinality({i \in 1 .. th.n : th.rob[i].done = Inf})

\* "Store address cannot be ready later than the whole uop is".
AddressFirst(th) ==
  \A i \in DOMAIN th.rob :
    IsStore(th.rob[i]) /\ th.rob[i].ready # Inf /\ th.rob[i].done = Inf
      => th.rob[i].addressReady <= th.rob[i].ready
=============================================================================
