------------------------- MODULE PerformanceModel -------------------------
(* The core performance model outside its timer: the queue of dynamic         *)
(* instructions, the elapsed time of the core and the time its detailed timer *)
(* believes in, fast-forwarding, idle and pseudo-instructions, and the        *)
(* translation of an instruction into dynamic micro-ops.                      *)
(* src/common/performance_model/performance_model.cc, fastforward_            *)
(* performance_model.cc, performance_models/micro_op_performance_model.cc,    *)
(* micro_op/{instruction_decoder,micro_op,dynamic_micro_op}.cc                *)
(*                                                                            *)
(* Times are kept as a difference: lag is the elapsed time of the core minus  *)
(* the time its timer has reached. Simulating micro-ops moves both together.  *)
EXTENDS Integers, Sequences, FiniteSets, SequencesExt

CONSTANTS
    PmConfigs,    \* records [cutoff, insns, pseudo, costs]: the instructions and
                  \* pseudo-instructions of the program, the costs that occur
    QueueCap,     \* named bound: instructions queued before iterate()
    MaxLag        \* named bound: time that passes while fast-forwarding

VARIABLES
    pc,           \* the configuration
    pm,           \* [enabled, ff, detailedSync, queue, lag]
    cur           \* the micro-ops of the instruction handled last, until the
                  \* next one is queued
pmVars == <<pc, pm, cur>>

--------------------------------------------------------------------------
(* Decoding. An instruction is [ops, execs]: its memory operands, in order,   *)
(* [dir, line], and the number of execute micro-ops (at most one).            *)

Dir(insn, d) == SelectSeq(insn.ops, LAMBDA o : o.dir = d)

NewMicroOp(kind, offset, intra) ==
    [kind |-> kind, offset |-> offset, typeOffset |-> offset, intra |-> intra,
     squashed |-> FALSE, count |-> 0, first |-> FALSE, last |-> FALSE,
     seq |-> 0, deps |-> <<>>, gone |-> {}]

\* The loads, the execute (which depends on every load), then the stores
\* (which depend on the execute).
Decode(insn) ==
    LET l == Len(Dir(insn, "read"))
        s == Len(Dir(insn, "write"))
        u == [i \in 1..l |-> NewMicroOp("load", i - 1, 0)]
             \o [i \in 1..insn.execs |-> NewMicroOp("exec", i - 1, l)]
             \o [i \in 1..s |-> NewMicroOp("store", i - 1, insn.execs)]
    IN  [i \in 1..Len(u) |-> [u[i] EXCEPT !.first = (i = 1), !.last = (i = Len(u))]]

Live(u) == {i \in DOMAIN u : ~u[i].squashed}
Lowest(S) == CHOOSE x \in S : \A y \in S : x =< y
Highest(S) == CHOOSE x \in S : \A y \in S : y =< x

\* DynamicMicroOp::squash
Squash(u, i) ==
    LET v == [u EXCEPT ![i].squashed = TRUE]
    IN  IF Live(v) = {} THEN v
        ELSE [[v EXCEPT ![Lowest(Live(v))].first = TRUE]
                 EXCEPT ![Highest(Live(v))].last = TRUE]

\* A second access to a line in the same direction is squashed. The k-th read
\* belongs to the k-th load, the k-th write to the k-th store.
MatchOperands(u, insn) ==
    LET Base(d) == IF d = "read" THEN 0 ELSE Len(Dir(insn, "read")) + insn.execs
        Nth(k) == Cardinality({j \in 1..k : insn.ops[j].dir = insn.ops[k].dir})
        Again(k) == \E j \in 1..(k - 1) : insn.ops[j] = insn.ops[k]
        Match(v, k) == IF Again(k) THEN Squash(v, Base(insn.ops[k].dir) + Nth(k)) ELSE v
    IN  FoldLeft(Match, u, [k \in DOMAIN insn.ops |-> k])

\* Recomputes the offset of each micro-op in its type, and the number of
\* micro-ops it depends on, from the counts of squashed micro-ops so far.
DoSquashing(u) ==
    LET Same(i) == {j \in Live(u) : j < i /\ u[j].kind = u[i].kind}
        Count(i) == Cardinality({j \in 1..i : u[j].squashed})
        Base(i) == i - u[i].offset
    IN  [i \in DOMAIN u |->
            IF u[i].squashed THEN [u[i] EXCEPT !.count = Count(i)]
            ELSE [u[i] EXCEPT
                !.count = Count(i), !.typeOffset = Cardinality(Same(i)),
                !.intra = IF @ = 0 THEN 0
                          ELSE @ - (Count(Base(i)) - Count(Base(i) - @))]]

\* The timer numbers the micro-ops that are left. Every micro-op also depends
\* on the producer just before the instruction, number 0.
Number(u) ==
    [i \in DOMAIN u |->
        IF u[i].squashed THEN u[i]
        ELSE [u[i] EXCEPT !.seq = Cardinality({j \in Live(u) : j =< i}), !.deps = <<0>>]]

MicroOps(insn) ==
    LET u == MatchOperands(Decode(insn), insn)
    IN  Number(IF \E i \in DOMAIN u : u[i].squashed THEN DoSquashing(u) ELSE u)

\* DynamicMicroOp::getDependency
Dependencies(op) ==
    LET base == op.seq - op.typeOffset - op.intra
    IN  {base + k : k \in 0..(op.intra - 1)} \cup ToSet(op.deps)

\* DynamicMicroOp::removeDependency
RemoveDependency(op, n) ==
    LET base == op.seq - op.typeOffset - op.intra
        last == op.deps[Len(op.deps)]
    IN  IF n >= base
        THEN [op EXCEPT !.intra = op.seq - op.typeOffset - n - 1,
                        !.deps = @ \o [k \in 1..(n - base) |-> base + k - 1]]
        ELSE [op EXCEPT !.deps =
                SubSeq([k \in DOMAIN @ |-> IF @[k] = n THEN last ELSE @[k]],
                       1, Len(@) - 1)]

--------------------------------------------------------------------------
(* Time. *)

NotifyElapsedTimeUpdate(p) == [p EXCEPT !.lag = 0]
IncrementElapsedTime(p, t) == [p EXCEPT !.lag = @ + t]

IncrementIdleElapsedTime(p, t) == NotifyElapsedTimeUpdate(IncrementElapsedTime(p, t))

\* Fast-forwarding without detailed synchronisation ignores idle time: the
\* fast-forward IPC already contains it.
HandleIdleInstruction(p, t) ==
    IF p.ff /\ ~p.detailedSync THEN p ELSE IncrementIdleElapsedTime(p, t)

\* handleInstruction of a pseudo-instruction that is not idle: a TLB miss or an
\* unknown instruction serialises and is charged at once; a memory access is
\* charged at once when it is longer than the cutoff (0: no cutoff), otherwise
\* its cost is the latency of a micro-op, which the timer sees itself.
HandlePseudo(p, insn) ==
    LET atOnce == insn.kind # "memaccess" \/ (pc.cutoff > 0 /\ insn.cost > pc.cutoff)
    IN  IF insn.cost > 0 /\ atOnce
        THEN NotifyElapsedTimeUpdate(IncrementElapsedTime(p, insn.cost))
        ELSE p

PmInit ==
    /\ pc \in PmConfigs
    /\ pm = [enabled |-> FALSE, ff |-> FALSE, detailedSync |-> TRUE, queue |-> <<>>, lag |-> 0]
    /\ cur = <<>>

Enable ==
    /\ \E on \in BOOLEAN : on # pm.enabled /\ pm' = [pm EXCEPT !.enabled = on]
    /\ UNCHANGED <<pc, cur>>

\* setFastForward; a call that changes nothing returns at once.
SetFastForward ==
    /\ \E sync \in BOOLEAN :
           LET p == [pm EXCEPT !.ff = ~@, !.detailedSync = sync]
           IN  pm' = IF p.ff THEN p ELSE NotifyElapsedTimeUpdate(p)
    /\ UNCHANGED <<pc, cur>>

\* queueInstruction ignores what arrives while disabled or fast-forwarding.
QueueInstruction ==
    /\ Len(pm.queue) < QueueCap
    /\ \E insn \in pc.insns :
           pm' = IF pm.ff \/ ~pm.enabled THEN pm
                 ELSE [pm EXCEPT !.queue = Append(@, insn)]
    /\ cur' = <<>>
    /\ UNCHANGED pc

\* queuePseudoInstruction: a spawn sets the time at once, even while disabled;
\* an idle instruction is handled at once; the others wait for their turn.
QueuePseudoInstruction ==
    /\ Len(pm.queue) < QueueCap
    /\ \E kind \in pc.pseudo \cup {"spawn"}, cost \in pc.costs :
           /\ pm.lag + cost =< MaxLag
           /\ pm' = CASE kind = "spawn" -> IncrementIdleElapsedTime(pm, cost)
                      [] kind # "spawn" /\ ~pm.enabled -> pm
                      [] kind = "idle" /\ pm.enabled -> HandleIdleInstruction(pm, cost)
                      [] OTHER -> IF pm.ff THEN IncrementElapsedTime(pm, cost)
                                  ELSE [pm EXCEPT !.queue =
                                            Append(@, [kind |-> kind, cost |-> cost])]
    /\ UNCHANGED <<pc, cur>>

\* countInstructions, handleMemoryLatency and handleBranchMispredict advance
\* the time only while fast-forwarding.
CountInstructions ==
    /\ pm.ff
    /\ \E cost \in pc.costs :
           /\ pm.lag + cost =< MaxLag
           /\ pm' = IncrementElapsedTime(pm, cost)
    /\ UNCHANGED <<pc, cur>>

\* One turn of the loop of iterate(). What was queued before fast-forwarding
\* began, or before the model was disabled, is thrown away.
Iterate ==
    /\ pm.queue # <<>>
    /\ LET insn == Head(pm.queue)
           p == [pm EXCEPT !.queue = Tail(@)]
       IN  IF pm.ff \/ ~pm.enabled
           THEN pm' = p /\ UNCHANGED cur
           ELSE IF insn.kind = "instruction"
                THEN pm' = p /\ cur' = MicroOps(insn)
                ELSE pm' = HandlePseudo(p, insn) /\ cur' = <<>>
    /\ UNCHANGED pc

\* The timer takes away the dependencies of a micro-op one by one, in any order
\* (of one micro-op of an instruction: they do not touch each other's).
ProducerDone ==
    /\ \E i \in Live(cur) : \E n \in Dependencies(cur[i]) :
           /\ \A j \in DOMAIN cur \ {i} : cur[j].gone = {}
           /\ cur' = [cur EXCEPT ![i] = [RemoveDependency(@, n) EXCEPT !.gone = @ \cup {n}]]
    /\ UNCHANGED <<pc, pm>>

PmNext ==
    \/ Enable \/ SetFastForward \/ QueueInstruction \/ QueuePseudoInstruction
    \/ CountInstructions \/ Iterate \/ ProducerDone

PmSpec == PmInit /\ [][PmNext]_pmVars

--------------------------------------------------------------------------
(* The times, queue and micro-ops have the values their types allow. *)
PmTypeOK ==
    /\ pm.enabled \in BOOLEAN /\ pm.ff \in BOOLEAN /\ pm.lag \in 0..MaxLag
    /\ Len(pm.queue) =< QueueCap
    /\ \A i \in DOMAIN cur : cur[i].intra \in 0..Len(cur)

(* The detailed timer never works with a stale time: whenever instructions are *)
(* simulated in detail, the time the timer has reached is the elapsed time of  *)
(* the core, whatever spawns, idle periods, TLB misses, long memory accesses   *)
(* and fast-forward periods came before (the notifyElapsedTimeUpdate() calls). *)
TimerInStep == ~pm.ff => pm.lag = 0

\* What micro-op i depends on by the decoder's rule: an execute on the loads of
\* its instruction, a store on the execute, every micro-op on the producer 0.
Intended(u, i) ==
    LET on == CASE u[i].kind = "load" -> {}
                [] u[i].kind = "exec" -> {"load"}
                [] u[i].kind = "store" -> {"exec"}
    IN  {0} \cup {u[j].seq : j \in {k \in Live(u) : u[k].kind \in on}}

(* Squashing the micro-ops that touch a line again, renumbering, and removing  *)
(* dependencies in any order keep the dependencies of each micro-op exact:     *)
(* they are those the decoder meant, among the micro-ops that are left, minus  *)
(* those removed (doSquashing, getDependency, removeDependency).               *)
DependenciesExact ==
    \A i \in Live(cur) :
        Dependencies(cur[i]) = Intended(cur, i) \ cur[i].gone

(* An instruction keeps one first and one last micro-op, the outermost ones    *)
(* left after squashing: the timers count an instruction at its last micro-op. *)
OneFirstOneLast ==
    cur # <<>> =>
        /\ {i \in Live(cur) : cur[i].first} = {Lowest(Live(cur))}
        /\ {i \in Live(cur) : cur[i].last} = {Highest(Live(cur))}
=============================================================================
