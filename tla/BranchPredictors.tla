------------------------- MODULE BranchPredictors -------------------------
(* The branch predictors of a core: the Pentium M predictor (a global         *)
(* predictor over the path history, a loop predictor behind a branch target   *)
(* buffer, a bimodal table) and the one-bit predictor. One set of each table  *)
(* is modelled: branches are told apart by their tags.                        *)
(* src/common/performance_model/branch_predictors/                            *)
EXTENDS Integers, Sequences, FiniteSets, Bitwise

CONSTANTS
    BpConfigs,    \* records [type, ips, ways, pir, tags, runs, visits]: pir and tags are
                  \* the sizes of the path history and of the global tags, runs the
                  \* longest run of one outcome (a named bound on the counters),
                  \* visits how often branches other than 1 are executed
    MaxSame       \* named bound: identical loops in a row that are counted

VARIABLES
    bc,           \* the configuration
    bp,           \* the predictor
    seen          \* [ip, taken, correct, streak, loop]: the last branch, how often
                  \* in a row it had this outcome, and the loop it is in
bpVars == <<bc, bp, seen>>

--------------------------------------------------------------------------
(* Saturating counters of n bits. *)

Predict(c) == c >= 0
Reset(n, taken) == IF taken THEN 2^(n - 1) - 1 ELSE 0 - 2^(n - 1)

UpdateCounter(n, c, taken) ==
    IF taken THEN (IF c # 2^(n - 1) - 1 THEN c + 1 ELSE c)
             ELSE (IF c # 0 - 2^(n - 1) THEN c - 1 ELSE c)

(* Tables: [way, uses], ways with a tag and the time of their last use. The   *)
(* times are kept by rank, ties included: every lru starts at 0, and so does  *)
(* the use count, so the first use is no later than none.                     *)

Ways == 0..(bc.ways - 1)
LruWay(t) == CHOOSE w \in Ways : \A v \in Ways :
                 t.way[w].lru < t.way[v].lru \/ (t.way[w].lru = t.way[v].lru /\ w =< v)

Use(t, w) ==
    LET lru == [v \in Ways |-> IF v = w THEN t.uses ELSE t.way[v].lru]
        rank == [v \in Ways |-> Cardinality({lru[x] : x \in {y \in Ways : lru[y] < lru[v]}})]
    IN  [way |-> [v \in Ways |-> [t.way[v] EXCEPT !.lru = rank[v]]], uses |-> rank[w] + 1]

\* The first way that satisfies P, or -1.
FirstWay(t, P(_)) ==
    LET S == {w \in Ways : P(t.way[w])}
    IN  IF S = {} THEN 0 - 1 ELSE CHOOSE w \in S : \A v \in S : w =< v

--------------------------------------------------------------------------
(* The global predictor. *)

GlobalTag(ip, pir) == (ip ^^ pir) % bc.tags

GlobalHit(t, tag) == FirstWay(t, LAMBDA e : e.valid /\ e.tag = tag)

GlobalUpdate(t, tag, taken) ==
    LET w == GlobalHit(t, tag)
        v == IF w >= 0 THEN w ELSE LruWay(t)
    IN  Use([t EXCEPT !.way[v] =
                [valid |-> TRUE, tag |-> tag, lru |-> @.lru,
                 counter |-> IF w >= 0 THEN UpdateCounter(2, @.counter, taken)
                             ELSE Reset(2, taken)]], v)

GlobalEvict(t, tag) ==
    LET w == GlobalHit(t, tag)
    IN  IF w < 0 THEN t ELSE [t EXCEPT !.way[w].valid = FALSE]

--------------------------------------------------------------------------
(* The branch target buffer and the loop predictor. Their entries have no     *)
(* valid bit: tag 0 matches an entry never used.                              *)

TargetHit(t, ip) == FirstWay(t, LAMBDA e : e.tag = ip)

TargetUpdate(t, ip) ==
    LET w == IF TargetHit(t, ip) >= 0 THEN TargetHit(t, ip) ELSE LruWay(t)
    IN  Use([t EXCEPT !.way[w].tag = ip], w)

LoopHit(t, ip) == FirstWay(t, LAMBDA e : e.enabled /\ e.tag = ip)

\* A loop entry expects its direction, and the opposite one at the limit.
LoopPrediction(e) == (e.count = e.limit) # Predict(e.counter)

\* Going on in the same direction: [count, limit, enabled].
SameDirection(e, taken) ==
    IF taken = LoopPrediction(e)
    THEN [e EXCEPT !.count = IF e.count = e.limit THEN 0 ELSE e.count + 1]
    ELSE IF e.count < e.limit
         THEN [e EXCEPT !.count = 0, !.limit = e.count]
         ELSE [e EXCEPT !.count = e.count + 1, !.limit = e.count + 1, !.enabled = FALSE]


\* An entry that matches. Two outcomes in a row against its direction turn it
\* around; the first one after a run enables it.
LoopTrain(e, taken) ==
    LET away == taken # Predict(e.counter)
        next == CASE away /\ e.previous = taken ->
                       [e EXCEPT !.count = 1, !.limit = 1, !.enabled = FALSE,
                                 !.counter = UpdateCounter(1, @, taken)]
                  [] away /\ e.previous # taken /\ ~e.enabled ->
                       [e EXCEPT !.enabled = TRUE, !.count = 0]
                  [] OTHER -> SameDirection(e, taken)
    IN  [next EXCEPT !.previous = taken]

\* An entry that is taken over starts a new loop. It stays enabled if it was.
LoopUpdate(t, ip, taken) ==
    LET w == TargetHit(t, ip)
        v == IF w >= 0 THEN w ELSE LruWay(t)
    IN  Use([t EXCEPT !.way[v] =
                IF w >= 0 THEN LoopTrain(@, taken)
                ELSE [@ EXCEPT !.tag = ip, !.counter = Reset(1, taken), !.previous = taken,
                               !.count = 1, !.limit = 1]], v)

--------------------------------------------------------------------------
(* The Pentium M predictor. *)

NewTable(e) == [way |-> [w \in Ways |-> e], uses |-> 0]
NewPredictor ==
    [global |-> NewTable([valid |-> FALSE, tag |-> 0, lru |-> 0, counter |-> 0]),
     target |-> NewTable([tag |-> 0, lru |-> 0]),
     loop |-> NewTable([tag |-> 0, lru |-> 0, previous |-> FALSE, enabled |-> FALSE,
                        counter |-> 0, count |-> 0, limit |-> 0]),
     bimodal |-> [ip \in bc.ips |-> Reset(2, FALSE)],
     pir |-> 0,
     bit |-> [ip \in bc.ips |-> FALSE]]

\* What predict() finds: the tables that hit, the loop table after its lookup
\* (a hit counts as a use), and the outcome.
Lookup(p, ip) ==
    LET g == GlobalHit(p.global, GlobalTag(ip, p.pir))
        l == LoopHit(p.loop, ip)
        loopHit == l >= 0 /\ TargetHit(p.target, ip) >= 0
        bimodal == Predict(p.bimodal[ip])
    IN  [global |-> g >= 0, loop |-> loopHit, bimodal |-> bimodal,
         table |-> IF l >= 0 THEN Use(p.loop, l) ELSE p.loop,
         outcome |-> CASE g >= 0 -> Predict(p.global.way[g].counter)
                       [] g < 0 /\ loopHit -> LoopPrediction(p.loop.way[l])
                       [] OTHER -> bimodal]

\* The global predictor is left alone while another table was right: it evicts
\* a wrong entry the loop or bimodal table makes up for, and takes over a
\* branch only when both failed.
UpdateGlobal(p, ip, taken, found) ==
    LET tag == GlobalTag(ip, p.pir)
        others == found.loop \/ found.bimodal = taken
    IN  CASE found.global /\ found.outcome # taken /\ others -> GlobalEvict(p.global, tag)
          [] found.global /\ ~(found.outcome # taken /\ others) ->
                 GlobalUpdate(p.global, tag, taken)
          [] ~found.global /\ found.outcome # taken /\ ~others ->
                 GlobalUpdate(p.global, tag, taken)
          [] OTHER -> p.global

\* Every branch counts as a conditional one: only a taken one enters the path.
UpdatePir(p, ip, taken) == IF taken THEN ((4 * p.pir) ^^ ip) % bc.pir ELSE p.pir

Update(p, ip, taken, found) ==
    [p EXCEPT !.target = TargetUpdate(@, ip),
              !.loop = LoopUpdate(found.table, ip, taken),
              !.bimodal[ip] = IF found.global \/ found.loop THEN @
                              ELSE UpdateCounter(2, @, taken),
              !.global = UpdateGlobal(p, ip, taken, found),
              !.pir = UpdatePir(p, ip, taken)]

--------------------------------------------------------------------------
(* One branch: Core::accessBranchPredictor predicts, then updates. *)

\* The loop a branch runs through: direction dir for length times, then once
\* the other way; same counts equal iterations in a row, pos is the place in
\* the current one.
NoLoop(taken) == [dir |-> taken, length |-> 0, same |-> 0, pos |-> 1]
LoopStep(l, taken) ==
    CASE taken = l.dir -> IF l.length > 0 /\ l.pos >= l.length
                          THEN [l EXCEPT !.pos = @ + 1, !.length = 0, !.same = 0]
                          ELSE [l EXCEPT !.pos = @ + 1]
      [] taken # l.dir /\ l.pos = 0 -> NoLoop(taken)
      [] OTHER -> [l EXCEPT !.pos = 0, !.length = l.pos,
                            !.same = IF l.pos # l.length THEN 1
                                     ELSE IF @ < MaxSame THEN @ + 1 ELSE @]

BpInit ==
    /\ bc \in BpConfigs
    /\ bp = NewPredictor
    /\ seen = [ip |-> 0, taken |-> FALSE, correct |-> TRUE, streak |-> 0, wrong |-> 0, visits |-> 0, loop |-> NoLoop(FALSE)]

Branch ==
    /\ bc.type = "pentium_m"
    /\ \E ip \in bc.ips, taken \in BOOLEAN :
          LET found == Lookup(bp, ip)
              again == ip = seen.ip
              streak == IF again /\ taken = seen.taken THEN seen.streak + 1 ELSE 1
              visits == seen.visits + (IF ip = 1 THEN 0 ELSE 1)
          IN  /\ streak =< bc.runs /\ visits =< bc.visits
              /\ bp' = Update(bp, ip, taken, found)
              /\ seen' = [ip |-> ip, taken |-> taken, correct |-> found.outcome = taken,
                          streak |-> streak, visits |-> visits,
                          wrong |-> (IF streak > 1 THEN seen.wrong ELSE 0)
                                    + (IF found.outcome = taken THEN 0 ELSE 1),
                          loop |-> IF again THEN LoopStep(seen.loop, taken) ELSE NoLoop(taken)]
    /\ UNCHANGED bc

\* The one-bit predictor.
BranchOneBit ==
    /\ bc.type = "one_bit"
    /\ \E ip \in bc.ips, taken \in BOOLEAN :
          /\ bp' = [bp EXCEPT !.bit[ip] = taken]
          /\ seen' = [seen EXCEPT !.ip = ip, !.taken = taken, !.correct = bp.bit[ip] = taken,
                       !.streak = IF ip = seen.ip /\ taken = seen.taken THEN 2 ELSE 1,
                       !.wrong = IF bp.bit[ip] = taken THEN 0 ELSE 1]
    /\ UNCHANGED bc

BpNext == Branch \/ BranchOneBit
BpSpec == BpInit /\ [][BpNext]_bpVars

--------------------------------------------------------------------------
(* The counters stay within their bits. *)
BpTypeOK ==
    /\ \A ip \in bc.ips : bp.bimodal[ip] \in -2..1
    /\ \A w \in Ways :
          /\ bp.global.way[w].counter \in -2..1
          /\ bp.loop.way[w].counter \in -1..0
          /\ bp.loop.way[w].count =< bp.loop.way[w].limit

(* A branch that goes one way all the time is mispredicted at most three times *)
(* in a row of equal outcomes, whatever the tables had learned of it and of    *)
(* the branches that share their sets: the saturating counters, the eviction   *)
(* from the global predictor and the turned-around loop entry see to it.       *)
SettlesOnConstantBranch == seen.wrong =< 3

(* A loop is learned: after three iterations of equal length in a row every    *)
(* outcome of the branch, its exit included, is predicted, whatever the tables *)
(* had learned before (the loop predictor's counter and limit, and the global  *)
(* predictor giving way to it).                                                *)
LearnsLoop ==
    seen.loop.same >= (IF seen.loop.pos = 0 THEN 4 ELSE 3) => seen.correct

(* A branch has at most one entry in the global predictor and, unless its tag  *)
(* is the 0 of unused entries, in the loop and target tables: the update finds *)
(* the entry the lookup used.                                                  *)
OneEntryPerTag ==
    \A v, w \in Ways : v # w =>
        /\ bp.global.way[v].valid /\ bp.global.way[w].valid =>
               bp.global.way[v].tag # bp.global.way[w].tag
        /\ bp.loop.way[v].tag # 0 => bp.loop.way[v].tag # bp.loop.way[w].tag
        /\ bp.target.way[v].tag # 0 => bp.target.way[v].tag # bp.target.way[w].tag
=============================================================================
