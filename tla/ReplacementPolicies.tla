------------------------- MODULE ReplacementPolicies -------------------------
(***************************************************************************)
(* The replacement policies of a cache set (cache/cache_set*.cc), as       *)
(* operators on a record s that holds one set:                             *)
(*   tag[w]    the tag in way w, NoTag when the way is invalid             *)
(*   upg       the ways whose line is in state SHARED_UPGRADING            *)
(*   bits[w]   m_lru_bits or m_rrip_bits                                   *)
(*   pointer   m_replacement_pointer or m_replacement_index                *)
(*   count     m_num_bits_set (NRU)                                        *)
(*   tree[k]   the bits b[k] of PLRU                                       *)
(*   loop[w]   loop_bit_l2 or loop_bit_l3                                  *)
(*   cost[w], ti[w]   m_cost and m_TI (PHC)                                *)
(* and a record p with the parameters of the cache.  getReplacementIndex   *)
(* has the set of its possible outcomes as value: RANDOM has several.      *)
(***************************************************************************)
EXTENDS Integers, Sequences, FiniteSets

CONSTANT NoTag

\* The recency-ordered policies keep a permutation of the ways in bits.
Recency == {"lru", "lru_qbs", "lru_new", "lrul2", "lrul3", "phc", "mru", "nmru"}

Ways(p) == 0 .. p.assoc - 1

NewSet(p) ==
  [tag |-> [w \in Ways(p) |-> NoTag], upg |-> {},
   bits |-> [w \in Ways(p) |-> CASE p.policy \in Recency -> w
                                 [] p.policy = "srrip" -> p.rripMax - 1
                                 [] OTHER -> 0],
   pointer |-> IF p.policy = "round_robin" THEN p.assoc - 1 ELSE 0,
   count |-> 0, tree |-> [k \in 0 .. 6 |-> 0], loop |-> [w \in Ways(p) |-> 0],
   cost |-> [w \in Ways(p) |-> 0], ti |-> [w \in Ways(p) |-> 0]]

\* CacheSet::find looks from the last way down.
Find(s, p, t) == {w \in Ways(p) : s.tag[w] = t /\ \A v \in Ways(p) : s.tag[v] = t => v <= w}

\* Bug: every line may be replaced.
MutIsValidReplacement(s, w) == w \in DOMAIN s.tag

IsValidReplacement(s, w) == w \notin s.upg

InvalidWays(s, from) == {w \in from : s.tag[w] = NoTag}

First(ws) == CHOOSE w \in ws : \A v \in ws : w <= v

Found(w, s, table) == {[way |-> w, set |-> s, table |-> table, ok |-> TRUE]}

Aborts(s, table) == {[way |-> 0, set |-> s, table |-> table, ok |-> FALSE]}

\* Bug: the ways as recent as the accessed one are aged too.
MutMoveToMRU(s, p, w) ==
  [s EXCEPT !.bits = [v \in Ways(p) |-> IF v = w THEN 0
                                        ELSE IF @[v] <= @[w] + 1 THEN @[v] + 1 ELSE @[v]]]

MoveToMRU(s, p, w) ==
  [s EXCEPT !.bits = [v \in Ways(p) |-> IF v = w THEN 0
                                        ELSE IF @[v] < @[w] THEN @[v] + 1 ELSE @[v]]]

\* CacheSetNRU::updateReplacementIndex counts the touches, not the bits.
TouchNRU(s, p, w) ==
  IF s.count + 1 = p.assoc
  THEN [s EXCEPT !.count = 0, !.bits = [v \in Ways(p) |-> 0]]
  ELSE [s EXCEPT !.count = @ + 1, !.bits[w] = 1]

\* The bits that lead to way w in the tree of PLRU, with their values.
PlruPath(p, w) ==
  IF p.assoc = 4
  THEN {<<0, w \div 2>>, <<1 + w \div 2, w % 2>>}
  ELSE {<<0, w \div 4>>, <<1 + 3 * (w \div 4), (w \div 2) % 2>>,
        <<2 + 3 * (w \div 4) + ((w \div 2) % 2), w % 2>>}

TouchPLRU(s, p, w) ==
  LET path == PlruPath(p, w) IN
  [s EXCEPT !.tree = [k \in 0 .. 6 |-> IF \E e \in path : e[1] = k
                                       THEN 1 - (CHOOSE e \in path : e[1] = k)[2] ELSE @[k]]]

\* CacheSetPHC::updateReplacementIndex: m_cost is a byte and wraps.
ChargePHC(s, p, w, flag) ==
  CASE flag = 1 -> [s EXCEPT !.cost[w] = (@ + p.ew) % p.costMod]
    [] flag = 0 -> [s EXCEPT !.cost[w] = (@ + p.costMod - 1) % p.costMod]
    [] OTHER    -> s

\* updateReplacementIndex of every policy: way w was read (flag 0) or written
\* (flag 1); other values of the flag come from the policies themselves.
UpdateReplacementIndex(s, p, w, flag) ==
  CASE p.policy = "nru"  -> TouchNRU(s, p, w)
    [] p.policy = "plru" -> TouchPLRU(s, p, w)
    [] p.policy = "srrip" -> [s EXCEPT !.bits[w] = IF @ > 0 THEN @ - 1 ELSE 0]
    [] p.policy = "phc" /\ p.sampler -> ChargePHC(MoveToMRU(s, p, w), p, w, flag)
    [] p.policy = "lrul2" /\ flag = 1 -> MoveToMRU([s EXCEPT !.loop[w] = 0], p, w)
    [] p.policy \in Recency -> MoveToMRU(s, p, w)
    [] OTHER -> s     \* random, round_robin

\* The oldest replaceable way among from, way 0 when there is none but the
\* most recently used one.
OldestOf(s, from) ==
  LET older == {w \in from : s.bits[w] > 0 /\ IsValidReplacement(s, w)} IN
  IF older = {} THEN 0 ELSE CHOOSE w \in older : \A v \in older : s.bits[v] <= s.bits[w]

\* The attempts of Query Based Selection: a victim that a cache closer to the
\* core holds becomes the most recent way, and the next attempt is made.
RECURSIVE OldestNotBelow(_, _, _, _, _)
OldestNotBelow(s, p, from, lower, attempt) ==
  LET w == OldestOf(s, from)
      moved == MoveToMRU(s, p, w)
  IN  IF attempt < p.attempts - 1 /\ s.tag[w] \in lower
      THEN OldestNotBelow(moved, p, from, lower, attempt + 1)
      ELSE [way |-> w, set |-> moved]

VictimLRU(s, p, lower, table) ==
  LET inv == InvalidWays(s, Ways(p))
      v == OldestNotBelow(s, p, Ways(p), lower, 0)
  IN  IF inv # {} THEN Found(First(inv), MoveToMRU(s, p, First(inv)), table)
                  ELSE Found(v.way, v.set, table)

\* CacheSetLRUL2: the loop bit of the line that arrives is the hit flag.
SetLoop(s, w, flag) == IF flag \in {0, 1} THEN [s EXCEPT !.loop[w] = flag] ELSE s

VictimLRUL2(s, p, flag, lower, table) ==
  {[o EXCEPT !.set = SetLoop(@, o.way, flag)] : o \in VictimLRU(s, p, lower, table)}

\* CacheSetLRUL3 looks among the lines with no loop bit first.  The last attempt
\* of that search always returns, with way 0 when it found nothing, so the
\* second search of the function is never made.
VictimLRUL3(s, p, lower, table) ==
  LET inv == InvalidWays(s, Ways(p))
      v == OldestNotBelow(s, p, {w \in Ways(p) : s.loop[w] = 0}, lower, 0)
  IN  IF inv # {}
      THEN Found(First(inv), MoveToMRU([s EXCEPT !.loop[First(inv)] = 0], p, First(inv)), table)
      ELSE Found(v.way, v.set, table)

\* Training of the predictor of PHC when a line of a sampler set is replaced.
Train(s, p, w, table) ==
  LET t == s.ti[w] IN
  CASE s.cost[w] > p.threshold /\ table[t] < p.stateMax -> [table EXCEPT ![t] = @ + 1]
    [] s.cost[w] < p.threshold /\ table[t] > 0          -> [table EXCEPT ![t] = @ - 1]
    [] OTHER -> table

VictimSampler(s, p, eip, lower, table) ==
  LET inv == InvalidWays(s, Ways(p))
      v == OldestNotBelow(s, p, 0 .. p.sram - 1, lower, 0)
      w == IF inv # {} THEN First(inv) ELSE v.way
      moved == IF inv # {} THEN MoveToMRU(s, p, w) ELSE v.set
  IN  Found(w, [moved EXCEPT !.ti[w] = eip, !.cost[w] = p.ew], Train(s, p, w, table))

Hot(p, eip, table) == table[eip] >= p.stateThreshold

\* The ways a line goes to: SRAM for a hot trigger instruction, STT-RAM for a
\* cold one.
Partition(p, eip, table) ==
  IF Hot(p, eip, table) THEN 0 .. p.sram - 1 ELSE p.sram .. p.assoc - 1

VictimOrdinary(s, p, eip, lower, table) ==
  LET own == InvalidWays(s, Partition(p, eip, table))
      inv == IF own # {} THEN own ELSE InvalidWays(s, Ways(p))
      v == OldestNotBelow(s, p, Partition(p, eip, table), lower, 0)
  IN  IF inv # {} THEN Found(First(inv), MoveToMRU(s, p, First(inv)), table)
      ELSE Found(v.way, v.set, table)

VictimPHC(s, p, eip, lower, table) ==
  IF p.sampler THEN VictimSampler(s, p, eip, lower, table)
               ELSE VictimOrdinary(s, p, eip, lower, table)

\* The ways in the order in which a replacement pointer visits them.
Round(s, p) == [i \in 1 .. p.assoc |-> (s.pointer + i - 1) % p.assoc]

FirstInRound(s, p, ws) ==
  LET r == Round(s, p) IN r[First({i \in 1 .. p.assoc : r[i] \in ws})]

After(p, w) == (w + 1) % p.assoc

VictimNRU(s, p, table) ==
  LET inv == InvalidWays(s, Ways(p))
      free == {w \in Ways(p) : IsValidReplacement(s, w)}
      zero == {w \in free : s.bits[w] = 0}
      ws == IF zero # {} THEN zero ELSE free
      w == FirstInRound(s, p, ws)
  IN  CASE inv # {} -> Found(First(inv), TouchNRU(s, p, First(inv)), table)
        [] inv = {} /\ ws # {} ->
             Found(w, TouchNRU([s EXCEPT !.pointer = After(p, w)], p, w), table)
        [] OTHER -> Aborts(s, table)

\* CacheSetMRU takes the most recent line that may be replaced.
VictimMRU(s, p, table) ==
  LET inv == InvalidWays(s, Ways(p))
      free == {w \in Ways(p) : IsValidReplacement(s, w)}
      w == CHOOSE v \in free : \A u \in free : s.bits[v] <= s.bits[u]
  IN  CASE inv # {} -> Found(First(inv), MoveToMRU(s, p, First(inv)), table)
        [] inv = {} /\ free # {} -> Found(w, MoveToMRU(s, p, w), table)
        [] OTHER -> Aborts(s, table)

VictimNMRU(s, p, table) ==
  LET inv == InvalidWays(s, Ways(p))
      ws == {w \in Ways(p) : s.bits[w] # 0 /\ IsValidReplacement(s, w)}
      w == FirstInRound(s, p, ws)
  IN  CASE inv # {} -> Found(First(inv), MoveToMRU(s, p, First(inv)), table)
        [] inv = {} /\ ws # {} -> Found(w, MoveToMRU([s EXCEPT !.pointer = After(p, w)], p, w), table)
        [] OTHER -> Aborts(s, table)

VictimPLRU(s, p, table) ==
  LET inv == InvalidWays(s, Ways(p))
      w == IF inv # {} THEN First(inv)
           ELSE CHOOSE v \in Ways(p) : \A e \in PlruPath(p, v) : s.tree[e[1]] = e[2]
  IN  IF inv = {} /\ ~IsValidReplacement(s, w) THEN Aborts(s, table)
      ELSE Found(w, TouchPLRU(s, p, w), table)

\* One step of the nested search of CacheSetSRRIP: j rounds done, i ways of this
\* one visited.  A way that Query Based Selection rejects is visited again.
RECURSIVE SearchRRIP(_, _, _, _, _, _, _)
SearchRRIP(s, p, lower, table, attempt, j, i) ==
  LET w == s.pointer
      aged == [s EXCEPT !.bits = [v \in Ways(p) |-> IF @[v] < p.rripMax THEN @[v] + 1 ELSE @[v]]]
      next == [s EXCEPT !.pointer = After(p, w)]
  IN  CASE j > p.rripMax -> Aborts(s, table)
        [] j <= p.rripMax /\ i = p.assoc -> SearchRRIP(aged, p, lower, table, attempt, j + 1, 0)
        [] j <= p.rripMax /\ i < p.assoc /\ s.bits[w] < p.rripMax ->
             SearchRRIP(next, p, lower, table, attempt, j, i + 1)
        [] OTHER ->
             IF attempt < p.attempts - 1 /\ s.tag[w] \in lower
             THEN SearchRRIP([s EXCEPT !.bits[w] = 0], p, lower, table, attempt + 1, j, i + 1)
             ELSE IF IsValidReplacement(s, w)
                  THEN Found(w, [next EXCEPT !.bits[w] = p.rripMax - 1], table)
                  ELSE Aborts(s, table)

VictimSRRIP(s, p, lower, table) ==
  LET inv == InvalidWays(s, Ways(p)) IN
  IF inv # {} THEN Found(First(inv), [s EXCEPT !.bits[First(inv)] = p.rripMax - 1], table)
  ELSE SearchRRIP(s, p, lower, table, 0, 0, 0)

\* CacheSetRandom draws again until the line drawn may be replaced.
VictimRandom(s, p, table) ==
  LET inv == InvalidWays(s, Ways(p))
      free == {w \in Ways(p) : IsValidReplacement(s, w)}
  IN  CASE inv # {} -> Found(First(inv), s, table)
        [] inv = {} /\ free # {} -> UNION {Found(w, s, table) : w \in free}
        [] OTHER -> Aborts(s, table)

\* CacheSetRoundRobin returns the way the pointer was at, but looks at the state
\* of the one it moves to.
RECURSIVE VictimRoundRobin(_, _, _)
VictimRoundRobin(s, p, table) ==
  LET next == IF s.pointer = 0 THEN p.assoc - 1 ELSE s.pointer - 1
      moved == [s EXCEPT !.pointer = next]
  IN  CASE IsValidReplacement(s, next) -> Found(s.pointer, moved, table)
        [] s.upg # Ways(p) /\ ~IsValidReplacement(s, next) -> VictimRoundRobin(moved, p, table)
        [] OTHER -> Aborts(s, table)

GetReplacementIndex(s, p, flag, eip, lower, table) ==
  CASE p.policy \in {"lru", "lru_new", "lru_qbs"} -> VictimLRU(s, p, lower, table)
    [] p.policy = "lrul2" -> VictimLRUL2(s, p, flag, lower, table)
    [] p.policy = "lrul3" -> VictimLRUL3(s, p, lower, table)
    [] p.policy = "phc"   -> VictimPHC(s, p, eip, lower, table)
    [] p.policy = "nru"   -> VictimNRU(s, p, table)
    [] p.policy = "mru"   -> VictimMRU(s, p, table)
    [] p.policy = "nmru"  -> VictimNMRU(s, p, table)
    [] p.policy = "plru"  -> VictimPLRU(s, p, table)
    [] p.policy = "srrip" -> VictimSRRIP(s, p, lower, table)
    [] p.policy = "random" -> VictimRandom(s, p, table)
    [] p.policy = "round_robin" -> VictimRoundRobin(s, p, table)

\* CacheSet::insert and insert2: the new line takes the way; the line that was
\* there is handed to the caller.
Insert(s, p, t, flag, eip, lower, table) ==
  {[o EXCEPT !.set = [@ EXCEPT !.tag[o.way] = IF o.ok THEN t ELSE @,
                               !.upg = IF o.ok THEN @ \ {o.way} ELSE @]]
     : o \in GetReplacementIndex(s, p, flag, eip, lower, table)}

Invalidate(s, p, t) ==
  LET ws == Find(s, p, t) IN
  [s EXCEPT !.tag = [w \in Ways(p) |-> IF w \in ws THEN NoTag ELSE @[w]], !.upg = @ \ ws]

\* CacheSet::updateLoopBitSet, to the policy that keeps it (LRU_L3).
UpdateLoopBitSet(s, p, t, bit) ==
  LET ws == {w \in Ways(p) : s.tag[w] = t} IN
  IF p.policy = "lrul3" /\ ws # {}
  THEN [s EXCEPT !.loop[CHOOSE w \in ws : \A v \in ws : v <= w] = bit]
  ELSE s
=============================================================================
