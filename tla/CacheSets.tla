------------------------------ MODULE CacheSets ------------------------------
(***************************************************************************)
(* One set of a cache (Cache and CacheSet, cache/cache.cc and              *)
(* cache/cache_set.cc) under each replacement policy.  The controllers     *)
(* above it look lines up, insert lines that are not there, invalidate     *)
(* them and hold some in SHARED_UPGRADING while a message for them is in   *)
(* flight: at most config.upgrades at once, one for each other core that   *)
(* shares the cache.  Nothing depends on which line it is, so a line is    *)
(* named by the way it is in.  Two variables are history: `used' has the   *)
(* ways by the time of their last use, latest first; `taken' the way that  *)
(* the last step inserted a line into.                                     *)
(***************************************************************************)
EXTENDS ReplacementPolicies, SequencesExt

CONSTANTS Configs, Eips

VARIABLES config, set, table, used, taken, aborted

setVars == <<config, set, table, used, taken, aborted>>

SetInit ==
  /\ config \in Configs
  /\ set = NewSet(config)
  /\ table = [e \in Eips |-> 0]
  /\ used = [i \in 1 .. config.assoc |-> i - 1]
  /\ taken = {}
  /\ aborted = FALSE

Use(w) == <<w>> \o SelectSeq(used, LAMBDA v : v # w)

Occupied == {w \in Ways(config) : set.tag[w] # NoTag}

\* Cache::accessSingleLine with update_replacement: a load or a store.
AccessSingleLine(t, flag) ==
  /\ ~aborted
  /\ \E w \in Find(set, config, t) :
       /\ set' = UpdateReplacementIndex(set, config, w, flag)
       /\ used' = Use(w)
  /\ taken' = {}
  /\ UNCHANGED <<config, table, aborted>>

\* Cache::insertSingleLine of a line that missed; it takes the name of its way.
InsertSingleLine(flag, eip, lower) ==
  /\ ~aborted
  /\ \E o \in Insert(set, config, NoTag, flag, eip, lower, table) :
       /\ set' = IF o.ok THEN [o.set EXCEPT !.tag[o.way] = o.way] ELSE o.set
       /\ table' = o.table
       /\ used' = IF o.ok THEN Use(o.way) ELSE used
       /\ taken' = IF o.ok THEN {o.way} ELSE {}
       /\ aborted' = ~o.ok
  /\ UNCHANGED config

\* Cache::invalidateSingleLine
InvalidateSingleLine(t) ==
  /\ ~aborted
  /\ t \in Occupied
  /\ set' = Invalidate(set, config, t)
  /\ taken' = {}
  /\ UNCHANGED <<config, table, used, aborted>>

\* The last-level controller marks a SHARED line while it asks for ownership.
StartUpgrade(w) ==
  /\ ~aborted
  /\ Cardinality(set.upg) < config.upgrades
  /\ set.tag[w] # NoTag
  /\ w \notin set.upg
  /\ set' = [set EXCEPT !.upg = @ \cup {w}]
  /\ taken' = {}
  /\ UNCHANGED <<config, table, used, aborted>>

EndUpgrade(w) ==
  /\ ~aborted
  /\ w \in set.upg
  /\ set' = [set EXCEPT !.upg = @ \ {w}]
  /\ taken' = {}
  /\ UNCHANGED <<config, table, used, aborted>>

\* Cache::updateLoopBitCache
UpdateLoopBit(t, bit) ==
  /\ ~aborted
  /\ config.policy = "lrul3"
  /\ set' = UpdateLoopBitSet(set, config, t, bit)
  /\ taken' = {}
  /\ UNCHANGED <<config, table, used, aborted>>

\* m_state is shared by every set of every PHC cache: a sampler set elsewhere
\* trains it.
TrainElsewhere(e) ==
  /\ ~aborted
  /\ config.policy = "phc" /\ ~config.sampler
  /\ \E n \in {table[e] + 1, table[e] - 1} \cap (0 .. config.stateMax) :
       table' = [table EXCEPT ![e] = n]
  /\ taken' = {}
  /\ UNCHANGED <<config, set, used, aborted>>

\* LOG_PRINT_ERROR and LOG_ASSERT_ERROR end the simulation.
Aborted == aborted /\ UNCHANGED setVars

\* The lines that isInLowerLevelCache reports: asked for more than one attempt only.
Queried == IF config.attempts = 1 THEN {{}} ELSE SUBSET Occupied

SetNext ==
  \/ \E w \in Ways(config) :
       \/ \E flag \in {0, 1} : AccessSingleLine(w, flag) \/ UpdateLoopBit(w, flag)
       \/ InvalidateSingleLine(w) \/ StartUpgrade(w) \/ EndUpgrade(w)
  \/ \E flag \in config.flags, eip \in config.eips, lower \in Queried :
       InsertSingleLine(flag, eip, lower)
  \/ \E e \in config.eips : TrainElsewhere(e)
  \/ Aborted

SetSpec == SetInit /\ [][SetNext]_setVars

-----------------------------------------------------------------------------

\* The fields of a set stay in the ranges their C types and asserts give them.
SetTypeOK ==
  /\ config \in Configs
  /\ \A w \in Ways(config) : set.tag[w] \in {w, NoTag}
  /\ set.upg \subseteq Occupied
  /\ set.bits \in [Ways(config) -> 0 .. (IF config.policy = "srrip" THEN config.rripMax
                                         ELSE config.assoc - 1)]
  /\ set.pointer \in Ways(config)
  /\ set.cost \in [Ways(config) -> 0 .. config.costMod - 1]
  /\ table \in [Eips -> 0 .. 3]

\* m_lru_bits is the order of use: moveToMRU keeps bits[w] equal to the number of
\* ways used after w, through hits, insertions and invalidations.  Query Based
\* Selection reorders by itself and is left out.
BitsAreRecency ==
  config.policy \in Recency \ {"lru_qbs"} =>
    \A w \in Ways(config) : used[set.bits[w] + 1] = w

\* NRU resets its bits at the latest when every way is marked: the touch counter
\* stays below the associativity and is never behind the bits it stands for.
NruCounterCoversBits ==
  config.policy = "nru" =>
    /\ set.count < config.assoc
    /\ Cardinality({w \in Ways(config) : set.bits[w] = 1}) <= set.count

\* A victim is always found while no line of the set is SHARED_UPGRADING: the
\* LOG_PRINT_ERROR at the end of each search and the asserts of PLRU and SRRIP need
\* a line whose upgrade is in flight.  SRRIP with Query Based Selection is the
\* exception: each rejected way takes two visits of a round, so it gives up when the
\* rejections it allows can use up the last round.
AbortNeedsUpgrade ==
  aborted => \/ set.upg # {}
             \/ config.policy = "srrip" /\ 2 * (config.attempts - 1) >= config.assoc

\* No policy but round robin throws a line out while the set has an invalid way,
\* in either partition of PHC.
FreeWayFirstStep ==
  \A w \in Ways(config) :
    w \in taken' \cap Occupied /\ config.policy # "round_robin"
      => Occupied = Ways(config)

\* The line used last is not the victim of a policy that orders lines by their
\* use, while another line can be replaced.
LastUsedSurvivesStep ==
  \A w \in Ways(config) :
    w \in taken' \cap Occupied /\ w = used[1]
    /\ config.policy \in {"lru", "lru_new", "lrul2", "nmru", "plru"}
      => Ways(config) \ {w} \subseteq set.upg

\* A line whose upgrade is in flight is thrown out only by round robin, which
\* looks at the wrong way, and by the LRU family when nothing older than the most
\* recent line may be replaced (their search falls back on way 0).
UpgradeSurvivesStep ==
  \A w \in Ways(config) :
    w \in taken' \cap set.upg =>
      \/ config.policy = "round_robin"
      \/ /\ config.policy \in Recency \ {"mru", "nmru"}
         /\ w = 0

\* PHC puts the line of a cold trigger instruction into a full set over an STT-RAM
\* line, that of a hot one over an SRAM line, as long as no upgrade is in flight.
PartitionKeptStep ==
  \A w \in Ways(config), e \in config.eips :
    (/\ config.policy = "phc" /\ ~config.sampler
     /\ w \in taken' /\ set.upg = {} /\ Occupied = Ways(config)
     /\ \A f \in config.eips : Hot(config, f, table) = Hot(config, e, table))
      => w \in Partition(config, e, table)
=============================================================================
