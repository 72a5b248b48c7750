---------------------------- MODULE MCCaches --------------------------------
(***************************************************************************)
(* The caches of a node and the models beside them, one after another in   *)
(* one run: part names the component that runs, config its configuration.  *)
(* Both are chosen initially; the variables of the others are off.         *)
(***************************************************************************)
EXTENDS Integers, Sequences, FiniteSets

CONSTANTS Net, None, NoTag

VARIABLES
  part,   \* the component that runs
  config, \* its configuration
  \* CacheHierarchy
  line, memory, lock, pc, next, op, written, failed,
  \* CacheSets
  set, table, used, taken, aborted,
  \* Prefetchers
  flows, hist, over, list, nextPrefetch, trained, issued, now,
  \* Cheetah
  tree, left, counted, stack, expected,
  \* MemoryTracker
  allocations, allocationsSlow, mallocs

-----------------------------------------------------------------------------
\* Two cores with first- and second-level caches and one last-level cache
\* below them; each configuration adds one thing to the plain stack.
HierarchyCaches == {"L1a", "L1b", "L2a", "L2b", "L3"}
Addr == {"a", "b"}
HierarchyConfigs ==
  LET Plain == [l1 |-> <<"L1a", "L1b">>,
                next |-> [n \in HierarchyCaches |->
                            CASE n = "L1a" -> "L2a" [] n = "L1b" -> "L2b"
                              [] n = "L3" -> None [] OTHER -> "L3"],
                ways |-> [n \in HierarchyCaches |-> 1],
                writethrough |-> {}, perfect |-> {}, passthrough |-> {}, incoherent |-> {},
                prefetch |-> {}, direct |-> TRUE, atomics |-> FALSE, outside |-> FALSE,
                kinds |-> {"READ", "WRITE"}, addrs |-> [c \in 1..2 |-> Addr]]
      \* room for both addresses below the first level; core 2 uses one of them
      Wide == [Plain EXCEPT !.ways = [n \in HierarchyCaches |->
                                        IF n \in {"L1a", "L1b"} THEN 1 ELSE 2],
                            !.addrs[2] = {"a"}]
      Directory == [Wide EXCEPT !.direct = FALSE]
  IN {Plain,
      [Plain EXCEPT !.atomics = TRUE, !.addrs[2] = {"a"}, !.kinds = {"READ", "READ_EX", "WRITE"}],
      [Plain EXCEPT !.writethrough = {"L1a", "L1b"}, !.atomics = TRUE],
      Directory,
      \* other nodes ask for the line that both cores use
      [Directory EXCEPT !.outside = TRUE, !.addrs[1] = {"a"}],
      [Wide EXCEPT !.prefetch = {"L2a"}],
      \* two hardware threads of one core
      [Wide EXCEPT !.l1 = <<"L1a", "L1a">>],
      \* a second-level cache that both cores share
      [Wide EXCEPT !.next["L1b"] = "L2a"],
      [Wide EXCEPT !.passthrough = {"L2a"}],
      [Plain EXCEPT !.perfect = {"L1a", "L1b"}]}

\* Every replacement policy, with and without attempts that are refused and
\* lines that are being upgraded.
SetConfigs ==
  LET Base == [policy |-> "lru", assoc |-> 3, attempts |-> 1, upgrades |-> 1, rripMax |-> 3,
               sram |-> 1, sampler |-> FALSE, stateMax |-> 3, stateThreshold |-> 2,
               threshold |-> 1, ew |-> 3, costMod |-> 4, flags |-> {100}, eips |-> {0}]
  IN {[Base EXCEPT !.policy = p] :
        p \in {"lru", "lru_new", "nru", "mru", "nmru", "random", "round_robin", "lrul3"}}
     \cup {[Base EXCEPT !.policy = "lrul2", !.flags = {0, 1, 100}],
           [Base EXCEPT !.policy = "lru_qbs", !.attempts = 3],
           [Base EXCEPT !.policy = "srrip", !.upgrades = 0],
           [Base EXCEPT !.policy = "srrip", !.upgrades = 0, !.attempts = 2],
           [Base EXCEPT !.policy = "srrip", !.assoc = 2, !.attempts = 2],
           [Base EXCEPT !.policy = "plru", !.assoc = 4],
           [Base EXCEPT !.policy = "phc", !.upgrades = 0, !.sampler = TRUE],
           [Base EXCEPT !.policy = "phc", !.eips = {0, 1}]}

\* The simple prefetcher, with and without page limit, and the history buffer.
PrefetchConfigs ==
  LET Simple == [type |-> "simple", flows |-> 2, page |-> 4, number |-> 3, stopAtPage |-> TRUE,
                 ghb |-> 1, table |-> 1, width |-> 2, depth |-> 2, maxTime |-> 2, again |-> BOOLEAN,
                 addresses |-> {0, 1, 3, 4, 6}, present |-> {{}, {4}}]
  IN {Simple,
      [Simple EXCEPT !.stopAtPage = FALSE, !.flows = 1, !.number = 4],
      [Simple EXCEPT !.type = "ghb", !.flows = 1, !.ghb = 2, !.table = 2, !.addresses = {0, 1},
                     !.present = {{}}, !.maxTime = 0, !.again = {TRUE}]}

\* Up to four ways; one tree for four sets, and one for two with a cache of two.
SimulatedCaches == {[ways |-> 2, depth |-> 2, setBits |-> 0, lines |-> {0, 1, 2, 4, 6}],
                   [ways |-> 2, depth |-> 1, setBits |-> 1, lines |-> {0, 1, 2, 4, 6}]}

\* Allocations of up to three and a half lines that do not overlap live ones.
AllocationConfigs == {[any |-> FALSE, sizes |-> 1 .. 7]}

-----------------------------------------------------------------------------
H == INSTANCE CacheHierarchy WITH
       NumCores <- 2, Values <- 2, Caches <- HierarchyCaches, Configs <- HierarchyConfigs
S == INSTANCE CacheSets WITH Eips <- {0, 1}, Configs <- SetConfigs
P == INSTANCE Prefetchers WITH
       Prefetch <- PrefetchConfigs, AddrMod <- 8, MaxQueue <- 2, pf <- config, next <- nextPrefetch
K == INSTANCE Cheetah WITH CheetahConfigs <- SimulatedCaches, InvalidTag <- 16, gb <- config
A == INSTANCE MemoryTracker WITH
       TrackerConfigs <- AllocationConfigs, LineSize <- 2, NumLines <- 4, Site <- {1, 2, 3},
       Nobody <- 0, MaxMallocs <- 4, kc <- config

hierVars ==
  <<line, memory, lock, pc, next, op, written, failed>>
replVars ==
  <<set, table, used, taken, aborted>>
prefVars ==
  <<flows, hist, over, list, nextPrefetch, trained, issued, now>>
simVars ==
  <<tree, left, counted, stack, expected>>
allocVars ==
  <<allocations, allocationsSlow, mallocs>>

vars == <<part, config, hierVars, replVars, prefVars, simVars, allocVars>>

Off(v) == v = "off"
hierOff ==
  /\ Off(line) /\ Off(memory) /\ Off(lock) /\ Off(pc) /\ Off(next) /\ Off(op)
  /\ Off(written) /\ Off(failed)
replOff ==
  /\ Off(set) /\ Off(table) /\ Off(used) /\ Off(taken) /\ Off(aborted)
prefOff ==
  /\ Off(flows) /\ Off(hist) /\ Off(over) /\ Off(list) /\ Off(nextPrefetch)
  /\ Off(trained) /\ Off(issued) /\ Off(now)
simOff ==
  /\ Off(tree) /\ Off(left) /\ Off(counted) /\ Off(stack) /\ Off(expected)
allocOff ==
  /\ Off(allocations) /\ Off(allocationsSlow) /\ Off(mallocs)

Parts == {"hierarchy", "set", "prefetcher", "cheetah", "tracker"}

Init ==
  /\ part \in Parts
  /\ IF part = "hierarchy" THEN H!Init ELSE hierOff
  /\ IF part = "set" THEN S!SetInit ELSE replOff
  /\ IF part = "prefetcher" THEN P!PfInit ELSE prefOff
  /\ IF part = "cheetah" THEN K!CheetahInit ELSE simOff
  /\ IF part = "tracker" THEN A!TrackerInit ELSE allocOff

\* Only component p takes a step.
Only(p) ==
  /\ part = p /\ UNCHANGED part
  /\ IF p = "hierarchy" THEN TRUE ELSE UNCHANGED hierVars
  /\ IF p = "set" THEN TRUE ELSE UNCHANGED replVars
  /\ IF p = "prefetcher" THEN TRUE ELSE UNCHANGED prefVars
  /\ IF p = "cheetah" THEN TRUE ELSE UNCHANGED simVars
  /\ IF p = "tracker" THEN TRUE ELSE UNCHANGED allocVars

\* The number of allocations is bounded.
MayStop == {"tracker"}

Next ==
  \/ Only("hierarchy") /\ H!Step
  \/ Only("set") /\ S!SetNext
  \/ Only("prefetcher") /\ P!PfNext
  \/ Only("cheetah") /\ K!CheetahAccess
  \/ Only("tracker") /\ A!TrackerNext
  \/ part \in MayStop /\ UNCHANGED vars

Spec == Init /\ [][Next]_vars

-----------------------------------------------------------------------------
\* Every component's variables have their types.
TypeOK ==
  CASE part = "hierarchy" -> H!TypeOK
    [] part = "set" -> S!SetTypeOK
    [] part = "prefetcher" -> P!PfTypeOK
    [] part = "tracker" -> A!TrackerTypeOK
    [] OTHER -> TRUE

\* The two cores never lose a write, never write a line both, keep what a
\* private cache holds in the shared one, take their locks in an order
\* without cycles and fail no assertion, whatever misses, evictions and
\* snoops overlap.
HierarchyCoherent ==
  part = "hierarchy" => /\ H!AssertionsHold
                        /\ H!Inclusive
                        /\ H!NoLostUpdate
                        /\ H!OneWriter
                        /\ H!NoLockCycle


\* The load and the store of an atomic instruction have no write of the
\* other core between them.
AtomicPairStep == part = "hierarchy" => H!AtomicPairStep
AtomicPair == [][AtomicPairStep]_vars

\* A replacement takes a free way first, never the line used last, never a
\* line that waits for its upgrade, and never a way of the other partition.
VictimSoundStep ==
  part = "set" => /\ S!FreeWayFirstStep
                  /\ S!LastUsedSurvivesStep
                  /\ S!UpgradeSurvivesStep
                  /\ S!PartitionKeptStep
VictimSound == [][VictimSoundStep]_vars
=============================================================================
