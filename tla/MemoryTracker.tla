----------------------------- MODULE MemoryTracker -----------------------------
(***************************************************************************)
(* The memory tracker (memory_tracker.cc) tells which call site allocated  *)
(* a cache line.  m_allocations is an ordered map whose key is the first   *)
(* line that no longer belongs to the allocation; an allocation over an    *)
(* older one cuts the older one.  Frees are ignored, so that the memory    *)
(* the allocator hands out again overlaps what is in the map.              *)
(*                                                                         *)
(* allocations is m_allocations: key -> [size, site], with the sizes and   *)
(* keys in bytes; allocationsSlow is m_allocations_slow, the line by line  *)
(* map that the code keeps to check the other one (ASSERT_FIND_OWNER).     *)
(***************************************************************************)
EXTENDS Integers, FiniteSetsExt, Functions

CONSTANTS TrackerConfigs,
          LineSize, NumLines, Site, Nobody,
          MaxMallocs          \* bound on the number of allocations

VARIABLES kc, allocations, allocationsSlow, mallocs

trackerVars == <<kc, allocations, allocationsSlow, mallocs>>

Memory == 0 .. LineSize * NumLines - 1

TrackerInit ==
  /\ kc \in TrackerConfigs
  /\ allocations = [k \in {} |-> 0]
  /\ allocationsSlow = [k \in {} |-> 0]
  /\ mallocs = 0

\* std::map: upper_bound(address), assignment and erase
UpperBound(m, address) == {k \in DOMAIN m : k > address /\ \A j \in DOMAIN m : j > address => k <= j}

Assign(m, key, size, site) ==
  [k \in DOMAIN m \cup {key} |-> IF k = key THEN [size |-> size, site |-> site] ELSE m[k]]

Start(m, k) == k - m[k].size

Lower(address) == (address \div LineSize) * LineSize
Upper(address, size) == ((address + size + LineSize - 1) \div LineSize) * LineSize

\* The older allocation that ends at k and contains lower keeps what is left of it on
\* either side.
Cut(m, k, lower, upper) ==
  LET below == IF Start(m, k) < lower THEN Assign(m, lower, lower - Start(m, k), m[k].site) ELSE m IN
  IF k > upper THEN Assign(below, k, k - upper, m[k].site) ELSE Restrict(below, DOMAIN below \ {k})

\* Only the first allocation above lower is looked at.
Overwritten(m, lower, upper) ==
  LET ks == {k \in UpperBound(m, lower) : lower >= Start(m, k)} IN
  IF ks = {} THEN m ELSE Cut(m, Min(ks), lower, upper)

LogMalloc(address, size, site) ==
  LET lower == Lower(address)
      upper == Upper(address, size)
  IN  /\ allocations' = Assign(Overwritten(allocations, lower, upper), upper, upper - lower, site)
      /\ allocationsSlow' =
           [a \in DOMAIN allocationsSlow \cup {b \in lower .. upper - 1 : b % LineSize = 0} |->
              IF a \in lower .. upper - 1 THEN site ELSE allocationsSlow[a]]

\* ce_get_owner
GetOwner(address) ==
  LET ks == {k \in UpperBound(allocations, address) : address >= Start(allocations, k)} IN
  IF ks = {} THEN Nobody ELSE allocations[Min(ks)].site

-----------------------------------------------------------------------------

\* An allocation that overlaps, besides the older one it begins in, at most one that ends
\* where it ends itself.
Handled(address, size) ==
  LET lower == Lower(address)
      upper == Upper(address, size)
  IN  \A k \in DOMAIN allocations : Start(allocations, k) > lower => Start(allocations, k) >= upper \/ k = upper

Malloc ==
  /\ mallocs < MaxMallocs
  /\ \E address \in Memory, size \in kc.sizes, site \in Site :
       /\ address + size - 1 \in Memory \cup {address - 1}
       /\ kc.any \/ Handled(address, size)
       /\ LogMalloc(address, size, site)
  /\ mallocs' = mallocs + 1
  /\ UNCHANGED kc

TrackerNext == Malloc

TrackerSpec == TrackerInit /\ [][TrackerNext]_trackerVars

-----------------------------------------------------------------------------

\* The ranges of the map lie in memory.
TrackerTypeOK ==
  \A k \in DOMAIN allocations : Start(allocations, k) >= 0 /\ allocations[k].size >= 0

\* "ASSERT_FIND_OWNER: owners don't match": the ordered map and the map line by line give
\* every address the same owner, however allocations were cut by later ones.
OwnersMatch ==
  \A address \in Memory :
    GetOwner(address) = IF Lower(address) \in DOMAIN allocationsSlow
                        THEN allocationsSlow[Lower(address)] ELSE Nobody
=============================================================================
