---------------------------- MODULE DirectoryCache ----------------------------
(***************************************************************************)
(* One set of the directory cache (dram_directory_cache.cc, directory.cc)  *)
(* and the part of the directory controller that allocates and replaces    *)
(* its entries.  What a transaction does with an entry is module           *)
(* Coherence; here it ends in any number of sharers.                       *)
(***************************************************************************)
EXTENDS Integers, Sequences, FiniteSets, SequencesExt, FiniteSetsExt

CONSTANTS DirAddr, MaxSharers, MaxReqs, NoAddr,
          DirConfigs      \* associativities

VARIABLES assoc, ways, ptr, replaced, reqs, holders, stuck

dirVars == <<assoc, ways, ptr, replaced, reqs, holders, stuck>>

Entry(a, n) == [addr |-> a, sharers |-> n]

\* m_replacement_ptrs is allocated and never initialized: it starts anywhere.  It is
\* only used modulo the associativity, and so it is kept here.
DirInit ==
  /\ assoc \in DirConfigs
  /\ ways = [i \in 0 .. assoc - 1 |-> Entry(NoAddr, 0)]
  /\ ptr \in 0 .. assoc - 1
  /\ replaced = <<>>
  /\ reqs = [a \in DirAddr |-> <<>>]
  /\ holders = [a \in DirAddr |-> 0]
  /\ stuck = FALSE

State == [ways |-> ways, ptr |-> ptr, replaced |-> replaced, reqs |-> reqs, stuck |-> stuck]

WayOf(d, a) == {i \in DOMAIN d.ways : d.ways[i].addr = a}
ListOf(d, a) == {i \in DOMAIN d.replaced : d.replaced[i].addr = a}

\* DramDirectoryCache::getDirectoryEntry finds the entry in the set, or takes a free
\* one, or finds it among the replaced ones: the state after it, and the entry.
Touch(d, a) ==
  IF WayOf(d, a) = {} /\ WayOf(d, NoAddr) # {}
  THEN [d EXCEPT !.ways[Min(WayOf(d, NoAddr))] = Entry(a, 0)] ELSE d

HasEntry(d, a) == WayOf(d, a) # {} \/ ListOf(d, a) # {}

SharersOf(d, a) ==
  IF WayOf(d, a) # {} THEN d.ways[Min(WayOf(d, a))].sharers
                      ELSE d.replaced[Min(ListOf(d, a))].sharers

SetSharers(d, a, n) ==
  IF WayOf(d, a) # {} THEN [d EXCEPT !.ways[Min(WayOf(d, a))].sharers = n]
                      ELSE [d EXCEPT !.replaced[Min(ListOf(d, a))].sharers = n]

\* The first entry from the replacement pointer on with the fewest sharers, among
\* those with no request queued; NoAddr when every entry has one.
Candidate(d) ==
  LET order == [k \in 0 .. assoc - 1 |-> (k + d.ptr) % assoc]
      free == {k \in DOMAIN order : d.reqs[d.ways[order[k]].addr] = <<>>}
      fit == {k \in free :
                \A j \in free : d.ways[order[k]].sharers <= d.ways[order[j]].sharers}
  IN  IF fit = {} THEN NoAddr ELSE d.ways[order[Min(fit)]].addr

\* invalidateDirectoryEntry
Drop(d, a) == [d EXCEPT !.replaced = RemoveAt(@, Min(ListOf(d, a)))]

\* Bug: the replaced entry is dropped at once, as if nobody had the line.
MutReplace(d, a, b) ==
  LET i == Min(WayOf(d, b)) IN
  [d EXCEPT !.ways[i] = Entry(a, 0), !.reqs[b] = <<>>]

\* replaceDirectoryEntry(b, a), and processNullifyReq for b, which is over at once
\* when nobody has the line.
Replace(d, a, b) ==
  LET i == Min(WayOf(d, b))
      n == [d EXCEPT !.ways[i] = Entry(a, 0),
                     !.replaced = Append(@, d.ways[i]),
                     !.reqs[b] = Append(@, "nullify")]
  IN  IF d.ways[i].sharers = 0 THEN [Drop(n, b) EXCEPT !.reqs[b] = <<>>] ELSE n

\* processExReq/ShReq/UpgradeReqFromL2Cache up to the point where they have the
\* entry: an entry is allocated when there is none.
Process(d, a) ==
  LET e == Touch(d, a)
      b == Candidate(e)
      f == [e EXCEPT !.ptr = (@ + 1) % assoc]
  IN  IF HasEntry(e, a) THEN e
      ELSE IF b = NoAddr THEN [f EXCEPT !.stuck = TRUE]
      ELSE Replace(f, a, b)

\* processNextReqFromL2Cache
ProcessNext(d, a) ==
  LET e == [d EXCEPT !.reqs[a] = Tail(@)] IN
  IF e.reqs[a] = <<>> THEN e ELSE Process(e, a)

Commit(d) ==
  /\ ways' = d.ways /\ ptr' = d.ptr /\ replaced' = d.replaced
  /\ reqs' = d.reqs /\ stuck' = d.stuck
  /\ UNCHANGED assoc

\* handleMsgFromL2Cache for a request.
HandleRequest(a) ==
  /\ ~stuck
  /\ Len(reqs[a]) < MaxReqs
  /\ LET d == [Touch(State, a) EXCEPT !.reqs[a] = Append(@, "request")] IN
     Commit(IF Len(d.reqs[a]) = 1 THEN Process(d, a) ELSE d)
  /\ UNCHANGED holders

\* The request at the front is answered; n caches have the line afterwards.
RequestDone(a, n) ==
  /\ ~stuck
  /\ reqs[a] # <<>> /\ Head(reqs[a]) = "request"
  /\ HasEntry(State, a)
  /\ Commit(ProcessNext(SetSharers(State, a, n), a))
  /\ holders' = [holders EXCEPT ![a] = n]

\* An INV_REP or FLUSH_REP: an eviction, or the answer to a nullify, which is over
\* with the last one.
SharerGone(a) ==
  /\ ~stuck
  /\ holders[a] > 0
  /\ HasEntry(State, a)
  /\ holders' = [holders EXCEPT ![a] = @ - 1]
  /\ LET d == SetSharers(Touch(State, a), a, SharersOf(State, a) - 1) IN
     Commit(IF reqs[a] # <<>> /\ Head(reqs[a]) = "nullify" /\ SharersOf(d, a) = 0
            THEN ProcessNext(Drop(d, a), a) ELSE d)

\* LOG_ASSERT_ERROR: the process is gone.
Stuck == stuck /\ UNCHANGED dirVars

DirNext ==
  \/ \E a \in DirAddr : HandleRequest(a) \/ SharerGone(a)
  \/ \E a \in DirAddr, n \in 1 .. MaxSharers : RequestDone(a, n)
  \/ Stuck

DirSpec == DirInit /\ [][DirNext]_dirVars

-----------------------------------------------------------------------------

\* Entries and queues hold what the code puts there.
DirTypeOK ==
  /\ ways \in [0 .. assoc - 1 -> [addr : DirAddr \cup {NoAddr}, sharers : 0 .. MaxSharers]]
  /\ ptr \in 0 .. assoc - 1
  /\ replaced \in Seq([addr : DirAddr, sharers : 0 .. MaxSharers])
  /\ reqs \in [DirAddr -> Seq({"request", "nullify"})]
  /\ holders \in [DirAddr -> 0 .. MaxSharers]
  /\ stuck \in BOOLEAN

\* However entries are replaced, an address has at most one live entry among the
\* set and m_replaced_directory_entry_list, which getDirectoryEntry searches last.
OneEntryPerAddress ==
  \A a \in DirAddr : Cardinality(WayOf(State, a)) + Cardinality(ListOf(State, a)) <= 1

\* The directory stays inclusive: a line some cache holds has an entry that counts
\* its holders, also while the entry is being replaced.
HoldersAreTracked ==
  \A a \in DirAddr : holders[a] > 0 => HasEntry(State, a) /\ SharersOf(State, a) = holders[a]

\* A request being processed has its entry: the entry of a line with requests
\* queued is not replaced under them.
RequestHasEntry ==
  ~stuck => \A a \in DirAddr : reqs[a] # <<>> => HasEntry(State, a)

\* Replaced entries are exactly the ones with a nullify in progress, so every one
\* of them is deleted by its last answer (invalidateDirectoryEntry finds it).
ReplacedBeingNullified ==
  \A a \in DirAddr : ListOf(State, a) # {} <=> reqs[a] # <<>> /\ Head(reqs[a]) = "nullify"

\* However requests, answers and replacements interleave, an address has one entry,
\* which knows its holders, and which its requests and its nullification find.
SetSound ==
  OneEntryPerAddress /\ HoldersAreTracked /\ RequestHasEntry /\ ReplacedBeingNullified

\* "Cannot find a directory entry to be replaced" needs requests outstanding for
\* more addresses of the set than it has entries.
StuckOnlyWhenAllBusy ==
  stuck => Cardinality({a \in DirAddr : reqs[a] # <<>>}) > assoc
=============================================================================
