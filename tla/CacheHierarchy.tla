--------------------------- MODULE CacheHierarchy ---------------------------
(***************************************************************************)
(* The caches above one last-level cache (CacheCntlr, one object per level *)
(* and core) and the per-set lock that lets first-level hits of different  *)
(* cores run at the same time (_SetLock).  All addresses of the model fall *)
(* into one set of that lock.                                              *)
(*                                                                         *)
(* A core thread takes its own lock of the set, looks in its first-level   *)
(* cache and, on a miss, gives its lock up and takes every lock, in order. *)
(* What it does with all of them held is one action: nobody else can see   *)
(* the caches in between.  The last level gets the line from memory        *)
(* (direct_access) or from the directory; in the second case the thread    *)
(* gives the locks up while it waits, and the network thread hands them    *)
(* back with the line.                                                     *)
(***************************************************************************)
EXTENDS Integers, FiniteSets, FiniteSetsExt

CONSTANTS
  NumCores,   \* the cores that share the last-level cache are 1..NumCores
  Addr,       \* cache lines that map to the same set
  Values,     \* a line holds the number of the last write to it, modulo Values
  Caches,     \* the cache controllers (master caches only)
  Net,        \* the network thread of the last-level cache's node
  None,
  Configs     \* the topologies and cache parameters

(***************************************************************************)
(* A configuration is a record: l1, each core's first-level cache; next,   *)
(* m_next_cache_cntlr or None; ways, the associativity; writethrough,      *)
(* perfect, passthrough and incoherent, the caches with that parameter;    *)
(* prefetch, the caches with a prefetcher; direct, whether the last level  *)
(* accesses DRAM itself; atomics, whether the application uses atomic      *)
(* instructions; outside, whether other last-level caches exist; kinds and *)
(* addrs, the operations and the addresses of each core.                   *)
(***************************************************************************)
VARIABLES
  config,     \* chosen initially, never changes
  line,       \* line[n][a]: state and contents of address a in cache n
  memory,     \* DRAM, or everything beyond the directory
  lock,       \* lock[c]: the owner of the set's m_locks[c], or None
  pc,         \* where each thread is
  next,       \* the lock acquire_exclusive takes next
  op,         \* the access each core is making
  written,    \* the value last written to each address
  failed      \* assertions that failed

vars == <<config, line, memory, lock, pc, next, op, written, failed>>

Cores == 1..NumCores
Threads == Cores \cup {Net}
Value == 0..(Values - 1)
States == {"I", "S", "U", "E", "M"}     \* "U" is SHARED_UPGRADING
Invalid == [st |-> "I", val |-> 0]

LastLevel == CHOOSE n \in Caches : n \in DOMAIN config.next /\ config.next[n] = None
NextLevel(n) == config.next[n]
Prev(n) == {m \in DOMAIN config.next : config.next[m] = n}
IsLastLevel(n) == NextLevel(n) = None

(***************************************************************************)
(* The controllers' functions compute on a record [line, mem, evicting,    *)
(* buf, bad]: the caches, the memory, the address and the buffer of the    *)
(* eviction each cache is making, and the assertions that failed.          *)
(***************************************************************************)
Stack == [line |-> line, mem |-> memory, bad |-> failed,
          evicting |-> [n \in Caches |-> None], buf |-> [n \in Caches |-> Invalid.val]]

Assert(h, cond, what) == IF cond THEN h ELSE [h EXCEPT !.bad = @ \cup {what}]

State(h, n, a) == h.line[n][a].st
SetState(h, n, a, st) == [h EXCEPT !.line[n][a].st = st]
SetValue(h, n, a, v) == [h EXCEPT !.line[n][a].val = v]
Drop(h, n, a) == [h EXCEPT !.line[n][a] = Invalid]

Readable(st) == st \in {"M", "S", "E"}
Writable(st) == st = "M"
Permissible(h, n, a, kind) ==
  IF kind = "READ" THEN Readable(State(h, n, a)) ELSE Writable(State(h, n, a))

InvalidateCacheBlock(h, n, a) ==
  Drop(Assert(h, State(h, n, a) \notin {"M", "I"}, "invalidateCacheBlock"), n, a)

\* A write-back, or a write through, into cache n: into the buffer of the
\* eviction that is under way, or into the line, which must be MODIFIED.
RECURSIVE WriteCacheBlock(_, _, _, _)

\* Bug: the eviction buffer is forgotten.
MutWriteCacheBlock(h, n, a, v) ==
  Assert(SetValue(h, n, a, v), h.evicting[n] = a \/ State(h, n, a) = "M", "writeCacheBlock")

WriteCacheBlock(h, n, a, v) ==
  LET here == IF h.evicting[n] = a
              THEN [h EXCEPT !.buf[n] = v]
              ELSE SetValue(Assert(h, State(h, n, a) = "M", "writeCacheBlock"), n, a, v)
  IN IF n \in config.writethrough THEN WriteCacheBlock(here, NextLevel(n), a, v) ELSE here

\* The previous levels first; then this cache, if it has the line: MODIFIED
\* contents go to the next level, or to the caller when taken is TRUE.
RECURSIVE UpdateCacheBlock(_, _, _, _, _)

UpdatePrevious(h, n, a, new, but) ==
  FoldSet(LAMBDA m, g : UpdateCacheBlock(g, m, a, new, FALSE), h, Prev(n) \ {but})

WriteBackModified(h, n, a, taken) ==
  LET v == h.line[n][a].val
  IN CASE State(h, n, a) # "M" -> h
       [] n \in config.writethrough -> SetState(h, n, a, "S")
       [] NextLevel(n) # None -> SetState(WriteCacheBlock(h, NextLevel(n), a, v), n, a, "S")
       [] OTHER -> SetState(Assert(h, taken, "MODIFIED data is about to get lost"), n, a, "S")

ChangeStatus(h, n, a, new) ==
  IF new # "I"
  THEN SetState(Assert(h, new \in {"S", "M"}, "cannot change block status"), n, a, new)
  ELSE IF n \in config.incoherent THEN h ELSE InvalidateCacheBlock(h, n, a)

UpdateHere(h, n, a, new, taken) ==
  IF State(h, n, a) = "I" \/ (State(h, n, a) = new /\ taken)
  THEN h ELSE ChangeStatus(WriteBackModified(h, n, a, taken), n, a, new)

UpdateCacheBlock(h, n, a, new, taken) ==
  UpdateHere(UpdatePrevious(h, n, a, new, None), n, a, new, taken)

\* The line that has to leave cache n: none while a way is free.  A line that
\* waits for its upgrade is never chosen.
Victims(h, n, a) ==
  LET valid == {b \in Addr \ {a} : State(h, n, b) # "I"}
  IN IF Cardinality(valid) < config.ways[n]
     THEN {None} ELSE {b \in valid : State(h, n, b) # "U"}

\* Gets rid of victim b, whose block is old: the previous levels write their
\* MODIFIED contents into the eviction buffer, which then goes down.
GoesDown(e, n, b, old) ==
  CASE n \in config.perfect -> e
    [] n \in config.incoherent ->
         Assert(e, n \in config.writethrough \/ old.st # "M", "throwing away dirty data")
    [] old.st # "M" -> e
    [] NextLevel(n) # None ->
         IF n \in config.writethrough THEN e
         ELSE WriteCacheBlock(e, NextLevel(n), b, e.buf[n])
    [] OTHER -> [e EXCEPT !.mem[b] = e.buf[n]]

Evict(h, n, b, old) ==
  GoesDown([UpdatePrevious([h EXCEPT !.evicting[n] = b, !.buf[n] = old.val], n, b, "I", None)
              EXCEPT !.evicting[n] = None], n, b, old)

MakeRoom(h, n, victim) ==
  IF victim = None THEN h ELSE Evict(Drop(h, n, victim), n, victim, h.line[n][victim])

AssertGone(h, n, victim) ==
  Assert(h, victim = None \/ State(h, n, victim) = "I", "evicted address did not become invalid")

InsertCacheBlock(h, n, a, st, v, victim) ==
  AssertGone(MakeRoom([Assert(h, State(h, n, a) = "I", "we already have this line")
                         EXCEPT !.line[n][a] = [st |-> st, val |-> v]], n, victim), n, victim)

\* Cache n takes the line over from its next level, in the state it has there.
CopyBlock(h, n, a, from, victim) ==
  IF State(h, n, a) # "I"
  THEN UpdateCacheBlock(h, n, a, from.st, FALSE)
  ELSE InsertCacheBlock(h, n, a, from.st, from.val, victim)

CopyDataFromNextLevel(h, n, kind, a, victim) ==
  CopyBlock(Assert(h, Permissible(h, NextLevel(n), a, kind), "data is already gone"),
            n, a, h.line[NextLevel(n)][a], victim)

\* What a cache makes of a request before it looks at its contents: a perfect
\* cache always hits, one in pass-through mode never does, except when an
\* upper level comes back for the line it asked for (count is FALSE).
TagLookup(h, n, kind, a, count, pick) ==
  LET hit == Permissible(h, n, a, kind)
      st == IF kind = "READ" THEN "S" ELSE "M"
  IN CASE ~hit /\ n \in config.perfect ->
            [h |-> IF State(h, n, a) # "I" THEN SetState(h, n, a, "M")
                   ELSE InsertCacheBlock(h, n, a, st, Invalid.val, pick[n]), hit |-> TRUE]
       [] hit /\ n \in config.passthrough /\ count -> [h |-> Drop(h, n, a), hit |-> FALSE]
       [] OTHER -> [h |-> h, hit |-> hit]

\* A request that hits: a write takes the line from the other previous caches,
\* a read makes them write their changes back and keep a SHARED copy.
SnoopSiblings(h, n, requester, kind, a) ==
  CASE kind # "READ" -> UpdatePrevious(h, n, a, "I", requester)
    [] State(h, n, a) \in {"M", "E"} -> UpdatePrevious(h, n, a, "S", requester)
    [] OTHER -> h

\* The last level misses.  EXCLUSIVE becomes MODIFIED at once; DRAM is read
\* directly; or the directory is asked, and the answer is yet to come.
LastLevelMiss(h, n, requester, kind, a, pick) ==
  CASE State(h, n, a) = "E" ->
         [h |-> SetState(UpdatePrevious(h, n, a, "I", requester), n, a, "M"), hit |-> TRUE]
    [] State(h, n, a) # "E" /\ config.direct ->
         [h |-> IF State(h, n, a) # "I" THEN SetState(h, n, a, "M")
                ELSE InsertCacheBlock(h, n, a, IF kind = "READ" THEN "S" ELSE "M",
                                      h.mem[a], pick[n]), hit |-> TRUE]
    [] OTHER ->
         [h |-> IF kind # "READ" /\ State(h, n, a) = "S" THEN SetState(h, n, a, "U") ELSE h,
          hit |-> FALSE]

RECURSIVE ProcessShmemReq(_, _, _, _, _, _, _)

UpgradeInvalidates(h, n, requester, a) ==
  IF State(h, n, a) = "S" THEN UpdatePrevious(h, n, a, "I", requester) ELSE h

ReplyFromNextLevel(below, n, kind, a, pick) ==
  [below EXCEPT !.h = IF below.hit THEN CopyDataFromNextLevel(@, n, kind, a, pick[n]) ELSE @]

DropStale(h, n, a) == IF State(h, n, a) # "I" THEN InvalidateCacheBlock(h, n, a) ELSE h

MissInCache(h, n, requester, kind, a, count, pick) ==
  IF IsLastLevel(n) THEN LastLevelMiss(h, n, requester, kind, a, pick)
  ELSE ReplyFromNextLevel(
         ProcessShmemReq(DropStale(h, n, a), NextLevel(n), n, kind, a, count, pick),
         n, kind, a, pick)

AfterLookup(look, n, requester, kind, a, count, pick) ==
  IF look.hit THEN [look EXCEPT !.h = SnoopSiblings(@, n, requester, kind, a)]
  ELSE MissInCache(UpgradeInvalidates(look.h, n, requester, a), n, requester, kind, a, count, pick)

\* processShmemReqFromPrevCache: hit is FALSE when the line is still to come
\* from the directory.
ProcessShmemReq(h, n, requester, kind, a, count, pick) ==
  AfterLookup(TagLookup(h, n, kind, a, count, pick), n, requester, kind, a, count, pick)
-----------------------------------------------------------------------------
NoOp == [kind |-> "READ", a |-> None, sig |-> "NONE"]

Init ==
  /\ config \in Configs
  /\ line = [n \in Caches |-> [a \in Addr |-> Invalid]]
  /\ memory = [a \in Addr |-> Invalid.val]
  /\ written = memory
  /\ lock = [c \in Cores |-> None]
  /\ pc = [t \in Threads |-> "idle"]
  /\ next = [t \in Threads |-> 1]
  /\ op = [t \in Threads |-> NoOp]
  /\ failed = {}

L1(c) == config.l1[c]
Path(c) == {L1(c), NextLevel(L1(c)), LastLevel}
\* The replacement policies' choices, one for each cache an access goes through.
Picks(c, a) ==
  {p \in [Path(c) -> Addr \cup {None}] : \A n \in Path(c) : p[n] \in Victims(Stack, n, a)}

LockAll(c, o) == L1(c) \in config.writethrough /\ (o.kind = "WRITE" \/ o.sig # "NONE")
\* m_smt_lock: the threads that share a first-level cache make one access at a time.
SmtLockFree(c) == \A d \in Cores \ {c} : L1(d) = L1(c) => pc[d] \in {"idle", "locked"}

Release(t) == [c \in Cores |-> IF lock[c] = t THEN None ELSE lock[c]]
Commit(h) == line' = h.line /\ memory' = h.mem /\ failed' = h.bad

\* The core makes an access: NONE, LOCK and UNLOCK for the two halves of an
\* atomic instruction, which keeps its locks in between.
Start(c, kind, a) ==
  /\ pc[c] = "idle" /\ SmtLockFree(c) /\ kind \in config.kinds /\ a \in config.addrs[c]
  /\ L1(c) \in config.incoherent => kind = "READ"     \* the instruction cache
  /\ \E sig \in {"NONE"} \cup (IF config.atomics /\ kind = "READ_EX" THEN {"LOCK"} ELSE {}) :
       LET o == [kind |-> kind, a |-> a, sig |-> sig]
       IN /\ op' = [op EXCEPT ![c] = o]
          /\ pc' = [pc EXCEPT ![c] = IF LockAll(c, o) THEN "exclusive" ELSE "shared"]
  /\ UNCHANGED <<config, line, memory, lock, next, written, failed>>

StartUnlock(c) ==
  /\ pc[c] = "locked" /\ SmtLockFree(c)
  /\ op' = [op EXCEPT ![c] = [@ EXCEPT !.kind = "WRITE", !.sig = "UNLOCK"]]
  /\ pc' = [pc EXCEPT ![c] = "lookup"]
  /\ UNCHANGED <<config, line, memory, lock, next, written, failed>>

\* Prefetch: a cache with a prefetcher asks for a line, with every lock held.
StartPrefetch(c, a) ==
  /\ pc[c] = "idle" /\ SmtLockFree(c) /\ Path(c) \cap config.prefetch # {} /\ a \in config.addrs[c]
  /\ op' = [op EXCEPT ![c] = [NoOp EXCEPT !.a = a, !.sig = "PREFETCH"]]
  /\ pc' = [pc EXCEPT ![c] = "exclusive"]
  /\ UNCHANGED <<config, line, memory, lock, next, written, failed>>

AcquireShared(c) ==
  /\ pc[c] = "shared" /\ lock[c] = None
  /\ lock' = [lock EXCEPT ![c] = c]
  /\ pc' = [pc EXCEPT ![c] = "lookup"]
  /\ UNCHANGED <<config, line, memory, next, op, written, failed>>

\* acquire_exclusive takes the locks one by one, in order.
AcquireNext(t) ==
  /\ pc[t] = "exclusive" /\ lock[next[t]] = None
  /\ lock' = [lock EXCEPT ![next[t]] = t]
  /\ IF next[t] < NumCores
     THEN next' = [next EXCEPT ![t] = @ + 1] /\ UNCHANGED pc
     ELSE /\ pc' = [pc EXCEPT ![t] = IF t # Net /\ LockAll(t, op[t]) THEN "lookup" ELSE "miss"]
          /\ next' = [next EXCEPT ![t] = 1]
  /\ UNCHANGED <<config, line, memory, op, written, failed>>

\* Bug: the first half of an atomic instruction gives the locks up.
MutAccess(h, c) ==
  LET o == op[c]
      v == (written[o.a] + 1) % Values
  IN /\ Commit(IF o.kind # "WRITE" THEN h ELSE SetValue(h, L1(c), o.a, v))
     /\ written' = IF o.kind = "WRITE" THEN [written EXCEPT ![o.a] = v] ELSE written
     /\ pc' = [pc EXCEPT ![c] = IF o.sig = "LOCK" THEN "locked" ELSE "idle"]
     /\ op' = IF o.sig = "LOCK" THEN op ELSE [op EXCEPT ![c] = NoOp]
     /\ lock' = Release(c)

\* accessCache on the first level, and the release of the locks unless this is
\* the first half of an atomic instruction.
Access(h, c) ==
  LET o == op[c]
      v == (written[o.a] + 1) % Values
      w == SetValue(h, L1(c), o.a, v)
      through == L1(c) \in config.writethrough
  IN /\ Commit(IF o.kind # "WRITE" THEN h
               ELSE IF through THEN WriteCacheBlock(w, NextLevel(L1(c)), o.a, v) ELSE w)
     /\ written' = IF o.kind = "WRITE" THEN [written EXCEPT ![o.a] = v] ELSE written
     /\ pc' = [pc EXCEPT ![c] = IF o.sig = "LOCK" THEN "locked" ELSE "idle"]
     /\ op' = IF o.sig = "LOCK" THEN op ELSE [op EXCEPT ![c] = NoOp]
     /\ lock' = CASE o.sig # "LOCK" -> Release(c)
                  [] LockAll(c, o) -> lock
                  [] OTHER -> [Release(c) EXCEPT ![c] = c]     \* downgrade

\* The first level hits: the access is made under the core's own lock.
Hit(c) ==
  /\ pc[c] = "lookup"
  /\ \E pick \in Picks(c, op[c].a) :
       LET look == TagLookup(Stack, L1(c), op[c].kind, op[c].a, TRUE, pick)
       IN look.hit /\ Access(look.h, c)
  /\ UNCHANGED <<config, next>>

\* It misses: the lock is upgraded.
LookupMiss(c) ==
  /\ pc[c] = "lookup"
  /\ LET look == TagLookup(Stack, L1(c), op[c].kind, op[c].a, TRUE, [n \in Path(c) |-> None])
     IN /\ ~look.hit
        /\ Commit(Assert(look.h, op[c].sig # "UNLOCK", "expected to find address in L1"))
  /\ IF LockAll(c, op[c])
     THEN pc' = [pc EXCEPT ![c] = "miss"] /\ UNCHANGED <<lock, next>>
     ELSE /\ pc' = [pc EXCEPT ![c] = "exclusive"]
          /\ lock' = Release(c)
          /\ UNCHANGED next
  /\ UNCHANGED <<config, op, written>>

\* Where the request of core c enters the stack, and the state before it does:
\* the first level drops the copy it cannot use.
EntryCache(c) ==
  IF op[c].sig = "PREFETCH" THEN CHOOSE n \in Path(c) : n \in config.prefetch
  ELSE NextLevel(L1(c))
Requester(c) == IF op[c].sig = "PREFETCH" THEN EntryCache(c) ELSE L1(c)
Prepared(c) ==
  IF op[c].sig = "PREFETCH" \/ State(Stack, L1(c), op[c].a) = "I" THEN Stack
  ELSE InvalidateCacheBlock(Stack, L1(c), op[c].a)

\* The line is in the next level: a prefetch is over, an access copies it.
Complete(h, c, pick) ==
  IF op[c].sig = "PREFETCH"
  THEN /\ Commit(h)
       /\ pc' = [pc EXCEPT ![c] = "idle"] /\ lock' = Release(c)
       /\ op' = [op EXCEPT ![c] = NoOp]
       /\ UNCHANGED written
  ELSE LET g == CopyDataFromNextLevel(h, L1(c), op[c].kind, op[c].a, pick[L1(c)])
       IN Access(Assert(g, Permissible(g, L1(c), op[c].a, op[c].kind), "expected to be valid in L1"), c)

\* With all locks held the request goes down the stack.  If it has to wait for
\* the directory the locks are released.
Miss(c) ==
  /\ pc[c] = "miss"
  /\ \E pick \in Picks(c, op[c].a) :
       LET req == ProcessShmemReq(Prepared(c), EntryCache(c), Requester(c),
                                  op[c].kind, op[c].a, TRUE, pick)
       IN IF req.hit THEN Complete(req.h, c, pick)
          ELSE /\ Commit(req.h)
               /\ pc' = [pc EXCEPT ![c] = "wait"]
               /\ lock' = Release(c)
               /\ UNCHANGED <<op, written>>
  /\ UNCHANGED <<config, next>>

\* The thread has been woken up with the locks and the line.
Fill(c) ==
  /\ pc[c] = "fill"
  /\ \E pick \in Picks(c, op[c].a) :
       LET req == ProcessShmemReq(Stack, EntryCache(c), Requester(c),
                                  op[c].kind, op[c].a, FALSE, pick)
       IN Complete(Assert(req.h, req.hit, "data is already gone"), c, pick)
  /\ UNCHANGED <<config, next>>

\* The network thread has a message for the stack: a reply, or a request on
\* behalf of another last-level cache.  It takes every lock first.
NetStart ==
  /\ pc[Net] = "idle" /\ ~config.direct
  /\ config.outside \/ \E c \in Cores : pc[c] = "wait"
  /\ \A c \in Cores : pc[c] # "fill"          \* it waits for the thread it woke up
  /\ pc' = [pc EXCEPT ![Net] = "exclusive"]
  /\ UNCHANGED <<config, line, memory, lock, next, op, written, failed>>

\* The directory's reply makes the last level's line fit for the waiting thread,
\* which gets the locks along with it.
NetReply(c) ==
  /\ pc[Net] = "miss" /\ pc[c] = "wait"
  /\ LET n == LastLevel
         a == op[c].a
         st == State(Stack, n, a)
     IN \E new \in IF op[c].kind # "READ" THEN {"M"}
                   ELSE {IF st \in {"I", "U"} THEN "S" ELSE st} \cup (IF st = "I" THEN {"E"} ELSE {}),
           victim \in Victims(Stack, n, a) :
          IF st = "I" THEN Commit(InsertCacheBlock(Stack, n, a, new, memory[a], victim))
          ELSE Commit(SetState(Stack, n, a, new))
  /\ lock' = [d \in Cores |-> c]
  /\ pc' = [pc EXCEPT ![Net] = "idle", ![c] = "fill"]
  /\ UNCHANGED <<config, next, op, written>>

\* The directory takes the line for another cache, which writes to it, or asks
\* for a downgrade so that another cache can read it.
NetRequest(a, new) ==
  /\ pc[Net] = "miss" /\ config.outside
  /\ LET n == LastLevel
         st == State(Stack, n, a)
         h == UpdateCacheBlock(Stack, n, a, new, TRUE)
         \* what the previous levels wrote back is in the line by then
         held == UpdatePrevious(Stack, n, a, new, None).line[n][a].val
         out == IF st = "M" THEN [h EXCEPT !.mem[a] = held] ELSE h
     IN /\ st # "I" /\ (new = "S" => st \in {"E", "M"})
        /\ IF new = "S" THEN Commit(out) /\ UNCHANGED written
           ELSE LET v == (written[a] + 1) % Values
                IN Commit([out EXCEPT !.mem[a] = v]) /\ written' = [written EXCEPT ![a] = v]
  /\ lock' = Release(Net)
  /\ pc' = [pc EXCEPT ![Net] = "idle"]
  /\ UNCHANGED <<config, next, op>>

\* Nothing to do with the message that was expected: it is for a line that has
\* been evicted, and the eviction message is under way.
NetNothing ==
  /\ pc[Net] = "miss"
  /\ \A c \in Cores : pc[c] # "wait"
  /\ lock' = Release(Net)
  /\ pc' = [pc EXCEPT ![Net] = "idle"]
  /\ UNCHANGED <<config, line, memory, next, op, written, failed>>

CoreStep(c) ==
  AcquireShared(c) \/ AcquireNext(c) \/ Hit(c) \/ LookupMiss(c) \/ Miss(c) \/ Fill(c)

NetStep == NetStart \/ AcquireNext(Net) \/ NetNothing \/ \E c \in Cores : NetReply(c)

Step ==
  \/ \E c \in Cores, kind \in {"READ", "READ_EX", "WRITE"}, a \in Addr : Start(c, kind, a)
  \/ \E c \in Cores : StartUnlock(c)
  \/ \E c \in Cores, a \in Addr : StartPrefetch(c, a)
  \/ \E c \in Cores : CoreStep(c)
  \/ \E a \in Addr, new \in {"I", "S"} : NetRequest(a, new)
  \/ NetStep

Spec == Init /\ [][Step]_vars
-----------------------------------------------------------------------------
TypeOK ==
  /\ line \in [Caches -> [Addr -> [st : States, val : Value]]]
  /\ memory \in [Addr -> Value] /\ written \in [Addr -> Value]
  /\ lock \in [Cores -> Threads \cup {None}]
  /\ pc \in [Threads -> {"idle", "shared", "exclusive", "lookup", "miss", "wait", "fill", "locked"}]

\* A cache in normal use: neither perfect nor in pass-through mode.
Normal == config.perfect = {} /\ config.passthrough = {}

\* None of the controllers' assertions fails: no write-back of a line that is
\* not MODIFIED below, no MODIFIED data dropped, no line inserted twice, the
\* line is where the thread that waited for it looks.
AssertionsHold == failed = {}

\* Every line of a cache is also in the cache below it.
Inclusive ==
  Normal => \A n \in DOMAIN config.next \ config.incoherent, a \in Addr :
    line[n][a].st # "I" /\ ~IsLastLevel(n) => line[NextLevel(n)][a].st # "I"

\* Where the newest contents of address a are: down from the last level as long
\* as a cache above has the line MODIFIED.
RECURSIVE Newest(_, _)
Newest(n, a) ==
  LET up == {m \in Prev(n) : line[m][a].st = "M"}
  IN IF up = {} THEN line[n][a].val ELSE Newest(CHOOSE m \in up : TRUE, a)

\* No write is ever lost: what was last written to an address is in the caches,
\* or in memory when the last level does not have the line.
NoLostUpdate ==
  Normal => \A a \in Addr :
    written[a] = IF line[LastLevel][a].st = "I" THEN memory[a] ELSE Newest(LastLevel, a)

\* At most one first-level cache may write to a line, and its copy is the newest.
\* (Other caches may keep a SHARED copy beside it: a read of a line that the last
\* level has MODIFIED makes the reader an owner and leaves the old owner a copy.)
OneWriter ==
  Normal => \A c, d \in Cores, a \in Addr :
    line[L1(c)][a].st = "M" =>
      /\ line[L1(c)][a].val = written[a]
      /\ line[L1(d)][a].st = "M" => L1(c) = L1(d)

\* Thread u has the lock that thread t waits for.
Blocks(u, t) ==
  \/ pc[t] = "exclusive" /\ lock[next[t]] = u
  \/ pc[t] = "shared" /\ lock[t] = u

\* The threads never wait for each other's locks in a circle: the locks are taken
\* in order, and an upgrade first gives up the lock it has.
NoLockCycle ==
  \A waiting \in SUBSET Threads \ {{}} : \E t \in waiting : \A u \in waiting : ~Blocks(u, t)

\* An instruction cache that is not kept coherent never has to throw away data
\* that is not written back: it only reads.
DirtyNotThrownAway == "throwing away dirty data" \notin failed

\* Between the two halves of an atomic instruction nobody else writes the line.
AtomicPairStep ==
  \A c \in Cores :
    pc[c] = "locked" /\ pc'[c] = "locked" => written'[op[c].a] = written[op[c].a]
=============================================================================
