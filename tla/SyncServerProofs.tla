-------------------------- MODULE SyncServerProofs --------------------------
(***************************************************************************)
(* Proofs about the emulated mutexes, conditions and the barrier, for any  *)
(* number of threads, mutexes, conditions and barrier episodes.            *)
(***************************************************************************)
EXTENDS SyncServer, FiniteSetTheorems, TLAPS

\* No thread is twice in a queue.
Distinct(s) == \A i, j \in DOMAIN s : s[i] = s[j] => i = j

\* The same for a condition's queue of pairs.
DistinctFirst(s) == \A i, j \in DOMAIN s : s[i][1] = s[j][1] => i = j

\* A thread in a mutex's queue is stalled in the call that asked for the mutex.
MuxQueued ==
  \A m \in Mutex : \A t \in Ran(muxWaiting[m]) :
    status[t] = "STALLED" /\ call[t].kind \in {"lock", "cond"} /\ call[t].mux = m

\* A thread in a condition's queue is stalled in condWait with the mutex queued with it.
CondQueued ==
  \A c \in Cond : \A w \in Ran(condWaiting[c]) :
    status[w[1]] = "STALLED" /\ call[w[1]].kind = "cond" /\ call[w[1]].mux = w[2]

\* A thread in the barrier's queue is stalled in barrierWait.
BarQueued ==
  \A t \in Ran(barWaiting) : status[t] = "STALLED" /\ call[t].kind = "barrier"

\* No thread is in two places of the queues.
OnePlace ==
  /\ \A m \in Mutex : Distinct(muxWaiting[m])
  /\ \A c \in Cond : DistinctFirst(condWaiting[c])
  /\ Distinct(barWaiting)
  /\ \A c, d \in Cond : \A v \in Ran(condWaiting[c]), w \in Ran(condWaiting[d]) :
       v[1] = w[1] => c = d
  /\ \A m \in Mutex, c \in Cond : \A w \in Ran(condWaiting[c]) : w[1] \notin Ran(muxWaiting[m])

\* Thread t is in some queue.
Queued(t) ==
  \/ \E m \in Mutex : t \in Ran(muxWaiting[m])
  \/ \E c \in Cond : \E w \in Ran(condWaiting[c]) : w[1] = t
  \/ t \in Ran(barWaiting)

StalledQueued == \A t \in Thread : status[t] = "STALLED" => Queued(t)

\* How often thread t has entered the barrier and been let go again.
Level(t) == arrived[t] - IF t \in Ran(barWaiting) THEN 1 ELSE 0

\* The barrier has opened equally often for all threads; whoever is in barrierWait has
\* entered it once more than left it.
Episodes ==
  /\ \A t, u \in Thread : Level(t) = Level(u)
  /\ \A t \in Thread : arrived[t] = passed[t] + IF call[t].kind = "barrier" THEN 1 ELSE 0

\* A call for a mutex names one.
CallMutex == \A t \in Thread : call[t].kind \in {"lock", "cond"} => call[t].mux \in Mutex

\* The inductive invariant.
SyncInv ==
  /\ TypeOK /\ CallMutex /\ ReturnsAsOwner
  /\ MuxQueued /\ CondQueued /\ BarQueued /\ OnePlace /\ StalledQueued
  /\ NoIdleWaiters /\ Episodes

-----------------------------------------------------------------------------
(* The queues are vectors: push_back adds its element at the end.           *)
LEMMA AppendFacts ==
  ASSUME NEW S, NEW s \in Seq(S), NEW x \in S
  PROVE  /\ Append(s, x) \in Seq(S)
         /\ Ran(Append(s, x)) = Ran(s) \cup {x}
         /\ x \notin Ran(s) /\ Distinct(s) => Distinct(Append(s, x))
         /\ Len(Append(s, x)) = Len(s) + 1
<1>1. DOMAIN Append(s, x) = 1 .. Len(s) + 1 /\ DOMAIN s = 1 .. Len(s) /\ Len(s) \in Nat
  OBVIOUS
<1>2. \A i \in 1 .. Len(s) : Append(s, x)[i] = s[i]
  OBVIOUS
<1>3. Append(s, x)[Len(s) + 1] = x
  OBVIOUS
<1>4. Ran(Append(s, x)) = Ran(s) \cup {x}
  BY <1>1, <1>2, <1>3 DEF Ran
<1>5. x \notin Ran(s) /\ Distinct(s) => Distinct(Append(s, x))
  BY <1>1, <1>2, <1>3 DEF Ran, Distinct
<1> QED BY <1>4, <1>5

(* The same for a condition's queue.                                        *)
LEMMA AppendFirst ==
  ASSUME NEW S, NEW s \in Seq(S), NEW x \in S,
         DistinctFirst(s), \A w \in Ran(s) : w[1] # x[1]
  PROVE  DistinctFirst(Append(s, x))
<1>1. DOMAIN Append(s, x) = 1 .. Len(s) + 1 /\ DOMAIN s = 1 .. Len(s) /\ Len(s) \in Nat
  OBVIOUS
<1>2. \A i \in 1 .. Len(s) : Append(s, x)[i] = s[i]
  OBVIOUS
<1>3. Append(s, x)[Len(s) + 1] = x
  OBVIOUS
<1> QED BY <1>1, <1>2, <1>3 DEF Ran, DistinctFirst

(* Taking the first waiter from a queue without repetitions leaves the      *)
(* others.                                                                  *)
LEMMA TailFacts ==
  ASSUME NEW S, NEW s \in Seq(S), s # <<>>
  PROVE  /\ Head(s) \in S /\ Head(s) \in Ran(s) /\ Tail(s) \in Seq(S)
         /\ Ran(s) = Ran(Tail(s)) \cup {Head(s)}
         /\ Distinct(s) => Head(s) \notin Ran(Tail(s)) /\ Distinct(Tail(s))
         /\ DistinctFirst(s) => /\ \A w \in Ran(Tail(s)) : w[1] # Head(s)[1]
                                /\ DistinctFirst(Tail(s))
<1>1. /\ DOMAIN s = 1 .. Len(s) /\ Len(s) \in Nat /\ 1 \in DOMAIN s /\ Head(s) = s[1]
      /\ Tail(s) \in Seq(S) /\ DOMAIN Tail(s) = 1 .. Len(s) - 1
  OBVIOUS
<1>2. \A i \in 1 .. Len(s) - 1 : Tail(s)[i] = s[i + 1] /\ i + 1 \in DOMAIN s /\ i + 1 # 1
  OBVIOUS
<1>3. Head(s) \in Ran(s) /\ Head(s) \in S
  BY <1>1 DEF Ran
<1>4. Ran(s) = Ran(Tail(s)) \cup {Head(s)}
  <2>1. \A x \in Ran(Tail(s)) : x \in Ran(s)
    BY <1>1, <1>2 DEF Ran
  <2>2. \A i \in DOMAIN s : s[i] \in Ran(Tail(s)) \cup {Head(s)}
    <3> TAKE i \in DOMAIN s
    <3>1. CASE i = 1
      BY <3>1, <1>1
    <3>2. CASE i # 1
      <4>1. i - 1 \in 1 .. Len(s) - 1 /\ (i - 1) + 1 = i
        BY <3>2, <1>1
      <4>2. Tail(s)[i - 1] = s[i]
        BY <4>1, <1>2
      <4> QED BY <4>1, <4>2, <1>1 DEF Ran
    <3> QED BY <3>1, <3>2
  <2> QED BY <2>1, <2>2, <1>3 DEF Ran
<1>5. Distinct(s) => Head(s) \notin Ran(Tail(s)) /\ Distinct(Tail(s))
  BY <1>1, <1>2 DEF Ran, Distinct
<1>6. DistinctFirst(s) => /\ \A w \in Ran(Tail(s)) : w[1] # Head(s)[1]
                         /\ DistinctFirst(Tail(s))
  BY <1>1, <1>2 DEF Ran, DistinctFirst
<1> QED BY <1>1, <1>3, <1>4, <1>5, <1>6

(* Appending one queue to another.                                          *)
LEMMA ConcatFacts ==
  ASSUME NEW S, NEW s \in Seq(S), NEW t \in Seq(S)
  PROVE  /\ s \o t \in Seq(S)
         /\ Ran(s \o t) = Ran(s) \cup Ran(t)
         /\ Distinct(s) /\ Distinct(t) /\ Ran(s) \cap Ran(t) = {} => Distinct(s \o t)
<1>1. /\ DOMAIN s = 1 .. Len(s) /\ Len(s) \in Nat /\ DOMAIN t = 1 .. Len(t) /\ Len(t) \in Nat
      /\ s \o t \in Seq(S) /\ DOMAIN (s \o t) = 1 .. Len(s) + Len(t)
  OBVIOUS
<1>2. \A i \in 1 .. Len(s) : (s \o t)[i] = s[i]
  OBVIOUS
<1>3. \A i \in 1 .. Len(s) + Len(t) : i > Len(s) => (s \o t)[i] = t[i - Len(s)] /\ i - Len(s) \in DOMAIN t
  BY <1>1
<1>4. \A i \in DOMAIN t : i + Len(s) \in DOMAIN (s \o t) /\ (s \o t)[i + Len(s)] = t[i]
  BY <1>1, <1>3
<1>5. Ran(s \o t) = Ran(s) \cup Ran(t)
  <2>1. \A i \in DOMAIN (s \o t) : (s \o t)[i] \in Ran(s) \cup Ran(t)
    BY <1>1, <1>2, <1>3 DEF Ran
  <2>2. \A i \in DOMAIN s : s[i] \in Ran(s \o t)
    BY <1>1, <1>2 DEF Ran
  <2>3. \A i \in DOMAIN t : t[i] \in Ran(s \o t)
    BY <1>4, Zenon DEF Ran
  <2> QED BY <2>1, <2>2, <2>3, Zenon DEF Ran
<1>6. ASSUME Distinct(s), Distinct(t), Ran(s) \cap Ran(t) = {}
      PROVE  Distinct(s \o t)
  <2> SUFFICES ASSUME NEW i \in DOMAIN (s \o t), NEW j \in DOMAIN (s \o t),
                      (s \o t)[i] = (s \o t)[j]
               PROVE  i = j
    BY DEF Distinct
  <2>0. i \in Int /\ j \in Int /\ Len(s) \in Int
    BY <1>1
  <2>1. CASE i <= Len(s) /\ j <= Len(s)
    BY <2>1, <1>1, <1>2, <1>6 DEF Distinct
  <2>2. CASE i > Len(s) /\ j > Len(s)
    <3>1. i - Len(s) \in DOMAIN t /\ j - Len(s) \in DOMAIN t /\ t[i - Len(s)] = t[j - Len(s)]
      BY <2>2, <1>1, <1>3
    <3>2. i - Len(s) = j - Len(s)
      BY <3>1, <1>6 DEF Distinct
    <3> QED BY <2>0, <3>2
  <2>3. \A k \in DOMAIN (s \o t) :
          (s \o t)[k] \in IF k <= Len(s) THEN Ran(s) ELSE Ran(t)
    BY <1>1, <1>2, <1>3 DEF Ran
  <2>4. CASE i <= Len(s) /\ j > Len(s)
    BY <2>0, <2>3, <2>4, <1>6
  <2>5. CASE i > Len(s) /\ j <= Len(s)
    BY <2>0, <2>3, <2>5, <1>6
  <2> QED BY <2>0, <2>1, <2>2, <2>4, <2>5
<1> QED BY <1>1, <1>5, <1>6

-----------------------------------------------------------------------------
(* A set of numbers has a least one.                                        *)
LEMMA Least ==
  ASSUME NEW T, T \subseteq Nat, T # {}
  PROVE  \E n \in T : \A x \in T : n <= x
<1>1. PICK n \in T : \A x \in T : ~(<<x, n>> \in OpToRel(<, Nat))
  BY NatLessThanWellFounded, WFMin, Zenon
<1>2. ASSUME NEW x \in T, x < n PROVE FALSE
  BY <1>1, <1>2, Zenon DEF OpToRel
<1> QED BY <1>2

\* The positions of a set up to i.
UpTo(hits, i) == {j \in hits : j <= i}

(* Numbering the positions of a set in their order is one to one: what the  *)
(* loop of condBroadcast appends to a mutex's queue are the waiters with    *)
(* that mutex, each once.                                                   *)
LEMMA Ranks ==
  ASSUME NEW n \in Nat, NEW hits \in SUBSET (1 .. n)
  PROVE  /\ Cardinality(hits) \in Nat
         /\ \A i \in hits : Cardinality(UpTo(hits, i)) \in 1 .. Cardinality(hits)
         /\ \A k \in 1 .. Cardinality(hits) :
              \E i \in hits : Cardinality(UpTo(hits, i)) = k
         /\ \A i, j \in hits : Cardinality(UpTo(hits, i)) = Cardinality(UpTo(hits, j)) => i = j
<1>0. \A i \in hits : i \in Nat /\ 1 <= i /\ i <= n
  OBVIOUS
<1>1. IsFiniteSet(hits)
  <2>1. IsFiniteSet(1 .. n)
    BY FS_Interval
  <2> QED BY <2>1, FS_Subset, Zenon
<1>2. \A i : /\ IsFiniteSet(UpTo(hits, i)) /\ Cardinality(UpTo(hits, i)) \in Nat
             /\ Cardinality(UpTo(hits, i)) <= Cardinality(hits)
  <2> TAKE i
  <2>1. UpTo(hits, i) \in SUBSET hits
    BY DEF UpTo
  <2> QED BY <2>1, <1>1, FS_Subset, FS_CardinalityType
<1>3. Cardinality(hits) \in Nat
  BY <1>1, FS_CardinalityType
<1>4. \A i \in hits : UpTo(hits, i) = UpTo(hits, i - 1) \cup {i} /\ i \notin UpTo(hits, i - 1)
  <2> TAKE i \in hits
  <2>1. \A j \in hits : (j <= i <=> j <= i - 1 \/ j = i) /\ ~(i <= i - 1)
    BY <1>0
  <2> QED BY <2>1, Zenon DEF UpTo
<1>5. \A i \in hits : Cardinality(UpTo(hits, i)) = Cardinality(UpTo(hits, i - 1)) + 1
  BY <1>2, <1>4, FS_AddElement
<1>6. \A i \in hits : Cardinality(UpTo(hits, i)) \in 1 .. Cardinality(hits)
  BY <1>2, <1>3, <1>5
<1>7. ASSUME NEW i \in hits, NEW j \in hits, i < j
      PROVE  Cardinality(UpTo(hits, i)) < Cardinality(UpTo(hits, j))
  <2>1. UpTo(hits, i) \in SUBSET UpTo(hits, j - 1)
    <3>1. \A k \in hits : k <= i => k <= j - 1
      BY <1>0, <1>7
    <3> QED BY <3>1, Zenon DEF UpTo
  <2>2. Cardinality(UpTo(hits, i)) <= Cardinality(UpTo(hits, j - 1))
    BY <2>1, <1>2, FS_Subset
  <2> QED BY <2>2, <1>2, <1>5
<1>8. \A i, j \in hits : Cardinality(UpTo(hits, i)) = Cardinality(UpTo(hits, j)) => i = j
  <2> TAKE i, j \in hits
  <2>1. i \in Nat /\ j \in Nat
    OBVIOUS
  <2>2. i < j \/ j < i \/ i = j
    BY <2>1
  <2>3. Cardinality(UpTo(hits, i)) \in Nat /\ Cardinality(UpTo(hits, j)) \in Nat
    BY <1>2
  <2> QED BY <2>2, <2>3, <1>7
<1>9. ASSUME NEW k \in 1 .. Cardinality(hits)
      PROVE  \E i \in hits : Cardinality(UpTo(hits, i)) = k
  <2> DEFINE T == {i \in 0 .. n : Cardinality(UpTo(hits, i)) >= k}
  <2>1. n \in T
    <3>1. UpTo(hits, n) = hits
      BY <1>0, Zenon DEF UpTo
    <3> QED BY <3>1, <1>3
  <2>2. PICK i \in T : \A x \in T : i <= x
    <3>1. T \subseteq Nat /\ T # {}
      BY <2>1
    <3> QED BY <3>1, Least, Zenon
  <2>3. i # 0
    <3>0. \A j \in hits : ~(j <= 0)
      BY <1>0
    <3>1. UpTo(hits, 0) = {}
      BY <3>0, Zenon DEF UpTo
    <3> QED BY <3>1, FS_EmptySet
  <2>4. i - 1 \in 0 .. n /\ i - 1 \notin T
    BY <2>2, <2>3
  <2>5. Cardinality(UpTo(hits, i - 1)) < k
    BY <2>4, <1>2
  <2>6. i \in hits
    <3>1. ASSUME i \notin hits PROVE UpTo(hits, i) = UpTo(hits, i - 1)
      <4>1. \A j \in hits : j <= i <=> j <= i - 1
        BY <1>0, <3>1
      <4> QED BY <4>1, Zenon DEF UpTo
    <3> QED BY <3>1, <2>5, <1>2
  <2>7. Cardinality(UpTo(hits, i)) = Cardinality(UpTo(hits, i - 1)) + 1
    BY <2>6, <1>5
  <2>8. Cardinality(UpTo(hits, i)) >= k
    OBVIOUS
  <2>9. Cardinality(UpTo(hits, i)) = k
    BY <2>5, <2>7, <2>8, <1>2
  <2> QED BY <2>6, <2>9
<1> QED BY <1>3, <1>6, <1>8, <1>9

(* The waiters with one mutex, in a condition's queue: each of them, once,  *)
(* and nobody else.                                                         *)
LEMMA WaitersForFacts ==
  ASSUME NEW woken \in Seq(Thread \X Mutex), DistinctFirst(woken), NEW m \in Mutex
  PROVE  /\ WaitersFor(woken, m) \in Seq(Thread)
         /\ Distinct(WaitersFor(woken, m))
         /\ \A t \in Ran(WaitersFor(woken, m)) : <<t, m>> \in Ran(woken)
         /\ \A w \in Ran(woken) : w[2] = m => w[1] \in Ran(WaitersFor(woken, m))
<1> DEFINE hits == {i \in DOMAIN woken : woken[i][2] = m}
           at(k) == CHOOSE i \in hits : Cardinality(UpTo(hits, i)) = k
<1>1. WaitersFor(woken, m) = [k \in 1 .. Cardinality(hits) |-> woken[at(k)][1]]
  BY DEF WaitersFor, UpTo
<1>2. Len(woken) \in Nat /\ hits \in SUBSET (1 .. Len(woken))
  OBVIOUS
<1> HIDE DEF hits
<1>3. /\ Cardinality(hits) \in Nat
      /\ \A i \in hits : Cardinality(UpTo(hits, i)) \in 1 .. Cardinality(hits)
      /\ \A k \in 1 .. Cardinality(hits) : \E i \in hits : Cardinality(UpTo(hits, i)) = k
      /\ \A i, j \in hits : Cardinality(UpTo(hits, i)) = Cardinality(UpTo(hits, j)) => i = j
  BY <1>2, Ranks, Zenon
<1>4. \A k \in 1 .. Cardinality(hits) : at(k) \in hits /\ Cardinality(UpTo(hits, at(k))) = k
  BY <1>3
<1>5. \A i \in hits : at(Cardinality(UpTo(hits, i))) = i
  BY <1>3, <1>4
<1> HIDE DEF at
<1>6. \A i \in hits : i \in DOMAIN woken /\ woken[i] \in Thread \X Mutex /\ woken[i][2] = m
  BY DEF hits
<1>7. WaitersFor(woken, m) \in Seq(Thread) /\ DOMAIN WaitersFor(woken, m) = 1 .. Cardinality(hits)
  BY <1>1, <1>3, <1>4, <1>6
<1>8. Distinct(WaitersFor(woken, m))
  <2> SUFFICES ASSUME NEW k \in 1 .. Cardinality(hits), NEW l \in 1 .. Cardinality(hits),
                      woken[at(k)][1] = woken[at(l)][1]
               PROVE  k = l
    BY <1>1 DEF Distinct
  <2>1. at(k) = at(l)
    BY <1>4, <1>6 DEF DistinctFirst
  <2> QED BY <2>1, <1>4
<1>9. \A t \in Ran(WaitersFor(woken, m)) : <<t, m>> \in Ran(woken)
  <2> SUFFICES ASSUME NEW k \in 1 .. Cardinality(hits) PROVE <<woken[at(k)][1], m>> \in Ran(woken)
    BY <1>1 DEF Ran
  <2>1. at(k) \in DOMAIN woken /\ woken[at(k)] = <<woken[at(k)][1], m>>
    BY <1>4, <1>6
  <2> QED BY <2>1 DEF Ran
<1>10. \A w \in Ran(woken) : w[2] = m => w[1] \in Ran(WaitersFor(woken, m))
  <2> SUFFICES ASSUME NEW i \in DOMAIN woken, woken[i][2] = m
               PROVE  woken[i][1] \in Ran(WaitersFor(woken, m))
    BY DEF Ran
  <2>1. i \in hits
    BY DEF hits
  <2>2. Cardinality(UpTo(hits, i)) \in DOMAIN WaitersFor(woken, m)
    BY <2>1, <1>3, <1>7
  <2>3. WaitersFor(woken, m)[Cardinality(UpTo(hits, i))] = woken[i][1]
    BY <2>1, <2>2, <1>1, <1>5, <1>7
  <2> QED BY <2>2, <2>3 DEF Ran
<1> QED BY <1>7, <1>8, <1>9, <1>10

-----------------------------------------------------------------------------
(* An empty queue.                                                          *)
LEMMA EmptyFacts ==
  Ran(<<>>) = {} /\ Distinct(<<>>) /\ DistinctFirst(<<>>) /\ Len(<<>>) = 0
BY DEF Ran, Distinct, DistinctFirst

(* The barrier is for at least one thread.                                  *)
LEMMA CountFacts == Count \in Nat /\ Count >= 1
<1>1. Count \in Nat /\ Count # 0
  BY SyncConstants, FS_CardinalityType, FS_EmptySet DEF Count
<1> QED BY <1>1

(* At the start nobody is in a call or waits.                               *)
LEMMA InitSync == Init => SyncInv
<1> SUFFICES ASSUME Init PROVE SyncInv
  OBVIOUS
<1> USE DEF Init
<1>1. TypeOK
  BY DEF TypeOK, Calls, NoCall
<1>2. CallMutex /\ ReturnsAsOwner
  BY DEF CallMutex, ReturnsAsOwner, NoCall
<1>3. MuxQueued /\ CondQueued /\ BarQueued
  BY EmptyFacts DEF MuxQueued, CondQueued, BarQueued
<1>4. OnePlace
  BY EmptyFacts DEF OnePlace
<1>5. StalledQueued
  BY DEF StalledQueued
<1>6. NoIdleWaiters
  BY EmptyFacts, CountFacts DEF NoIdleWaiters
<1>7. Episodes
  BY EmptyFacts DEF Episodes, Level, NoCall
<1> QED BY <1>1, <1>2, <1>3, <1>4, <1>5, <1>6, <1>7 DEF SyncInv

(* A call that does not enter or leave the barrier keeps the episodes.      *)
LEMMA EpisodesKept ==
  ASSUME SyncInv, UNCHANGED <<barWaiting, arrived, passed>>,
         \A t \in Thread : call'[t].kind = "barrier" <=> call[t].kind = "barrier"
  PROVE  Episodes'
BY DEF SyncInv, Episodes, Level

(* mutexLock of a free mutex.                                               *)
LEMMA LockTaken ==
  ASSUME SyncInv, NEW t \in Thread, NEW m \in Mutex, NEW try \in BOOLEAN,
         MutexLock(t, m, try), owner[m] = NoThread
  PROVE  SyncInv'
<1> USE DEF SyncInv
<1>1. /\ call' = [call EXCEPT ![t] = [kind |-> "lock", mux |-> m]]
      /\ owner' = [owner EXCEPT ![m] = t]
      /\ UNCHANGED <<status, muxWaiting, condWaiting, barWaiting, arrived, passed>>
      /\ status[t] = "RUNNING" /\ call[t] = NoCall /\ HoldsNone(t)
  BY DEF MutexLock, Idle
<1>2. /\ \A u \in Thread : u # t => call'[u] = call[u]
      /\ call'[t].kind = "lock" /\ call'[t].mux = m
      /\ owner'[m] = t /\ \A n \in Mutex : n # m => owner'[n] = owner[n]
  BY <1>1 DEF TypeOK
<1>3. TypeOK'
  BY <1>1 DEF TypeOK, Calls
<1>4. CallMutex' /\ ReturnsAsOwner'
  <2>1. ASSUME NEW u \in Thread, u # t, status[u] = "RUNNING", call[u].kind \in {"lock", "cond"}
        PROVE  owner'[call[u].mux] = u
    <3>1. call[u].mux \in Mutex /\ owner[call[u].mux] = u
      BY <2>1 DEF CallMutex, ReturnsAsOwner
    <3>2. u # NoThread
      BY SyncConstants
    <3> QED BY <3>1, <3>2, <1>2
  <2> QED BY <2>1, <1>1, <1>2 DEF CallMutex, ReturnsAsOwner
<1>5. MuxQueued' /\ CondQueued' /\ BarQueued'
  <2>1. \A n \in Mutex : t \notin Ran(muxWaiting[n])
    BY <1>1 DEF MuxQueued
  <2>2. \A c \in Cond : \A w \in Ran(condWaiting[c]) : w[1] # t
    BY <1>1 DEF CondQueued
  <2>3. t \notin Ran(barWaiting)
    BY <1>1 DEF BarQueued
  <2> QED BY <2>1, <2>2, <2>3, <1>1, <1>2 DEF MuxQueued, CondQueued, BarQueued
<1>6. OnePlace' /\ StalledQueued'
  BY <1>1 DEF OnePlace, StalledQueued, Queued
<1>7. NoIdleWaiters'
  BY <1>1, <1>2 DEF NoIdleWaiters
<1>8. Episodes'
  BY <1>1, <1>2, EpisodesKept DEF NoCall
<1> QED BY <1>3, <1>4, <1>5, <1>6, <1>7, <1>8

(* Only threads, with their mutexes, are in the queues.                     *)
LEMMA QueueTypes ==
  ASSUME TypeOK
  PROVE  /\ \A n \in Mutex : Ran(muxWaiting[n]) \subseteq Thread
         /\ \A c \in Cond : \A w \in Ran(condWaiting[c]) :
              w[1] \in Thread /\ w[2] \in Mutex /\ w = <<w[1], w[2]>>
         /\ Ran(barWaiting) \subseteq Thread
<1>1. \A n \in Mutex : muxWaiting[n] \in Seq(Thread)
  BY DEF TypeOK
<1>2. \A c \in Cond : condWaiting[c] \in Seq(Thread \X Mutex)
  BY DEF TypeOK
<1>3. barWaiting \in Seq(Thread)
  BY DEF TypeOK
<1>4. \A S : \A s \in Seq(S) : Ran(s) \subseteq S
  BY DEF Ran
<1>5. \A c \in Cond : Ran(condWaiting[c]) \subseteq Thread \X Mutex
  BY <1>2, <1>4
<1> QED BY <1>1, <1>3, <1>4, <1>5

(* A running thread outside any call is in no queue.                        *)
LEMMA IdleNotQueued ==
  ASSUME SyncInv, NEW t \in Thread, status[t] = "RUNNING"
  PROVE  /\ \A n \in Mutex : t \notin Ran(muxWaiting[n])
         /\ \A c \in Cond : \A w \in Ran(condWaiting[c]) : w[1] # t
         /\ t \notin Ran(barWaiting)
BY DEF SyncInv, MuxQueued, CondQueued, BarQueued

(* mutexLock of a mutex that is taken: the thread stalls at the end of its  *)
(* queue.                                                                   *)
LEMMA LockWaits ==
  ASSUME SyncInv, NEW t \in Thread, NEW m \in Mutex, NEW try \in BOOLEAN,
         MutexLock(t, m, try), owner[m] # NoThread
  PROVE  SyncInv'
<1> USE DEF SyncInv
<1>1. /\ call' = [call EXCEPT ![t] = [kind |-> "lock", mux |-> m]]
      /\ muxWaiting' = [muxWaiting EXCEPT ![m] = Append(@, t)]
      /\ status' = [status EXCEPT ![t] = "STALLED"]
      /\ UNCHANGED <<owner, condWaiting, barWaiting, arrived, passed>>
      /\ status[t] = "RUNNING" /\ call[t] = NoCall
  BY DEF MutexLock, Idle
<1>2. /\ \A u \in Thread : u # t => call'[u] = call[u] /\ status'[u] = status[u]
      /\ call'[t].kind = "lock" /\ call'[t].mux = m /\ status'[t] = "STALLED"
  BY <1>1 DEF TypeOK
<1>3. /\ \A n \in Mutex : t \notin Ran(muxWaiting[n])
      /\ \A c \in Cond : \A w \in Ran(condWaiting[c]) : w[1] # t
      /\ t \notin Ran(barWaiting)
  BY <1>1, IdleNotQueued
<1>4. /\ muxWaiting'[m] \in Seq(Thread)
      /\ Ran(muxWaiting'[m]) = Ran(muxWaiting[m]) \cup {t}
      /\ Distinct(muxWaiting'[m])
      /\ \A n \in Mutex : n # m => muxWaiting'[n] = muxWaiting[n]
  <2>1. muxWaiting[m] \in Seq(Thread) /\ muxWaiting'[m] = Append(muxWaiting[m], t)
    BY <1>1 DEF TypeOK
  <2>2. Distinct(muxWaiting[m])
    BY DEF OnePlace
  <2>3. \A n \in Mutex : n # m => muxWaiting'[n] = muxWaiting[n]
    BY <1>1 DEF TypeOK
  <2> QED BY <2>1, <2>2, <2>3, <1>3, AppendFacts
<1>5. TypeOK'
  <2>1. muxWaiting' \in [Mutex -> Seq(Thread)]
    BY <1>1, <1>4 DEF TypeOK
  <2> QED BY <1>1, <2>1 DEF TypeOK, Calls
<1>6. CallMutex' /\ ReturnsAsOwner'
  BY <1>1, <1>2 DEF CallMutex, ReturnsAsOwner
<1>7. MuxQueued'
  BY <1>2, <1>3, <1>4, QueueTypes DEF MuxQueued
<1>8. CondQueued' /\ BarQueued'
  BY <1>1, <1>2, <1>3 DEF CondQueued, BarQueued
<1>9. OnePlace'
  BY <1>1, <1>3, <1>4 DEF OnePlace
<1>10. StalledQueued'
  <2>1. ASSUME NEW u \in Thread, u # t, Queued(u) PROVE Queued(u)'
    BY <2>1, <1>1, <1>4 DEF Queued
  <2>2. Queued(t)'
    BY <1>4 DEF Queued
  <2> QED BY <2>1, <2>2, <1>2 DEF StalledQueued
<1>11. NoIdleWaiters'
  BY <1>1, <1>4 DEF NoIdleWaiters
<1>12. Episodes'
  BY <1>1, <1>2, EpisodesKept DEF NoCall
<1> QED BY <1>5, <1>6, <1>7, <1>8, <1>9, <1>10, <1>11, <1>12

-----------------------------------------------------------------------------
\* What SimMutex::unlock does with mutex m: H holds the waiter that gets it, if any.
UnlockEffect(m, H) ==
  /\ owner' \in [Mutex -> Thread \cup {NoThread}] /\ muxWaiting' \in [Mutex -> Seq(Thread)]
  /\ \A n \in Mutex : n # m => owner'[n] = owner[n] /\ muxWaiting'[n] = muxWaiting[n]
  /\ H \in SUBSET Ran(muxWaiting[m]) /\ H \in SUBSET Thread
  /\ Ran(muxWaiting'[m]) = Ran(muxWaiting[m]) \ H /\ Distinct(muxWaiting'[m])
  /\ \A h \in H : owner'[m] = h
  /\ H = {} => owner'[m] = NoThread /\ muxWaiting'[m] = <<>>
  /\ Resumed(status, m) = [u \in Thread |-> IF u \in H THEN "RUNNING" ELSE status[u]]

(* SimMutex::unlock hands the mutex to one waiter, or to nobody if nobody   *)
(* waits.                                                                   *)
LEMMA UnlockFacts ==
  ASSUME SyncInv, NEW m \in Mutex, Unlock(m)
  PROVE  \E H : UnlockEffect(m, H)
<1> USE DEF SyncInv
<1>0. muxWaiting[m] \in Seq(Thread) /\ Distinct(muxWaiting[m])
  BY DEF TypeOK, OnePlace
<1>1. CASE muxWaiting[m] = <<>>
  <2>1. /\ owner' = [owner EXCEPT ![m] = NoThread] /\ muxWaiting' = muxWaiting
        /\ Resumed(status, m) = status
    BY <1>1 DEF Unlock, Resumed
  <2>2. UnlockEffect(m, {})
    <3>1. status = [u \in Thread |-> status[u]]
      BY DEF TypeOK
    <3> QED BY <1>0, <1>1, <2>1, <3>1 DEF UnlockEffect, TypeOK
  <2> QED BY <2>2
<1>2. CASE muxWaiting[m] # <<>>
  <2> DEFINE h == Head(muxWaiting[m])
  <2>1. /\ owner' = [owner EXCEPT ![m] = h]
        /\ muxWaiting' = [muxWaiting EXCEPT ![m] = Tail(@)]
        /\ Resumed(status, m) = [status EXCEPT ![h] = "RUNNING"]
    BY <1>2 DEF Unlock, Resumed
  <2>2. /\ h \in Thread /\ h \in Ran(muxWaiting[m]) /\ Tail(muxWaiting[m]) \in Seq(Thread)
        /\ Ran(muxWaiting[m]) = Ran(Tail(muxWaiting[m])) \cup {h}
        /\ h \notin Ran(Tail(muxWaiting[m])) /\ Distinct(Tail(muxWaiting[m]))
    BY <1>0, <1>2, TailFacts
  <2> HIDE DEF h
  <2>3. muxWaiting'[m] = Tail(muxWaiting[m]) /\ owner'[m] = h
    BY <2>1 DEF TypeOK
  <2>4. owner' \in [Mutex -> Thread \cup {NoThread}] /\ muxWaiting' \in [Mutex -> Seq(Thread)]
    BY <2>1, <2>2 DEF TypeOK
  <2>5. \A n \in Mutex : n # m => owner'[n] = owner[n] /\ muxWaiting'[n] = muxWaiting[n]
    BY <2>1 DEF TypeOK
  <2>6. Ran(muxWaiting'[m]) = Ran(muxWaiting[m]) \ {h} /\ Distinct(muxWaiting'[m])
    BY <2>2, <2>3
  <2>7. Resumed(status, m) = [u \in Thread |-> IF u \in {h} THEN "RUNNING" ELSE status[u]]
    BY <2>1, <2>2, Zenon DEF TypeOK
  <2>8. UnlockEffect(m, {h})
    BY <2>2, <2>3, <2>4, <2>5, <2>6, <2>7 DEF UnlockEffect
  <2> QED BY <2>8
<1> QED BY <1>1, <1>2

(* mutexUnlock: the resumed waiter returns as the owner, and the others     *)
(* keep their places.                                                       *)
LEMMA MutexUnlockInv ==
  ASSUME SyncInv, NEW t \in Thread, NEW m \in Mutex, MutexUnlock(t, m)
  PROVE  SyncInv'
<1> USE DEF SyncInv
<1>1. PICK H : UnlockEffect(m, H)
  BY UnlockFacts DEF MutexUnlock
<1>2. /\ owner[m] = t /\ call[t] = NoCall
      /\ UNCHANGED <<call, condWaiting, barWaiting, arrived, passed>>
      /\ status' = [u \in Thread |-> IF u \in H THEN "RUNNING" ELSE status[u]]
  BY <1>1 DEF MutexUnlock, Holds, UnlockEffect
<1>3. /\ \A n \in Mutex : Ran(muxWaiting[n]) \subseteq Thread
      /\ \A c \in Cond : \A w \in Ran(condWaiting[c]) : w[1] \in Thread
      /\ Ran(barWaiting) \subseteq Thread
  BY QueueTypes
<1>4. \A h \in H : /\ h \in Thread /\ h \in Ran(muxWaiting[m]) /\ owner'[m] = h
                   /\ call[h].kind \in {"lock", "cond"} /\ call[h].mux = m
  BY <1>1 DEF UnlockEffect, MuxQueued
<1>5. TypeOK'
  BY <1>1, <1>2 DEF TypeOK, UnlockEffect
<1>6. CallMutex' /\ ReturnsAsOwner'
  <2>1. ASSUME NEW u \in Thread, u \notin H, status[u] = "RUNNING", call[u].kind \in {"lock", "cond"}
        PROVE  owner'[call[u].mux] = u
    <3>1. call[u].mux \in Mutex /\ owner[call[u].mux] = u
      BY <2>1 DEF CallMutex, ReturnsAsOwner
    <3>2. call[u].mux # m
      BY <2>1, <3>1, <1>2 DEF NoCall
    <3> QED BY <3>1, <3>2, <1>1 DEF UnlockEffect
  <2> QED BY <2>1, <1>2, <1>4 DEF CallMutex, ReturnsAsOwner
<1>7. MuxQueued'
  <2> SUFFICES ASSUME NEW n \in Mutex, NEW u \in Ran(muxWaiting'[n])
               PROVE  status'[u] = "STALLED" /\ call[u].kind \in {"lock", "cond"} /\ call[u].mux = n
    BY <1>2 DEF MuxQueued
  <2>1. u \in Ran(muxWaiting[n]) /\ (n = m => u \notin H)
    BY <1>1 DEF UnlockEffect
  <2>2. status[u] = "STALLED" /\ call[u].kind \in {"lock", "cond"} /\ call[u].mux = n
    BY <2>1 DEF MuxQueued
  <2> QED BY <2>1, <2>2, <1>2, <1>3, <1>4
<1>8. CondQueued' /\ BarQueued'
  <2>1. \A c \in Cond : \A w \in Ran(condWaiting[c]) : w[1] \notin H
    BY <1>4 DEF OnePlace
  <2>2. \A u \in Ran(barWaiting) : u \notin H
    BY <1>4 DEF BarQueued
  <2> QED BY <2>1, <2>2, <1>2, <1>3 DEF CondQueued, BarQueued
<1>9. OnePlace'
  <2>1. \A n \in Mutex : Ran(muxWaiting'[n]) \subseteq Ran(muxWaiting[n]) /\ Distinct(muxWaiting'[n])
    BY <1>1 DEF UnlockEffect, OnePlace
  <2> QED BY <2>1, <1>2 DEF OnePlace
<1>10. StalledQueued'
  <2> SUFFICES ASSUME NEW u \in Thread, status'[u] = "STALLED" PROVE Queued(u)'
    BY DEF StalledQueued
  <2>1. u \notin H /\ Queued(u)
    BY <1>2 DEF StalledQueued
  <2>2. \A n \in Mutex : u \in Ran(muxWaiting[n]) => u \in Ran(muxWaiting'[n])
    BY <2>1, <1>1, Zenon DEF UnlockEffect
  <2> QED BY <2>1, <2>2, <1>2 DEF Queued
<1>11. NoIdleWaiters'
  <2>1. owner'[m] = NoThread => H = {}
    BY <1>4, SyncConstants
  <2> QED BY <2>1, <1>1, <1>2 DEF NoIdleWaiters, UnlockEffect
<1>12. Episodes'
  BY <1>2, EpisodesKept
<1> QED BY <1>5, <1>6, <1>7, <1>8, <1>9, <1>10, <1>11, <1>12

(* condWait: the mutex is handed on and the thread stalls in the queue of   *)
(* the condition.                                                           *)
LEMMA CondWaitInv ==
  ASSUME SyncInv, NEW t \in Thread, NEW d \in Cond, NEW m \in Mutex, CondWait(t, d, m)
  PROVE  SyncInv'
<1> USE DEF SyncInv
<1>1. PICK H : UnlockEffect(m, H)
  BY UnlockFacts DEF CondWait
<1>2. /\ owner[m] = t /\ call[t] = NoCall /\ status[t] = "RUNNING"
      /\ UNCHANGED <<barWaiting, arrived, passed>>
      /\ condWaiting' = [condWaiting EXCEPT ![d] = Append(@, <<t, m>>)]
      /\ call' = [call EXCEPT ![t] = [kind |-> "cond", mux |-> m]]
      /\ status' = [Resumed(status, m) EXCEPT ![t] = "STALLED"]
  BY DEF CondWait, Holds
<1>3. /\ \A n \in Mutex : Ran(muxWaiting[n]) \subseteq Thread
      /\ \A c \in Cond : \A w \in Ran(condWaiting[c]) : w[1] \in Thread
      /\ Ran(barWaiting) \subseteq Thread
  BY QueueTypes
<1>4. /\ \A n \in Mutex : t \notin Ran(muxWaiting[n])
      /\ \A c \in Cond : \A w \in Ran(condWaiting[c]) : w[1] # t
      /\ t \notin Ran(barWaiting)
  BY <1>2, IdleNotQueued
<1>5. \A h \in H : /\ h \in Thread /\ h \in Ran(muxWaiting[m]) /\ owner'[m] = h /\ h # t
                   /\ call[h].kind \in {"lock", "cond"} /\ call[h].mux = m
  BY <1>1, <1>4 DEF UnlockEffect, MuxQueued
<1>6. /\ status' = [u \in Thread |-> IF u = t THEN "STALLED" ELSE IF u \in H THEN "RUNNING"
                                                                          ELSE status[u]]
      /\ \A u \in Thread : u # t => call'[u] = call[u]
      /\ call'[t].kind = "cond" /\ call'[t].mux = m
  BY <1>1, <1>2, <1>5, Zenon DEF UnlockEffect, TypeOK
<1>7. /\ condWaiting'[d] \in Seq(Thread \X Mutex) /\ DistinctFirst(condWaiting'[d])
      /\ Ran(condWaiting'[d]) = Ran(condWaiting[d]) \cup {<<t, m>>}
      /\ \A c \in Cond : c # d => condWaiting'[c] = condWaiting[c]
  <2>1. condWaiting[d] \in Seq(Thread \X Mutex) /\ condWaiting'[d] = Append(condWaiting[d], <<t, m>>)
    BY <1>2 DEF TypeOK
  <2>2. DistinctFirst(condWaiting[d])
    BY DEF OnePlace
  <2>3. <<t, m>> \in Thread \X Mutex /\ <<t, m>>[1] = t
    OBVIOUS
  <2>4. DistinctFirst(condWaiting'[d])
    BY <2>1, <2>2, <2>3, <1>4, AppendFirst
  <2>5. \A c \in Cond : c # d => condWaiting'[c] = condWaiting[c]
    BY <1>2 DEF TypeOK
  <2>6. /\ Append(condWaiting[d], <<t, m>>) \in Seq(Thread \X Mutex)
        /\ Ran(Append(condWaiting[d], <<t, m>>)) = Ran(condWaiting[d]) \cup {<<t, m>>}
    <3>1. PICK S : S = Thread \X Mutex
      BY Zenon
    <3>2. PICK x : x = <<t, m>>
      BY Zenon
    <3>3. condWaiting[d] \in Seq(S) /\ x \in S
      BY <3>1, <3>2, <2>1, <2>3
    <3>4. /\ Append(condWaiting[d], x) \in Seq(S)
          /\ Ran(Append(condWaiting[d], x)) = Ran(condWaiting[d]) \cup {x}
      BY <3>3, AppendFacts
    <3> QED BY <3>1, <3>2, <3>4, Zenon
  <2> QED BY <2>1, <2>4, <2>5, <2>6, Zenon
<1>8. TypeOK'
  <2>1. condWaiting' \in [Cond -> Seq(Thread \X Mutex)]
    BY <1>2, <1>7 DEF TypeOK
  <2>2. status' \in [Thread -> {"RUNNING", "STALLED"}]
    BY <1>6 DEF TypeOK
  <2>3. call' \in [Thread -> Calls]
    BY <1>2 DEF TypeOK, Calls
  <2> QED BY <1>1, <1>2, <2>1, <2>2, <2>3, Zenon DEF TypeOK, UnlockEffect
<1>9. CallMutex' /\ ReturnsAsOwner'
  <2>1. ASSUME NEW u \in Thread, u # t, u \notin H, status[u] = "RUNNING",
               call[u].kind \in {"lock", "cond"}
        PROVE  owner'[call[u].mux] = u
    <3>1. call[u].mux \in Mutex /\ owner[call[u].mux] = u
      BY <2>1 DEF CallMutex, ReturnsAsOwner
    <3>2. call[u].mux # m
      BY <2>1, <3>1, <1>2
    <3> QED BY <3>1, <3>2, <1>1 DEF UnlockEffect
  <2>2. CallMutex'
    BY <1>6 DEF CallMutex
  <2> QED BY <2>1, <2>2, <1>5, <1>6 DEF ReturnsAsOwner
<1>10. MuxQueued'
  <2> SUFFICES ASSUME NEW n \in Mutex, NEW u \in Ran(muxWaiting'[n])
               PROVE  status'[u] = "STALLED" /\ call'[u].kind \in {"lock", "cond"} /\ call'[u].mux = n
    BY DEF MuxQueued
  <2>1. u \in Ran(muxWaiting[n]) /\ (n = m => u \notin H)
    BY <1>1 DEF UnlockEffect
  <2>2. /\ status[u] = "STALLED" /\ call[u].kind \in {"lock", "cond"} /\ call[u].mux = n
        /\ u \in Thread /\ u # t
    BY <2>1, <1>3, <1>4 DEF MuxQueued
  <2> QED BY <2>1, <2>2, <1>5, <1>6
<1>11. CondQueued' /\ BarQueued'
  <2>1. \A c \in Cond : \A w \in Ran(condWaiting[c]) : w[1] \notin H
    BY <1>5 DEF OnePlace
  <2>2. \A u \in Ran(barWaiting) : u \notin H
    BY <1>5 DEF BarQueued
  <2>3. BarQueued'
    BY <2>2, <1>2, <1>3, <1>4, <1>6 DEF BarQueued
  <2>4. ASSUME NEW c \in Cond, NEW w \in Ran(condWaiting[c])
        PROVE  status'[w[1]] = "STALLED" /\ call'[w[1]].kind = "cond" /\ call'[w[1]].mux = w[2]
    <3>1. /\ status[w[1]] = "STALLED" /\ call[w[1]].kind = "cond" /\ call[w[1]].mux = w[2]
          /\ w[1] \in Thread /\ w[1] # t /\ w[1] \notin H
      BY <2>1, <1>3, <1>4 DEF CondQueued
    <3> QED BY <3>1, <1>6
  <2>5. /\ status'[<<t, m>>[1]] = "STALLED" /\ call'[<<t, m>>[1]].kind = "cond"
        /\ call'[<<t, m>>[1]].mux = <<t, m>>[2]
    BY <1>6
  <2> QED BY <2>3, <2>4, <2>5, <1>7 DEF CondQueued
<1>12. OnePlace'
  <2>1. \A n \in Mutex : Ran(muxWaiting'[n]) \subseteq Ran(muxWaiting[n]) /\ Distinct(muxWaiting'[n])
    BY <1>1 DEF UnlockEffect, OnePlace
  <2>2. \A c \in Cond : DistinctFirst(condWaiting'[c])
    BY <1>7 DEF OnePlace
  <2>3. \A c \in Cond : \A w \in Ran(condWaiting'[c]) :
          w \in Ran(condWaiting[c]) \/ (c = d /\ w[1] = t)
    BY <1>7
  <2>4. \A c, e \in Cond : \A v \in Ran(condWaiting'[c]), w \in Ran(condWaiting'[e]) :
          v[1] = w[1] => c = e
    BY <2>3, <1>4 DEF OnePlace
  <2>5. \A n \in Mutex, c \in Cond : \A w \in Ran(condWaiting'[c]) : w[1] \notin Ran(muxWaiting'[n])
    BY <2>1, <2>3, <1>4 DEF OnePlace
  <2> QED BY <2>1, <2>2, <2>4, <2>5, <1>2, Zenon DEF OnePlace
<1>13. StalledQueued'
  <2> SUFFICES ASSUME NEW u \in Thread, status'[u] = "STALLED" PROVE Queued(u)'
    BY DEF StalledQueued
  <2>1. CASE u = t
    <3>1. <<t, m>> \in Ran(condWaiting'[d]) /\ <<t, m>>[1] = t
      BY <1>7
    <3> QED BY <2>1, <3>1 DEF Queued
  <2>2. CASE u # t
    <3>1. u \notin H /\ Queued(u)
      BY <2>2, <1>6 DEF StalledQueued
    <3>2. \A n \in Mutex : u \in Ran(muxWaiting[n]) => u \in Ran(muxWaiting'[n])
      BY <3>1, <1>1, Zenon DEF UnlockEffect
    <3>3. \A c \in Cond : Ran(condWaiting[c]) \subseteq Ran(condWaiting'[c])
      BY <1>7
    <3> QED BY <3>1, <3>2, <3>3, <1>2, Zenon DEF Queued
  <2> QED BY <2>1, <2>2
<1>14. NoIdleWaiters'
  <2>1. owner'[m] = NoThread => H = {}
    BY <1>5, SyncConstants
  <2> QED BY <2>1, <1>1, <1>2 DEF NoIdleWaiters, UnlockEffect
<1>15. Episodes'
  BY <1>2, <1>6, EpisodesKept DEF NoCall
<1> QED BY <1>8, <1>9, <1>10, <1>11, <1>12, <1>13, <1>14, <1>15

-----------------------------------------------------------------------------
\* What waking the waiters of a sequence does: those in H get their mutexes, the others
\* queue for them.
WakeEffect(woken, H) ==
  /\ owner' \in [Mutex -> Thread \cup {NoThread}] /\ muxWaiting' \in [Mutex -> Seq(Thread)]
  /\ status' = [u \in Thread |-> IF u \in H THEN "RUNNING" ELSE status[u]]
  /\ \A u \in H : u \in Thread /\ \E n \in Mutex : <<u, n>> \in Ran(woken)
  /\ \A n \in Mutex : owner[n] # NoThread => owner'[n] = owner[n]
  /\ \A n \in Mutex, u \in H : <<u, n>> \in Ran(woken) => owner[n] = NoThread /\ owner'[n] = u
  /\ \A n \in Mutex : Ran(muxWaiting'[n]) =
       Ran(muxWaiting[n]) \cup {u \in Thread : <<u, n>> \in Ran(woken) /\ u \notin H}
  /\ \A n \in Mutex : Distinct(muxWaiting'[n])
  /\ \A n \in Mutex : owner'[n] = NoThread => muxWaiting'[n] = <<>>

(* lock_async for every waiter of a condition: each gets its mutex or goes  *)
(* into its queue, and no free mutex is left with a queue.                  *)
LEMMA WakeFacts ==
  ASSUME SyncInv, NEW d \in Cond, NEW woken \in Seq(Thread \X Mutex), DistinctFirst(woken),
         Ran(woken) \subseteq Ran(condWaiting[d]), WakeCond(woken)
  PROVE  \E H : WakeEffect(woken, H)
<1> USE DEF SyncInv
<1> DEFINE W(n) == WaitersFor(woken, n)
           granted(n) == owner[n] = NoThread /\ W(n) # <<>>
           H == {u \in Thread : \E n \in Mutex : granted(n) /\ u = Head(W(n))}
           rest(n) == IF granted(n) THEN Tail(W(n)) ELSE W(n)
<1>1. /\ owner' = [n \in Mutex |-> IF granted(n) THEN Head(W(n)) ELSE owner[n]]
      /\ muxWaiting' = [n \in Mutex |-> muxWaiting[n] \o rest(n)]
      /\ status' = [u \in Thread |-> IF u \in H THEN "RUNNING" ELSE status[u]]
  BY DEF WakeCond
<1>2. \A n \in Mutex : /\ W(n) \in Seq(Thread) /\ Distinct(W(n))
                       /\ \A u \in Ran(W(n)) : <<u, n>> \in Ran(woken)
                       /\ \A w \in Ran(woken) : w[2] = n => w[1] \in Ran(W(n))
  BY WaitersForFacts
<1> HIDE DEF W
<1>3. \A n \in Mutex : W(n) # <<>> =>
        /\ Head(W(n)) \in Thread /\ Head(W(n)) \in Ran(W(n)) /\ Tail(W(n)) \in Seq(Thread)
        /\ Ran(W(n)) = Ran(Tail(W(n))) \cup {Head(W(n))}
        /\ Head(W(n)) \notin Ran(Tail(W(n))) /\ Distinct(Tail(W(n)))
  BY <1>2, TailFacts
<1>4. \A u, n, k : <<u, n>> \in Ran(woken) /\ <<u, k>> \in Ran(woken) => n = k
  BY DEF DistinctFirst, Ran
<1>5. \A n \in Mutex, u \in H : <<u, n>> \in Ran(woken) => granted(n) /\ u = Head(W(n))
  BY <1>2, <1>3, <1>4, Zenon
<1>6. \A u \in H : u \in Thread /\ \E n \in Mutex : <<u, n>> \in Ran(woken)
  BY <1>2, <1>3
<1>7. \A n \in Mutex : granted(n) => Head(W(n)) \in H
  BY <1>3
<1> HIDE DEF H
<1>8. \A n \in Mutex : rest(n) \in Seq(Thread) /\ Distinct(rest(n))
  BY <1>2, <1>3
<1>9. \A n \in Mutex : Ran(rest(n)) = {u \in Thread : <<u, n>> \in Ran(woken) /\ u \notin H}
  <2> TAKE n \in Mutex
  <2>1. \A u \in Thread : <<u, n>> \in Ran(woken) <=> u \in Ran(W(n))
    BY <1>2
  <2>2. Ran(rest(n)) \subseteq Thread /\ Ran(W(n)) \subseteq Thread
    BY <1>2, <1>8 DEF Ran
  <2>3. CASE granted(n)
    <3>1. Ran(rest(n)) = Ran(W(n)) \ {Head(W(n))}
      BY <2>3, <1>3
    <3>2. \A u \in Ran(W(n)) : u \in H <=> u = Head(W(n))
      BY <2>3, <1>2, <1>5, <1>7, Zenon
    <3> QED BY <2>1, <2>2, <3>1, <3>2, Zenon
  <2>4. CASE ~granted(n)
    <3>1. Ran(rest(n)) = Ran(W(n))
      BY <2>4
    <3>2. \A u \in Ran(W(n)) : u \notin H
      BY <2>4, <1>2, <1>5, Zenon
    <3> QED BY <2>1, <2>2, <3>1, <3>2, Zenon
  <2> QED BY <2>3, <2>4
<1>10. \A n \in Mutex : Ran(muxWaiting[n]) \cap Ran(rest(n)) = {}
  <2> SUFFICES ASSUME NEW n \in Mutex, NEW u \in Ran(muxWaiting[n]), <<u, n>> \in Ran(woken)
               PROVE  FALSE
    BY <1>9, Zenon
  <2>1. <<u, n>> \in Ran(condWaiting[d]) /\ <<u, n>>[1] = u
    OBVIOUS
  <2> QED BY <2>1 DEF OnePlace
<1>11. \A n \in Mutex : muxWaiting[n] \in Seq(Thread) /\ Distinct(muxWaiting[n])
  BY DEF TypeOK, OnePlace
<1>12. \A n \in Mutex : /\ muxWaiting'[n] \in Seq(Thread) /\ Distinct(muxWaiting'[n])
                        /\ Ran(muxWaiting'[n]) = Ran(muxWaiting[n]) \cup Ran(rest(n))
  <2> TAKE n \in Mutex
  <2>1. muxWaiting'[n] = muxWaiting[n] \o rest(n)
    BY <1>1, Zenon
  <2> HIDE DEF rest
  <2> QED BY <2>1, <1>8, <1>10, <1>11, ConcatFacts
<1>13. \A n \in Mutex : owner'[n] = NoThread => muxWaiting'[n] = <<>>
  <2> SUFFICES ASSUME NEW n \in Mutex, owner'[n] = NoThread PROVE muxWaiting'[n] = <<>>
    OBVIOUS
  <2>1. ~granted(n) /\ owner[n] = NoThread
    BY <1>1, <1>3, SyncConstants
  <2>2. muxWaiting[n] = <<>> /\ rest(n) = <<>>
    BY <2>1 DEF NoIdleWaiters
  <2> QED BY <2>2, <1>1
<1>14. \A n \in Mutex : owner[n] # NoThread => owner'[n] = owner[n]
  BY <1>1
<1>15. \A n \in Mutex, u \in H : <<u, n>> \in Ran(woken) => owner[n] = NoThread /\ owner'[n] = u
  BY <1>1, <1>5
<1>16. owner' \in [Mutex -> Thread \cup {NoThread}] /\ muxWaiting' \in [Mutex -> Seq(Thread)]
  BY <1>1, <1>3, <1>12 DEF TypeOK
<1>17. WakeEffect(woken, H)
  BY <1>1, <1>6, <1>9, <1>12, <1>13, <1>14, <1>15, <1>16, Zenon DEF WakeEffect
<1> QED BY <1>17

(* Waking waiters of a condition and taking them from its queue keeps the   *)
(* invariant.                                                               *)
LEMMA WakeInv ==
  ASSUME SyncInv, NEW d \in Cond, NEW woken, NEW H, WakeEffect(woken, H),
         Ran(woken) \subseteq Ran(condWaiting[d]),
         condWaiting' \in [Cond -> Seq(Thread \X Mutex)],
         \A c \in Cond : c # d => condWaiting'[c] = condWaiting[c],
         DistinctFirst(condWaiting'[d]),
         Ran(condWaiting[d]) = Ran(condWaiting'[d]) \cup Ran(woken),
         \A v \in Ran(condWaiting'[d]), w \in Ran(woken) : v[1] # w[1],
         UNCHANGED <<call, barWaiting, arrived, passed>>
  PROVE  SyncInv'
<1> USE DEF SyncInv
<1>1. /\ \A n \in Mutex : Ran(muxWaiting[n]) \subseteq Thread
      /\ \A c \in Cond : \A w \in Ran(condWaiting[c]) :
           w[1] \in Thread /\ w[2] \in Mutex /\ w = <<w[1], w[2]>>
      /\ Ran(barWaiting) \subseteq Thread
  BY QueueTypes
<1>2. /\ owner' \in [Mutex -> Thread \cup {NoThread}] /\ muxWaiting' \in [Mutex -> Seq(Thread)]
      /\ status' = [u \in Thread |-> IF u \in H THEN "RUNNING" ELSE status[u]]
  BY DEF WakeEffect
<1>3. \A u \in H : u \in Thread /\ \E n \in Mutex : <<u, n>> \in Ran(woken)
  BY Zenon DEF WakeEffect
<1>4. \A n \in Mutex, u \in H : <<u, n>> \in Ran(woken) => owner[n] = NoThread /\ owner'[n] = u
  BY DEF WakeEffect
<1>5. \A n \in Mutex : /\ Distinct(muxWaiting'[n])
                       /\ Ran(muxWaiting'[n]) = Ran(muxWaiting[n])
                            \cup {u \in Thread : <<u, n>> \in Ran(woken) /\ u \notin H}
  BY DEF WakeEffect
<1>6. \A n \in Mutex : /\ owner[n] # NoThread => owner'[n] = owner[n]
                       /\ owner'[n] = NoThread => muxWaiting'[n] = <<>>
  BY DEF WakeEffect
<1>7. \A u, n : <<u, n>> \in Ran(woken) =>
        /\ <<u, n>> \in Ran(condWaiting[d]) /\ u \in Thread /\ n \in Mutex
        /\ status[u] = "STALLED" /\ call[u].kind = "cond" /\ call[u].mux = n
  <2> TAKE u, n
  <2> HAVE <<u, n>> \in Ran(woken)
  <2>1. <<u, n>> \in Ran(condWaiting[d]) /\ <<u, n>>[1] = u /\ <<u, n>>[2] = n
    OBVIOUS
  <2> QED BY <2>1, <1>1 DEF CondQueued
<1>8. TypeOK'
  BY <1>2 DEF TypeOK
<1>9. CallMutex' /\ ReturnsAsOwner'
  <2>1. ASSUME NEW u \in Thread, u \notin H, status[u] = "RUNNING", call[u].kind \in {"lock", "cond"}
        PROVE  owner'[call[u].mux] = u
    <3>1. call[u].mux \in Mutex /\ owner[call[u].mux] = u /\ u # NoThread
      BY <2>1, SyncConstants DEF CallMutex, ReturnsAsOwner
    <3> QED BY <3>1, <1>6, Zenon
  <2>2. ASSUME NEW u \in H PROVE owner'[call[u].mux] = u
    <3>1. PICK n \in Mutex : <<u, n>> \in Ran(woken)
      BY <1>3, ZenonT(30)
    <3>2. owner'[n] = u /\ call[u].mux = n
      BY <3>1, <1>4, <1>7
    <3> QED BY <3>2
  <2> QED BY <2>1, <2>2, <1>2, ZenonT(30) DEF CallMutex, ReturnsAsOwner
<1>10. MuxQueued'
  <2> SUFFICES ASSUME NEW n \in Mutex, NEW u \in Ran(muxWaiting'[n])
               PROVE  status'[u] = "STALLED" /\ call[u].kind \in {"lock", "cond"} /\ call[u].mux = n
    BY DEF MuxQueued
  <2>1. CASE u \in Ran(muxWaiting[n])
    <3>1. /\ status[u] = "STALLED" /\ call[u].kind \in {"lock", "cond"} /\ call[u].mux = n
          /\ u \in Thread
      BY <2>1, <1>1 DEF MuxQueued
    <3>2. u \notin H
      <4> SUFFICES ASSUME u \in H PROVE FALSE
        OBVIOUS
      <4>1. PICK k \in Mutex : <<u, k>> \in Ran(woken)
        BY <1>3
      <4>2. <<u, k>> \in Ran(condWaiting[d]) /\ <<u, k>>[1] = u
        BY <4>1
      <4> QED BY <4>2, <2>1 DEF OnePlace
    <3> QED BY <3>1, <3>2, <1>2
  <2>2. CASE <<u, n>> \in Ran(woken) /\ u \notin H
    BY <2>2, <1>2, <1>7
  <2> QED BY <2>1, <2>2, <1>5
<1>11. CondQueued' /\ BarQueued'
  <2>1. \A c \in Cond : Ran(condWaiting'[c]) \subseteq Ran(condWaiting[c])
    OBVIOUS
  <2>2. ASSUME NEW c \in Cond, NEW w \in Ran(condWaiting'[c]) PROVE w[1] \notin H
    <3> SUFFICES ASSUME w[1] \in H PROVE FALSE
      OBVIOUS
    <3>1. PICK k \in Mutex : <<w[1], k>> \in Ran(woken)
      BY <1>3
    <3>2. <<w[1], k>> \in Ran(condWaiting[d]) /\ <<w[1], k>>[1] = w[1]
      BY <3>1
    <3>3. c = d
      BY <2>1, <3>2 DEF OnePlace
    <3> QED BY <3>1, <3>2, <3>3
  <2>3. \A u \in Ran(barWaiting) : u \notin H
    BY <1>3, <1>7, Zenon DEF BarQueued
  <2>4. BarQueued'
    BY <2>3, <1>1, <1>2 DEF BarQueued
  <2>5. CondQueued'
    BY <2>1, <2>2, <1>1, <1>2 DEF CondQueued
  <2> QED BY <2>4, <2>5
<1>12. OnePlace'
  <2>1. \A c \in Cond : Ran(condWaiting'[c]) \subseteq Ran(condWaiting[c]) /\ DistinctFirst(condWaiting'[c])
    BY DEF OnePlace
  <2>2. ASSUME NEW n \in Mutex, NEW c \in Cond, NEW w \in Ran(condWaiting'[c])
        PROVE  w[1] \notin Ran(muxWaiting'[n])
    <3>1. w[1] \notin Ran(muxWaiting[n])
      BY <2>1 DEF OnePlace
    <3>2. <<w[1], n>> \notin Ran(woken)
      <4> SUFFICES ASSUME <<w[1], n>> \in Ran(woken) PROVE FALSE
        OBVIOUS
      <4>1. <<w[1], n>> \in Ran(condWaiting[d]) /\ <<w[1], n>>[1] = w[1]
        OBVIOUS
      <4>2. c = d
        BY <2>1, <4>1 DEF OnePlace
      <4> QED BY <4>1, <4>2
    <3> QED BY <3>1, <3>2, <1>5
  <2>3. \A c, e \in Cond : \A v \in Ran(condWaiting'[c]), w \in Ran(condWaiting'[e]) :
          v[1] = w[1] => c = e
    BY <2>1 DEF OnePlace
  <2> QED BY <2>1, <2>2, <2>3, <1>5 DEF OnePlace
<1>13. StalledQueued'
  <2> SUFFICES ASSUME NEW u \in Thread, status'[u] = "STALLED" PROVE Queued(u)'
    BY DEF StalledQueued
  <2>1. u \notin H /\ Queued(u)
    BY <1>2 DEF StalledQueued
  <2>2. CASE \E n \in Mutex : u \in Ran(muxWaiting[n])
    BY <2>2, <1>5, Zenon DEF Queued
  <2>3. CASE u \in Ran(barWaiting)
    BY <2>3 DEF Queued
  <2>4. ASSUME NEW c \in Cond, NEW w \in Ran(condWaiting[c]), w[1] = u PROVE Queued(u)'
    <3>1. CASE w \in Ran(condWaiting'[c])
      BY <2>4, <3>1 DEF Queued
    <3>2. CASE w \notin Ran(condWaiting'[c])
      <4>1. w \in Ran(woken) /\ w = <<u, w[2]>> /\ w[2] \in Mutex
        BY <2>4, <3>2, <1>1
      <4>2. u \in Ran(muxWaiting'[w[2]])
        BY <4>1, <2>1, <1>5
      <4> QED BY <4>1, <4>2 DEF Queued
    <3> QED BY <3>1, <3>2
  <2> QED BY <2>1, <2>2, <2>3, <2>4 DEF Queued
<1>14. NoIdleWaiters'
  BY <1>6 DEF NoIdleWaiters
<1>15. Episodes'
  BY EpisodesKept
<1> QED BY <1>8, <1>9, <1>10, <1>11, <1>12, <1>13, <1>14, <1>15

(* condSignal: one waiter is woken.                                         *)
LEMMA CondSignalInv ==
  ASSUME SyncInv, NEW t \in Thread, NEW d \in Cond, CondSignal(t, d)
  PROVE  SyncInv'
<1>1. PICK s : s = condWaiting[d]
  OBVIOUS
<1>2. s \in Seq(Thread \X Mutex) /\ DistinctFirst(s) /\ s # <<>>
  BY <1>1 DEF SyncInv, TypeOK, OnePlace, CondSignal
<1>3. PICK h : h = Head(s)
  OBVIOUS
<1>4. /\ h \in Thread \X Mutex /\ h \in Ran(s) /\ Tail(s) \in Seq(Thread \X Mutex)
      /\ Ran(s) = Ran(Tail(s)) \cup {h} /\ DistinctFirst(Tail(s))
      /\ \A w \in Ran(Tail(s)) : w[1] # h[1]
  <2>1. PICK S : S = Thread \X Mutex
    BY ZenonT(30)
  <2>2. /\ h \in S /\ h \in Ran(s) /\ Tail(s) \in Seq(S)
        /\ Ran(s) = Ran(Tail(s)) \cup {h} /\ DistinctFirst(Tail(s))
        /\ \A w \in Ran(Tail(s)) : w[1] # h[1]
    BY <2>1, <1>2, <1>3, TailFacts
  <2> QED BY <2>1, <2>2, Zenon
<1>5. <<h>> \in Seq(Thread \X Mutex) /\ DistinctFirst(<<h>>) /\ Ran(<<h>>) = {h}
  BY <1>4 DEF DistinctFirst, Ran
<1>6. /\ WakeCond(<<h>>) /\ condWaiting' = [condWaiting EXCEPT ![d] = Tail(@)]
      /\ UNCHANGED <<call, barWaiting, arrived, passed>>
  BY <1>1, <1>3 DEF CondSignal
<1>7. PICK H : WakeEffect(<<h>>, H)
  BY <1>1, <1>4, <1>5, <1>6, WakeFacts, Zenon
<1>8. condWaiting'[d] = Tail(s) /\ \A c \in Cond : c # d => condWaiting'[c] = condWaiting[c]
  BY <1>1, <1>6 DEF SyncInv, TypeOK
<1>9. condWaiting' \in [Cond -> Seq(Thread \X Mutex)]
  BY <1>1, <1>4, <1>6 DEF SyncInv, TypeOK
<1>10. PICK woken : woken = <<h>>
  BY Zenon
<1>11. /\ Ran(woken) \subseteq Ran(condWaiting[d]) /\ WakeEffect(woken, H)
       /\ Ran(condWaiting[d]) = Ran(condWaiting'[d]) \cup Ran(woken)
       /\ \A v \in Ran(condWaiting'[d]), w \in Ran(woken) : v[1] # w[1]
       /\ DistinctFirst(condWaiting'[d])
  BY <1>1, <1>4, <1>5, <1>7, <1>8, <1>10
<1> QED BY <1>6, <1>8, <1>9, <1>11, WakeInv

(* condBroadcast: all waiters are woken.                                    *)
LEMMA CondBroadcastInv ==
  ASSUME SyncInv, NEW t \in Thread, NEW d \in Cond, CondBroadcast(t, d)
  PROVE  SyncInv'
<1>1. PICK s : s = condWaiting[d]
  OBVIOUS
<1>2. s \in Seq(Thread \X Mutex) /\ DistinctFirst(s)
  BY <1>1 DEF SyncInv, TypeOK, OnePlace
<1>3. /\ WakeCond(s) /\ condWaiting' = [condWaiting EXCEPT ![d] = <<>>]
      /\ UNCHANGED <<call, barWaiting, arrived, passed>>
  BY <1>1 DEF CondBroadcast
<1>4. PICK H : WakeEffect(s, H)
  BY <1>1, <1>2, <1>3, WakeFacts
<1>5. condWaiting'[d] = <<>> /\ \A c \in Cond : c # d => condWaiting'[c] = condWaiting[c]
  BY <1>3 DEF SyncInv, TypeOK
<1>6. condWaiting' \in [Cond -> Seq(Thread \X Mutex)]
  BY <1>3 DEF SyncInv, TypeOK
<1>7. /\ Ran(s) \subseteq Ran(condWaiting[d])
      /\ Ran(condWaiting[d]) = Ran(condWaiting'[d]) \cup Ran(s)
      /\ \A v \in Ran(condWaiting'[d]), w \in Ran(s) : v[1] # w[1]
      /\ DistinctFirst(condWaiting'[d])
  BY <1>1, <1>5, EmptyFacts
<1> QED BY <1>3, <1>4, <1>5, <1>6, <1>7, WakeInv

-----------------------------------------------------------------------------
(* When all others wait in the barrier, its queue holds everybody else.     *)
LEMMA AllOthersWait ==
  ASSUME SyncInv, NEW t \in Thread, t \notin Ran(barWaiting), IsLast
  PROVE  Ran(barWaiting) = Thread \ {t}
<1>1. barWaiting \in Seq(Thread) /\ Distinct(barWaiting) /\ Len(barWaiting) \in Nat
  BY DEF SyncInv, TypeOK, OnePlace
<1>2. ExistsBijection(1 .. Len(barWaiting), Ran(barWaiting))
  <2>1. barWaiting \in [1 .. Len(barWaiting) -> Ran(barWaiting)]
    BY <1>1 DEF Ran
  <2>2. barWaiting \in Bijection(1 .. Len(barWaiting), Ran(barWaiting))
    BY <1>1, <2>1 DEF Bijection, Injection, Surjection, IsInjective, Distinct, Ran
  <2> QED BY <2>2 DEF ExistsBijection
<1>3. Cardinality(Ran(barWaiting)) = Len(barWaiting)
  BY <1>1, <1>2, FS_CountingElements
<1>4. IsFiniteSet(Thread \ {t}) /\ Cardinality(Thread \ {t}) = Count - 1
  BY SyncConstants, FS_RemoveElement DEF Count
<1>5. Ran(barWaiting) \in SUBSET (Thread \ {t})
  BY <1>1 DEF Ran
<1>6. Cardinality(Thread \ {t}) = Cardinality(Ran(barWaiting))
  BY <1>3, <1>4 DEF IsLast
<1> QED BY <1>4, <1>5, <1>6, FS_Subset

(* barrierWait of the last thread: all others are resumed.                  *)
LEMMA BarrierLetsGo ==
  ASSUME SyncInv, NEW t \in Thread, BarrierWait(t), IsLast
  PROVE  SyncInv'
<1> USE DEF SyncInv
<1>1. /\ call' = [call EXCEPT ![t] = [kind |-> "barrier", mux |-> NoMutex]]
      /\ arrived' = [arrived EXCEPT ![t] = @ + 1] /\ barWaiting' = <<>>
      /\ status' = [u \in Thread |-> IF u \in Ran(barWaiting) THEN "RUNNING" ELSE status[u]]
      /\ UNCHANGED <<owner, muxWaiting, condWaiting, passed>>
      /\ status[t] = "RUNNING" /\ call[t] = NoCall
  BY DEF BarrierWait, BarrierOpen, Idle
<1>2. /\ \A u \in Thread : u # t => call'[u] = call[u] /\ arrived'[u] = arrived[u]
      /\ call'[t].kind = "barrier" /\ arrived'[t] = arrived[t] + 1
  BY <1>1 DEF TypeOK
<1>3. /\ \A n \in Mutex : t \notin Ran(muxWaiting[n])
      /\ \A c \in Cond : \A w \in Ran(condWaiting[c]) : w[1] # t
      /\ t \notin Ran(barWaiting)
  BY <1>1, IdleNotQueued
<1>4. Ran(barWaiting) = Thread \ {t}
  BY <1>3, AllOthersWait
<1>5. /\ \A n \in Mutex : Ran(muxWaiting[n]) = {}
      /\ \A c \in Cond : Ran(condWaiting[c]) = {}
  <2>1. \A u \in Thread \ {t} : call[u].kind = "barrier"
    BY <1>4 DEF BarQueued
  <2>2. \A n \in Mutex : \A u \in Ran(muxWaiting[n]) : u \in Thread
    BY QueueTypes
  <2>3. \A c \in Cond : \A w \in Ran(condWaiting[c]) : w[1] \in Thread
    BY QueueTypes
  <2>4. \A n \in Mutex : Ran(muxWaiting[n]) = {}
    BY <2>1, <2>2, <1>3 DEF MuxQueued
  <2>5. \A c \in Cond : Ran(condWaiting[c]) = {}
    BY <2>1, <2>3, <1>3 DEF CondQueued
  <2> QED BY <2>4, <2>5
<1>6. TypeOK'
  BY <1>1 DEF TypeOK, Calls
<1>7. CallMutex' /\ ReturnsAsOwner'
  <2>1. \A u \in Thread : call'[u].kind = "barrier"
    BY <1>2, <1>4 DEF BarQueued
  <2> QED BY <2>1 DEF CallMutex, ReturnsAsOwner
<1>8. MuxQueued' /\ CondQueued' /\ BarQueued'
  BY <1>1, <1>5, EmptyFacts DEF MuxQueued, CondQueued, BarQueued
<1>9. OnePlace'
  BY <1>1, EmptyFacts DEF OnePlace
<1>10. StalledQueued'
  BY <1>1, <1>4 DEF StalledQueued
<1>11. NoIdleWaiters'
  BY <1>1, EmptyFacts, CountFacts DEF NoIdleWaiters
<1>12. Episodes'
  <2>1. \A u \in Thread : Level(u)' = arrived'[u]
    <3>1. Ran(barWaiting') = {}
      BY <1>1, EmptyFacts, Zenon
    <3>2. \A u \in Thread : arrived'[u] \in Nat
      BY <1>6 DEF TypeOK
    <3> HIDE DEF SyncInv
    <3> QED BY <3>1, <3>2 DEF Level
  <2>2. \A u \in Thread : u # t => Level(u) = arrived[u] - 1
    BY <1>4 DEF Level
  <2>3. Level(t) = arrived[t]
    BY <1>3 DEF Level, TypeOK
  <2>4. \A u \in Thread : arrived[u] \in Nat /\ passed[u] \in Nat
    BY DEF TypeOK
  <2>5. \A u \in Thread : arrived'[u] = arrived[t] + 1
    BY <2>2, <2>3, <2>4, <1>2 DEF Episodes
  <2>6. \A u \in Thread : arrived'[u] = passed'[u] + IF call'[u].kind = "barrier" THEN 1 ELSE 0
    BY <2>4, <1>1, <1>2 DEF Episodes, NoCall
  <2> QED BY <2>1, <2>5, <2>6 DEF Episodes
<1> QED BY <1>6, <1>7, <1>8, <1>9, <1>10, <1>11, <1>12

(* barrierWait of any other thread: it stalls in the barrier's queue.       *)
LEMMA BarrierWaits ==
  ASSUME SyncInv, NEW t \in Thread, BarrierWait(t), ~IsLast
  PROVE  SyncInv'
<1> USE DEF SyncInv
<1>1. /\ call' = [call EXCEPT ![t] = [kind |-> "barrier", mux |-> NoMutex]]
      /\ arrived' = [arrived EXCEPT ![t] = @ + 1] /\ barWaiting' = Append(barWaiting, t)
      /\ status' = [status EXCEPT ![t] = "STALLED"]
      /\ UNCHANGED <<owner, muxWaiting, condWaiting, passed>>
      /\ status[t] = "RUNNING" /\ call[t] = NoCall
  BY DEF BarrierWait, Idle
<1>2. /\ \A u \in Thread : u # t => /\ call'[u] = call[u] /\ arrived'[u] = arrived[u]
                                   /\ status'[u] = status[u]
      /\ call'[t].kind = "barrier" /\ arrived'[t] = arrived[t] + 1 /\ status'[t] = "STALLED"
  BY <1>1 DEF TypeOK
<1>3. /\ \A n \in Mutex : t \notin Ran(muxWaiting[n])
      /\ \A c \in Cond : \A w \in Ran(condWaiting[c]) : w[1] # t
      /\ t \notin Ran(barWaiting)
  BY <1>1, IdleNotQueued
<1>4. /\ \A n \in Mutex : Ran(muxWaiting[n]) \subseteq Thread
      /\ \A c \in Cond : \A w \in Ran(condWaiting[c]) : w[1] \in Thread
      /\ Ran(barWaiting) \subseteq Thread
  BY QueueTypes
<1>5. /\ barWaiting' \in Seq(Thread) /\ Ran(barWaiting') = Ran(barWaiting) \cup {t}
      /\ Distinct(barWaiting') /\ Len(barWaiting') = Len(barWaiting) + 1
  <2>1. barWaiting \in Seq(Thread) /\ Distinct(barWaiting)
    BY DEF TypeOK, OnePlace
  <2> QED BY <2>1, <1>1, <1>3, AppendFacts
<1>6. TypeOK'
  BY <1>1, <1>5 DEF TypeOK, Calls
<1>7. CallMutex' /\ ReturnsAsOwner'
  BY <1>1, <1>2 DEF CallMutex, ReturnsAsOwner
<1>8. MuxQueued' /\ CondQueued'
  BY <1>1, <1>2, <1>3, <1>4 DEF MuxQueued, CondQueued
<1>9. BarQueued'
  BY <1>2, <1>3, <1>4, <1>5, Zenon DEF BarQueued
<1>10. OnePlace'
  BY <1>1, <1>5 DEF OnePlace
<1>11. StalledQueued'
  <2>1. \A u \in Thread : Queued(u) => Queued(u)'
    BY <1>1, <1>5 DEF Queued
  <2>2. Queued(t)'
    BY <1>5 DEF Queued
  <2> QED BY <2>1, <2>2, <1>2 DEF StalledQueued
<1>12. NoIdleWaiters'
  <2>1. Len(barWaiting) \in Nat /\ Len(barWaiting) < Count /\ Len(barWaiting) # Count - 1
    BY DEF NoIdleWaiters, IsLast, TypeOK
  <2>2. Len(barWaiting') < Count
    BY <2>1, <1>5, CountFacts
  <2> QED BY <2>2, <1>1 DEF NoIdleWaiters
<1>13. Episodes'
  <2>1. \A u \in Thread : arrived[u] \in Nat /\ passed[u] \in Nat
    BY DEF TypeOK
  <2>2. Level(t)' = Level(t)
    BY <2>1, <1>2, <1>3, <1>5 DEF Level
  <2>3. \A u \in Thread : u # t => Level(u)' = Level(u)
    BY <1>2, <1>5 DEF Level
  <2>4. \A u \in Thread : Level(u)' = Level(u)
    BY <2>2, <2>3
  <2>5. \A u \in Thread : arrived'[u] = passed'[u] + IF call'[u].kind = "barrier" THEN 1 ELSE 0
    BY <2>1, <1>1, <1>2 DEF Episodes, NoCall
  <2> QED BY <2>4, <2>5 DEF Episodes
<1> QED BY <1>6, <1>7, <1>8, <1>9, <1>10, <1>11, <1>12, <1>13

(* The return from a call.                                                  *)
LEMMA ReturnInv ==
  ASSUME SyncInv, NEW t \in Thread, Return(t)
  PROVE  SyncInv'
<1> USE DEF SyncInv
<1>1. /\ call' = [call EXCEPT ![t] = NoCall]
      /\ passed' = IF call[t].kind = "barrier" THEN [passed EXCEPT ![t] = @ + 1] ELSE passed
      /\ UNCHANGED <<status, owner, muxWaiting, condWaiting, barWaiting, arrived>>
      /\ status[t] = "RUNNING"
  BY DEF Return
<1>2. /\ \A u \in Thread : u # t => call'[u] = call[u] /\ passed'[u] = passed[u]
      /\ call'[t] = NoCall
      /\ passed'[t] = passed[t] + IF call[t].kind = "barrier" THEN 1 ELSE 0
      /\ passed' \in [Thread -> Nat]
  BY <1>1 DEF TypeOK
<1>3. /\ \A n \in Mutex : t \notin Ran(muxWaiting[n])
      /\ \A c \in Cond : \A w \in Ran(condWaiting[c]) : w[1] # t
      /\ t \notin Ran(barWaiting)
  BY <1>1, IdleNotQueued
<1>4. /\ \A n \in Mutex : Ran(muxWaiting[n]) \subseteq Thread
      /\ \A c \in Cond : \A w \in Ran(condWaiting[c]) : w[1] \in Thread
      /\ Ran(barWaiting) \subseteq Thread
  BY QueueTypes
<1>5. TypeOK'
  BY <1>1, <1>2 DEF TypeOK, Calls, NoCall
<1>6. CallMutex' /\ ReturnsAsOwner'
  <2>1. call'[t].kind \notin {"lock", "cond"}
    BY <1>2 DEF NoCall
  <2>2. CallMutex'
    BY <1>2, <2>1, Zenon DEF CallMutex
  <2>3. ReturnsAsOwner'
    BY <1>1, <1>2, <2>1, Zenon DEF ReturnsAsOwner
  <2> QED BY <2>2, <2>3
<1>7. MuxQueued' /\ CondQueued' /\ BarQueued'
  <2>1. MuxQueued'
    <3>1. ASSUME NEW n \in Mutex, NEW u \in Ran(muxWaiting[n])
          PROVE  status[u] = "STALLED" /\ call'[u].kind \in {"lock", "cond"} /\ call'[u].mux = n
      <4>1. u \in Thread /\ u # t
        BY <1>3, <1>4, Zenon
      <4>2. status[u] = "STALLED" /\ call[u].kind \in {"lock", "cond"} /\ call[u].mux = n
        BY Zenon DEF MuxQueued
      <4>3. call'[u] = call[u]
        BY <1>2, <4>1, Zenon
      <4> QED BY <4>2, <4>3, Zenon
    <3>2. muxWaiting' = muxWaiting /\ status' = status
      BY <1>1, Zenon
    <3> QED BY <3>1, <3>2, Zenon DEF MuxQueued
  <2>2. CondQueued'
    <3>1. ASSUME NEW c \in Cond, NEW w \in Ran(condWaiting[c])
          PROVE  status[w[1]] = "STALLED" /\ call'[w[1]].kind = "cond" /\ call'[w[1]].mux = w[2]
      <4>1. w[1] \in Thread /\ w[1] # t
        BY <1>3, <1>4, Zenon
      <4>2. status[w[1]] = "STALLED" /\ call[w[1]].kind = "cond" /\ call[w[1]].mux = w[2]
        BY Zenon DEF CondQueued
      <4>3. call'[w[1]] = call[w[1]]
        BY <1>2, <4>1, Zenon
      <4> QED BY <4>2, <4>3, Zenon
    <3>2. condWaiting' = condWaiting /\ status' = status
      BY <1>1, Zenon
    <3> QED BY <3>1, <3>2, Zenon DEF CondQueued
  <2>3. BarQueued'
    BY <1>1, <1>2, <1>3, <1>4, Zenon DEF BarQueued
  <2> QED BY <2>1, <2>2, <2>3
<1>8. OnePlace' /\ StalledQueued' /\ NoIdleWaiters'
  BY <1>1 DEF OnePlace, StalledQueued, Queued, NoIdleWaiters
<1>9. Episodes'
  <2>1. \A u \in Thread : arrived[u] \in Nat /\ passed[u] \in Nat
    BY DEF TypeOK
  <2>2. \A u \in Thread : arrived'[u] = passed'[u] + IF call'[u].kind = "barrier" THEN 1 ELSE 0
    <3>1. arrived'[t] = passed'[t] + IF call'[t].kind = "barrier" THEN 1 ELSE 0
      <4>1. arrived[t] = passed[t] + IF call[t].kind = "barrier" THEN 1 ELSE 0
        BY DEF Episodes
      <4>2. arrived'[t] = passed'[t] /\ call'[t].kind # "barrier" /\ passed'[t] \in Nat
        BY <4>1, <1>1, <1>2 DEF NoCall
      <4> HIDE DEF SyncInv
      <4> QED BY <4>2
    <3>2. ASSUME NEW u \in Thread, u # t
          PROVE  arrived'[u] = passed'[u] + IF call'[u].kind = "barrier" THEN 1 ELSE 0
      <4>1. arrived[u] = passed[u] + IF call[u].kind = "barrier" THEN 1 ELSE 0
        BY DEF Episodes
      <4> QED BY <3>2, <4>1, <1>1, <1>2, Zenon
    <3> QED BY <3>1, <3>2
  <2> QED BY <2>2, <1>1 DEF Episodes, Level
<1> QED BY <1>5, <1>6, <1>7, <1>8, <1>9

(* Every step keeps the invariant.                                          *)
LEMMA NextSync == SyncInv /\ [Next]_vars => SyncInv'
<1> SUFFICES ASSUME SyncInv, [Next]_vars PROVE SyncInv'
  OBVIOUS
<1>1. CASE UNCHANGED vars
  <2>1. /\ status' = status /\ call' = call /\ owner' = owner /\ muxWaiting' = muxWaiting
        /\ condWaiting' = condWaiting /\ barWaiting' = barWaiting /\ arrived' = arrived
        /\ passed' = passed
    BY <1>1 DEF vars
  <2>2. TypeOK' /\ CallMutex' /\ ReturnsAsOwner'
    BY <2>1, Zenon DEF SyncInv, TypeOK, CallMutex, ReturnsAsOwner
  <2>3. MuxQueued' /\ CondQueued' /\ BarQueued'
    <3>1. MuxQueued'
      BY <2>1, Zenon DEF SyncInv, MuxQueued
    <3>2. CondQueued'
      BY <2>1, Zenon DEF SyncInv, CondQueued
    <3>3. BarQueued'
      BY <2>1, Zenon DEF SyncInv, BarQueued
    <3> QED BY <3>1, <3>2, <3>3
  <2>4. OnePlace'
    BY <2>1, Zenon DEF SyncInv, OnePlace
  <2>5. StalledQueued'
    BY <2>1, Zenon DEF SyncInv, StalledQueued, Queued
  <2>6. NoIdleWaiters'
    BY <2>1, Zenon DEF SyncInv, NoIdleWaiters
  <2>7. Episodes'
    BY <2>1, Zenon DEF SyncInv, Episodes, Level
  <2> QED BY <2>2, <2>3, <2>4, <2>5, <2>6, <2>7 DEF SyncInv
<1>2. CASE Next
  <2>1. PICK t \in Thread :
          \/ \E m \in Mutex, try \in BOOLEAN : MutexLock(t, m, try)
          \/ \E m \in Mutex : MutexUnlock(t, m)
          \/ \E c \in Cond, m \in Mutex : CondWait(t, c, m)
          \/ \E c \in Cond : CondSignal(t, c) \/ CondBroadcast(t, c)
          \/ BarrierWait(t)
          \/ Return(t)
    BY <1>2 DEF Next
  <2> QED BY <2>1, LockTaken, LockWaits, MutexUnlockInv, CondWaitInv, CondSignalInv,
             CondBroadcastInv, BarrierLetsGo, BarrierWaits, ReturnInv, Zenon
<1> QED BY <1>1, <1>2

-----------------------------------------------------------------------------
\* p is a place of thread t in the queue of a mutex, of a condition, of the barrier.
InMux(t, p) ==
  \E m \in Mutex : \E i \in DOMAIN muxWaiting[m] : muxWaiting[m][i] = t /\ p = <<"mutex", m, i>>

InCond(t, p) ==
  \E c \in Cond : \E i \in DOMAIN condWaiting[c] :
    condWaiting[c][i][1] = t /\ p = <<"cond", c, i>>

InBar(t, p) == \E i \in DOMAIN barWaiting : barWaiting[i] = t /\ p = <<"barrier", "", i>>

(* The places of a thread in the queues.                                    *)
LEMMA PlacesFacts ==
  ASSUME NEW t
  PROVE  \A p : p \in Places(t) <=> InMux(t, p) \/ InCond(t, p) \/ InBar(t, p)
<1> DEFINE mux(m) == {<<"mutex", m, i>> : i \in {j \in DOMAIN muxWaiting[m] : muxWaiting[m][j] = t}}
           cond(c) == {<<"cond", c, i>> : i \in {j \in DOMAIN condWaiting[c] : condWaiting[c][j][1] = t}}
           bar == {<<"barrier", "", i>> : i \in {j \in DOMAIN barWaiting : barWaiting[j] = t}}
<1>1. Places(t) = UNION ({mux(m) : m \in Mutex} \cup {cond(c) : c \in Cond} \cup {bar})
  BY Zenon DEF Places
<1>2. \A p : (\E m \in Mutex : p \in mux(m)) <=> InMux(t, p)
  BY Zenon DEF InMux
<1>3. \A p : (\E c \in Cond : p \in cond(c)) <=> InCond(t, p)
  BY Zenon DEF InCond
<1>4. \A p : p \in bar <=> InBar(t, p)
  BY Zenon DEF InBar
<1> HIDE DEF mux, cond, bar
<1>5. \A p : p \in Places(t) <=> (\E m \in Mutex : p \in mux(m))
                              \/ (\E c \in Cond : p \in cond(c)) \/ p \in bar
  BY <1>1, Zenon
<1> QED BY <1>2, <1>3, <1>4, <1>5, Zenon

(* A thread in a queue has a place there, and only then.                    *)
LEMMA RanPlaces ==
  ASSUME NEW t
  PROVE  /\ \A p : InMux(t, p) => \E m \in Mutex : t \in Ran(muxWaiting[m])
         /\ \A p : InCond(t, p) => \E c \in Cond : \E w \in Ran(condWaiting[c]) : w[1] = t
         /\ \A p : InBar(t, p) => t \in Ran(barWaiting)
         /\ (\E m \in Mutex : t \in Ran(muxWaiting[m])) => \E p : InMux(t, p)
         /\ (\E c \in Cond : \E w \in Ran(condWaiting[c]) : w[1] = t) => \E p : InCond(t, p)
         /\ t \in Ran(barWaiting) => \E p : InBar(t, p)
<1>1. \A s, x : x \in Ran(s) <=> \E i \in DOMAIN s : s[i] = x
  BY DEF Ran
<1>2. \A p : InMux(t, p) => \E m \in Mutex : t \in Ran(muxWaiting[m])
  BY <1>1, Zenon DEF InMux
<1>3. \A p : InCond(t, p) => \E c \in Cond : \E w \in Ran(condWaiting[c]) : w[1] = t
  BY <1>1, Zenon DEF InCond
<1>4. \A p : InBar(t, p) => t \in Ran(barWaiting)
  BY <1>1, Zenon DEF InBar
<1>5. (\E m \in Mutex : t \in Ran(muxWaiting[m])) => \E p : InMux(t, p)
  BY <1>1, Zenon DEF InMux
<1>6. (\E c \in Cond : \E w \in Ran(condWaiting[c]) : w[1] = t) => \E p : InCond(t, p)
  <2> SUFFICES ASSUME NEW c \in Cond, NEW w \in Ran(condWaiting[c]), w[1] = t
               PROVE  \E p : InCond(t, p)
    OBVIOUS
  <2>1. PICK i \in DOMAIN condWaiting[c] : condWaiting[c][i] = w
    BY <1>1
  <2>2. InCond(t, <<"cond", c, i>>)
    BY <2>1 DEF InCond
  <2> QED BY <2>2
<1>7. t \in Ran(barWaiting) => \E p : InBar(t, p)
  BY <1>1, Zenon DEF InBar
<1> QED BY <1>2, <1>3, <1>4, <1>5, <1>6, <1>7, Zenon

(* The invariant leaves a stalled thread exactly one place and a running    *)
(* one none.                                                                *)
LEMMA QueuedOnceHolds == SyncInv => QueuedOnce
<1> SUFFICES ASSUME SyncInv, NEW t \in Thread
             PROVE  Cardinality(Places(t)) = IF status[t] = "STALLED" THEN 1 ELSE 0
  BY DEF QueuedOnce
<1> USE DEF SyncInv
<1>1. \A s : \A i \in DOMAIN s : s[i] \in Ran(s)
  BY DEF Ran
<1>2. CASE status[t] # "STALLED"
  <2>1. status[t] = "RUNNING"
    BY <1>2 DEF TypeOK
  <2>2. \A p : ~InMux(t, p) /\ ~InCond(t, p) /\ ~InBar(t, p)
    <3>1. /\ \A n \in Mutex : t \notin Ran(muxWaiting[n])
          /\ \A c \in Cond : \A w \in Ran(condWaiting[c]) : w[1] # t
          /\ t \notin Ran(barWaiting)
      BY <2>1, IdleNotQueued, Zenon
    <3> QED BY <3>1, RanPlaces, Zenon
  <2>3. Places(t) = {}
    BY <2>2, PlacesFacts
  <2> QED BY <1>2, <2>3, FS_EmptySet
<1>3. CASE status[t] = "STALLED"
  <2>1. \E p : p \in Places(t)
    <3>1. Queued(t)
      BY <1>3 DEF StalledQueued
    <3>2. \E p : InMux(t, p) \/ InCond(t, p) \/ InBar(t, p)
      BY <3>1, RanPlaces, Zenon DEF Queued
    <3> QED BY <3>2, PlacesFacts, Zenon
  <2>2. ASSUME NEW m \in Mutex, NEW i \in DOMAIN muxWaiting[m], muxWaiting[m][i] = t,
               NEW q \in Places(t)
        PROVE  q = <<"mutex", m, i>>
    <3>1. t \in Ran(muxWaiting[m])
      BY <2>2, <1>1
    <3>2. call[t].kind \in {"lock", "cond"} /\ call[t].mux = m
      BY <3>1 DEF MuxQueued
    <3>3. t \notin Ran(barWaiting)
      BY <3>2 DEF BarQueued
    <3>4. \A c \in Cond : \A w \in Ran(condWaiting[c]) : w[1] # t
      BY <3>1 DEF OnePlace
    <3>5. \A n \in Mutex : t \in Ran(muxWaiting[n]) => n = m
      BY <3>2 DEF MuxQueued
    <3>6. PICK n \in Mutex : \E j \in DOMAIN muxWaiting[n] :
                               muxWaiting[n][j] = t /\ q = <<"mutex", n, j>>
      <4>1. ~InCond(t, q) /\ ~InBar(t, q)
        BY <3>3, <3>4, RanPlaces
      <4>2. InMux(t, q)
        BY <4>1, PlacesFacts
      <4> QED BY <4>2 DEF InMux
    <3>7. PICK j \in DOMAIN muxWaiting[n] : muxWaiting[n][j] = t /\ q = <<"mutex", n, j>>
      BY <3>6
    <3>8. n = m
      BY <3>5, <3>7, <1>1
    <3>9. j = i
      BY <2>2, <3>7, <3>8 DEF OnePlace, Distinct
    <3> QED BY <3>7, <3>8, <3>9
  <2>3. ASSUME NEW c \in Cond, NEW i \in DOMAIN condWaiting[c], condWaiting[c][i][1] = t,
               NEW q \in Places(t)
        PROVE  q = <<"cond", c, i>>
    <3>1. condWaiting[c][i] \in Ran(condWaiting[c])
      BY <1>1
    <3>2. call[t].kind = "cond" /\ t \notin Ran(barWaiting)
      BY <2>3, <3>1 DEF CondQueued, BarQueued
    <3>3. \A n \in Mutex : t \notin Ran(muxWaiting[n])
      BY <2>3, <3>1 DEF OnePlace
    <3>4. PICK d \in Cond : \E j \in DOMAIN condWaiting[d] :
                              condWaiting[d][j][1] = t /\ q = <<"cond", d, j>>
      <4>1. ~InMux(t, q) /\ ~InBar(t, q)
        BY <3>2, <3>3, RanPlaces
      <4>2. InCond(t, q)
        BY <4>1, PlacesFacts
      <4> QED BY <4>2 DEF InCond
    <3>5. PICK j \in DOMAIN condWaiting[d] : condWaiting[d][j][1] = t /\ q = <<"cond", d, j>>
      BY <3>4
    <3>6. condWaiting[d][j] \in Ran(condWaiting[d])
      BY <1>1
    <3>7. d = c
      BY <2>3, <3>1, <3>5, <3>6 DEF OnePlace
    <3>8. j = i
      BY <2>3, <3>5, <3>7 DEF OnePlace, DistinctFirst
    <3> QED BY <3>5, <3>7, <3>8
  <2>4. ASSUME NEW i \in DOMAIN barWaiting, barWaiting[i] = t, NEW q \in Places(t)
        PROVE  q = <<"barrier", "", i>>
    <3>1. call[t].kind = "barrier"
      BY <2>4, <1>1 DEF BarQueued
    <3>2. \A n \in Mutex : t \notin Ran(muxWaiting[n])
      BY <3>1 DEF MuxQueued
    <3>3. \A c \in Cond : \A w \in Ran(condWaiting[c]) : w[1] # t
      BY <3>1 DEF CondQueued
    <3>4. PICK j \in DOMAIN barWaiting : barWaiting[j] = t /\ q = <<"barrier", "", j>>
      <4>1. ~InMux(t, q) /\ ~InCond(t, q)
        BY <3>2, <3>3, RanPlaces, Zenon
      <4>2. InBar(t, q)
        BY <4>1, PlacesFacts
      <4> QED BY <4>2, Zenon DEF InBar
    <3>5. j = i
      BY <2>4, <3>4, Zenon DEF OnePlace, Distinct
    <3> QED BY <3>4, <3>5, Zenon
  <2>5. ASSUME NEW p \in Places(t), NEW q \in Places(t) PROVE q = p
    <3>1. CASE InMux(t, p)
      BY <3>1, <2>2 DEF InMux
    <3>2. CASE InCond(t, p)
      BY <3>2, <2>3 DEF InCond
    <3>3. CASE InBar(t, p)
      BY <3>3, <2>4, Zenon DEF InBar
    <3> QED BY <3>1, <3>2, <3>3, PlacesFacts, Zenon
  <2>6. \E p : Places(t) = {p}
    BY <2>1, <2>5
  <2>7. Cardinality(Places(t)) = 1
    BY <2>6, FS_Singleton
  <2> QED BY <1>3, <2>7
<1> QED BY <1>2, <1>3

(* The invariant keeps the episodes of the barrier apart.                   *)
LEMMA BarrierSeparatesHolds == SyncInv => BarrierSeparates
<1> SUFFICES ASSUME SyncInv, NEW t \in Thread, NEW u \in Thread PROVE passed[t] <= arrived[u]
  BY DEF BarrierSeparates
<1>1. /\ arrived[t] \in Nat /\ passed[t] \in Nat /\ arrived[u] \in Nat /\ Level(t) = Level(u)
      /\ arrived[t] = passed[t] + IF call[t].kind = "barrier" THEN 1 ELSE 0
  BY DEF SyncInv, TypeOK, Episodes
<1>2. t \in Ran(barWaiting) => call[t].kind = "barrier"
  BY DEF SyncInv, BarQueued
<1>3. passed[t] <= Level(t)
  BY <1>1, <1>2 DEF Level
<1>4. Level(u) <= arrived[u] /\ Level(u) \in Int
  BY <1>1 DEF Level
<1> QED BY <1>1, <1>3, <1>4

(* The invariant that the results below rest on.                            *)
THEOREM SyncInvariant == Spec => []SyncInv
BY InitSync, NextSync, PTL DEF Spec

(* A mutexLock or condWait returns only to the owner of its mutex, however  *)
(* unlocks, signals and broadcasts interleave, for any number of threads,   *)
(* mutexes and conditions.                                                  *)
THEOREM AlwaysReturnsAsOwner == Spec => []ReturnsAsOwner
<1>1. SyncInv => ReturnsAsOwner
  BY DEF SyncInv
<1> QED BY <1>1, SyncInvariant, PTL

(* A stalled thread is in exactly one queue, a running one in none, and     *)
(* nobody waits for a free mutex or in a full barrier.                      *)
THEOREM WaitersAlwaysSound == Spec => []WaitersSound
<1>1. SyncInv => WaitersSound
  BY QueuedOnceHolds DEF SyncInv, WaitersSound
<1> QED BY <1>1, SyncInvariant, PTL

(* No thread passes SimBarrier before all have entered it, for any number   *)
(* of threads and episodes.                                                 *)
THEOREM BarrierAlwaysSeparates == Spec => []BarrierSeparates
BY BarrierSeparatesHolds, SyncInvariant, PTL
=============================================================================
