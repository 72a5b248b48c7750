-------------------------- MODULE BarrierSyncFacts --------------------------
(***************************************************************************)
(* The first layer of BarrierSync's inductive invariant, and what the      *)
(* actions of the specification do, in the form in which the proofs use    *)
(* it.                                                                     *)
(***************************************************************************)
EXTENDS BarrierSync, WellFoundedInduction, TLAPS

\* Where a thread is tells what ThreadManager records about it; only a thread
\* that is woken while it still holds the lock is ahead of its place.
StatusOfPlace ==
  \A c \in Core :
    /\ pc[c] \in {"run", "barrier", "synced", "syncing", "resumed"} => status[c] = "RUNNING"
    /\ pc[c] \in {"stalled", "blocked", "unblocking", "blocking"} => status[c] = "STALLED"
    /\ pc[c] \in {"stalling", "signalling", "advancing"} => status[c] \in {"STALLED", "RUNNING"}
    /\ pc[c] \in {"new", "exited", "exiting"} => status[c] = "IDLE"
    /\ pc[c] = "init" => status[c] = "INITIALIZING"

\* A sleeper is in the list once, and is stalled or about to be.
SleepersStalled ==
  /\ \A i \in DOMAIN sleeping :
       /\ status[sleeping[i].thread] = "STALLED"
       /\ pc[sleeping[i].thread] \in {"stalled", "stalling", "signalling", "advancing"}
  /\ \A i, j \in DOMAIN sleeping : sleeping[i].thread = sleeping[j].thread => i = j

\* The clock of a core in the barrier is the one it reported, and that of a core
\* still to be let go is behind the barrier.
ClocksReported ==
  /\ \A c \in acquired \cup toRelease : localClock[c] = elapsed[c]
  /\ \A c \in toRelease : localClock[c] < nextBarrier

\* Inside barrierRelease.
InRelease ==
  lock # NoCore =>
    /\ pc[lock] \in ReleasePlaces \ {"advancing"} => ~disabled
    /\ pc[lock] = "advancing" => ~AnyThreadRunning(status)
    /\ pc[lock] = "syncing" => lock \in acquired \/ acquired = {}

BarrierInv ==
  /\ TypeOK /\ AssertionsHold /\ NoLostRelease
  /\ StatusOfPlace /\ SleepersStalled /\ ClocksReported /\ InRelease

\* A set of times has a smallest one.
LEMMA NatMin ==
  ASSUME NEW T, T \subseteq Nat, T # {}
  PROVE  \E m \in T : \A x \in T : m <= x
<1>1. PICK m \in T : \A x \in T : ~(<<x, m>> \in OpToRel(<, Nat))
  BY NatLessThanWellFounded, WFMin, Zenon
<1>2. ASSUME NEW x \in T, x < m PROVE FALSE
  BY <1>1, <1>2, Zenon DEF OpToRel
<1> QED BY <1>2

\* Of the cores of a set one has the largest time: a shortest list of cores without
\* such a one, if there were any, would have a last core beside which the rest has one.
LEMMA FiniteMax ==
  ASSUME NEW f \in [Core -> Nat], NEW S \in SUBSET Core, S # {}
  PROVE  \E m \in S : \A x \in S : f[x] <= f[m]
<1>1. PICK q \in Seq(Core) : \A c \in Core : \E n \in 1 .. Len(q) : q[n] = c
  BY BarrierConstants DEF IsFiniteSet
<1> DEFINE U(k) == {c \in S : \E n \in 1 .. k : q[n] = c}
           HasMax(k) == \E m \in U(k) : \A x \in U(k) : f[x] <= f[m]
           Bad == {k \in Nat : k <= Len(q) /\ U(k) # {} /\ ~HasMax(k)}
<1>2. Len(q) \in Nat /\ U(Len(q)) = S
  <2>1. Len(q) \in Nat
    OBVIOUS
  <2>2. \A c \in S : \E n \in 1 .. Len(q) : q[n] = c
    BY <1>1, Zenon
  <2>3. U(Len(q)) = S
    BY <2>2, Zenon
  <2> QED BY <2>1, <2>3
<1>3. ASSUME NEW k \in Bad, \A l \in Bad : k <= l PROVE FALSE
  <2>1. k \in Nat /\ k # 0 /\ k <= Len(q) /\ U(k) # {} /\ ~HasMax(k)
    OBVIOUS
  <2>2. k - 1 \in Nat /\ k - 1 <= Len(q) /\ k - 1 \notin Bad /\ k \in 1 .. Len(q)
    <3>1. k - 1 \in Nat /\ k - 1 <= Len(q) /\ ~(k <= k - 1) /\ k \in 1 .. Len(q)
      BY <1>2, <2>1
    <3> HIDE DEF Bad
    <3> QED BY <1>3, <3>1
  <2>3. U(k - 1) = {} \/ HasMax(k - 1)
    BY <2>2
  <2>4. q[k] \in Core /\ \A n \in 1 .. k : n \in 1 .. k - 1 \/ n = k
    <3>1. \A n \in 1 .. k : n \in 1 .. k - 1 \/ n = k
      BY <2>1, <2>2
    <3> QED BY <2>2, <3>1
  <2>5. \A n \in 1 .. k - 1 : n \in 1 .. k
    BY <2>2
  <2>6. U(k) \subseteq U(k - 1) \cup {q[k]} /\ U(k - 1) \subseteq U(k)
    BY <2>4, <2>5
  <2>7. CASE q[k] \notin S
    <3>1. U(k) = U(k - 1)
      BY <2>6, <2>7
    <3> QED BY <2>1, <2>3, <3>1, Zenon
  <2>8. CASE q[k] \in S
    <3>1. U(k) = U(k - 1) \cup {q[k]}
      BY <2>2, <2>6, <2>8
    <3> DEFINE V == U(k - 1)  a == q[k]
    <3>2. V \subseteq Core /\ a \in Core
      BY <2>4
    <3>3. ~\E m \in V \cup {a} : \A x \in V \cup {a} : f[x] <= f[m]
      BY <2>1, <3>1, Zenon
    <3>4. V = {} \/ \E m \in V : \A x \in V : f[x] <= f[m]
      BY <2>3
    <3> HIDE DEF V, a
    <3>5. CASE V = {}
      <4>1. f[a] <= f[a]
        BY <3>2
      <4> QED BY <3>3, <3>5, <4>1
    <3>6. ASSUME NEW m \in V, \A x \in V : f[x] <= f[m] PROVE FALSE
      <4>1. \A x \in V : f[x] \in Nat /\ f[a] \in Nat
        BY <3>2
      <4>2. CASE f[a] <= f[m]
        BY <3>3, <3>6, <4>2
      <4>3. CASE f[m] <= f[a]
        BY <3>3, <3>6, <4>1, <4>3
      <4> QED BY <4>1, <4>2, <4>3
    <3> QED BY <3>4, <3>5, <3>6
  <2> QED BY <2>7, <2>8
<1>4. Bad = {}
  <2>1. Bad \subseteq Nat
    OBVIOUS
  <2> HIDE DEF Bad
  <2> QED BY <1>3, <2>1, NatMin, Zenon
<1>5. Len(q) \notin Bad
  BY <1>4, Zenon
<1>6. HasMax(Len(q))
  BY <1>2, <1>5
<1> HIDE DEF U
<1> QED BY <1>2, <1>6

\* The barrier never moves back when it moves to the latest of the cores' times.
LEMMA MaxOfType ==
  ASSUME NEW f \in [Core -> Nat], NEW S \in SUBSET Core, NEW t \in Nat
  PROVE  MaxOf(f, S, t) \in Nat /\ MaxOf(f, S, t) >= t
<1> DEFINE T == {t} \cup {f[c] : c \in S}
<1>1. \E m \in T : \A x \in T : x <= m
  <2>1. CASE S = {}
    BY <2>1
  <2>2. CASE S # {}
    <3>1. PICK c \in S : \A x \in S : f[x] <= f[c]
      BY <2>2, FiniteMax
    <3>2. CASE f[c] <= t
      BY <3>1, <3>2
    <3>3. CASE t <= f[c]
      BY <3>1, <3>3
    <3> QED BY <3>2, <3>3
  <2> QED BY <2>1, <2>2
<1> QED BY <1>1 DEF MaxOf

\* A core that is short of a barrier synchronizes next at that barrier or before.
LEMMA NextSyncType ==
  ASSUME NEW t \in Nat
  PROVE  /\ NextSyncAfter(t) \in Nat
         /\ \A k \in Nat : t < k * Quantum => NextSyncAfter(t) <= k * Quantum
<1>1. Quantum \in Nat /\ Quantum > 0
  BY BarrierConstants
<1> DEFINE q == t \div Quantum
<1>2. q \in Nat /\ t = Quantum * q + (t % Quantum)
  BY <1>1
<1>3. q * Quantum \in Nat
  BY <1>1, <1>2
<1>4. ASSUME NEW k \in Nat, t < k * Quantum
      PROVE  q * Quantum + Quantum <= k * Quantum
  <2>1. q < k
    BY <1>1, <1>2, <1>4
  <2>2. k = q + 1 + (k - q - 1) /\ k - q - 1 \in Nat
    BY <1>2, <2>1
  <2> QED BY <1>1, <1>2, <2>2
<1> QED BY <1>1, <1>3, <1>4 DEF NextSyncAfter

(***************************************************************************)
(* Lemmas about the operators of the specification.                        *)
(***************************************************************************)
Statuses == {"INITIALIZING", "RUNNING", "STALLED", "IDLE"}

Sleepers == [thread : Core, timeout : Nat]

\* What signals do to the places.
LEMMA SignalTypes ==
  ASSUME NEW p \in [Core -> Places], NEW S, NEW w \in Core
  PROVE  /\ SignalBarrier(p, S) \in [Core -> Places]
         /\ \A c \in Core : SignalBarrier(p, S)[c] =
              IF c \in S /\ p[c] = "barrier" THEN "synced" ELSE p[c]
         /\ SignalThread(p, w) \in [Core -> Places]
         /\ \A c \in Core : SignalThread(p, w)[c] =
              IF c = w /\ p[c] = "stalled" THEN "resumed" ELSE p[c]
BY DEF SignalBarrier, SignalThread, Places

\* Taking an entry out of the list of sleepers keeps the others, in their order.
LEMMA Removal ==
  ASSUME NEW S, NEW q \in Seq(S), NEW i \in DOMAIN q
  PROVE  LET r == SubSeq(q, 1, i - 1) \o SubSeq(q, i + 1, Len(q))
         IN  /\ r \in Seq(S) /\ Len(r) = Len(q) - 1
             /\ \A j \in DOMAIN r : /\ j \in 1 .. Len(r)
                                    /\ r[j] = IF j < i THEN q[j] ELSE q[j + 1]
<1> DEFINE a == SubSeq(q, 1, i - 1)
           b == SubSeq(q, i + 1, Len(q))
           r == a \o b
<1>1. Len(q) \in Nat /\ i \in 1 .. Len(q)
  OBVIOUS
<1>2. /\ a \in Seq(S) /\ Len(a) = i - 1
      /\ b \in Seq(S) /\ Len(b) = Len(q) - i
  BY <1>1
<1>3. \A j \in 1 .. i - 1 : a[j] = q[j]
  BY <1>1
<1>4. \A j \in 1 .. Len(q) - i : b[j] = q[i + j]
  BY <1>1
<1> HIDE DEF a, b
<1>5. r \in Seq(S) /\ Len(r) = Len(q) - 1
  BY <1>1, <1>2
<1>6. ASSUME NEW j \in DOMAIN r
      PROVE  /\ j \in 1 .. Len(r)
             /\ r[j] = IF j < i THEN q[j] ELSE q[j + 1]
  <2>1. j \in 1 .. Len(r)
    BY <1>5
  <2> HIDE DEF r
  <2>2. j \in Nat /\ 1 <= j /\ j <= Len(q) - 1
    BY <2>1, <1>1, <1>5
  <2>3. CASE j < i
    <3>1. r[j] = a[j]
      BY <2>2, <2>3, <1>1, <1>2 DEF r
    <3> QED BY <2>1, <2>2, <2>3, <3>1, <1>1, <1>3
  <2>4. CASE j >= i
    <3>1. j \in 1 .. Len(a) + Len(b) /\ ~(j <= Len(a))
      BY <2>2, <2>4, <1>1, <1>2
    <3>2. r[j] = b[j - Len(a)]
      BY <3>1, <1>2 DEF r
    <3>3. j - Len(a) \in 1 .. Len(q) - i /\ i + (j - Len(a)) = j + 1
      BY <2>2, <2>4, <1>1, <1>2
    <3>4. r[j] = q[j + 1]
      BY <3>2, <3>3, <1>4
    <3> QED BY <2>1, <2>2, <2>4, <3>4, <1>1
  <2> QED BY <2>2, <2>3, <2>4, <1>1
<1> QED BY <1>5, <1>6, Zenon DEF a, b

\* futexPeriodic does nothing or takes one thread out of the list and resumes it.
LEMMA FutexFacts ==
  ASSUME TypeOK, NEW t \in Nat
  PROVE  \E st, p, wk, sl :
           /\ FutexPeriodic(Hooked, t) =
                [status |-> st, pc |-> p, wakeup |-> wk, sleeping |-> sl,
                 acquired |-> acquired, nextBarrier |-> nextBarrier,
                 fastforward |-> fastforward, disabled |-> disabled]
           /\ \/ st = status /\ p = pc /\ wk = wakeup /\ sl = sleeping
              \/ \E i \in DOMAIN sleeping :
                   LET w == sleeping[i].thread
                   IN  /\ st = [status EXCEPT ![w] = "RUNNING"]
                       /\ p = SignalThread(pc, w)
                       /\ wk = [wakeup EXCEPT ![w] = t]
                       /\ sl = SubSeq(sleeping, 1, i - 1) \o SubSeq(sleeping, i + 1, Len(sleeping))
<1> DEFINE due == {i \in DOMAIN sleeping : sleeping[i].timeout <= t}
           i == CHOOSE x \in due : \A y \in due : x <= y
           w == sleeping[i].thread
<1>1. CASE due = {}
  BY <1>1, Zenon DEF FutexPeriodic, Hooked
<1>2. CASE due # {}
  <2>1. due \subseteq Nat
    BY DEF TypeOK
  <2>2. i \in due
    <3>1. \E x \in due : \A y \in due : x <= y
      <4> HIDE DEF due
      <4> QED BY <2>1, <1>2, NatMin, Zenon
    <3> QED BY <3>1
  <2> HIDE DEF i
  <2>3. FutexPeriodic(Hooked, t) =
          [Hooked EXCEPT !.sleeping = SubSeq(@, 1, i - 1) \o SubSeq(@, i + 1, Len(@)),
                         !.status[w] = "RUNNING", !.wakeup[w] = t,
                         !.pc = SignalThread(@, w)]
    BY <1>2 DEF FutexPeriodic, Hooked, i
  <2>4. FutexPeriodic(Hooked, t) =
          [status |-> [status EXCEPT ![w] = "RUNNING"], pc |-> SignalThread(pc, w),
           wakeup |-> [wakeup EXCEPT ![w] = t],
           sleeping |-> SubSeq(sleeping, 1, i - 1) \o SubSeq(sleeping, i + 1, Len(sleeping)),
           acquired |-> acquired, nextBarrier |-> nextBarrier,
           fastforward |-> fastforward, disabled |-> disabled]
    BY <2>3, ZenonT(30) DEF Hooked
  <2> QED BY <2>2, <2>4, Zenon
<1> QED BY <1>1, <1>2, Zenon

\* A record of what the hooks may change.
Rec(st, p, wk, sl, acq, nb, ff, dis) ==
  [status |-> st, pc |-> p, wakeup |-> wk, sleeping |-> sl,
   acquired |-> acq, nextBarrier |-> nb, fastforward |-> ff, disabled |-> dis]

\* In fast-forward mode the barrier moves to the latest core, never back.
LEMMA FastForwardFacts ==
  ASSUME TypeOK, NEW st, NEW p, NEW wk, NEW sl, NEW acq, NEW nb \in Nat, NEW ff,
         NEW dis, ff \in BOOLEAN
  PROVE  \E nb2 \in Nat :
           /\ FastForwardStep(Rec(st, p, wk, sl, acq, nb, ff, dis)) =
                Rec(st, p, wk, sl, acq, nb2, ff, dis)
           /\ nb2 >= nb /\ (~ff => nb2 = nb)
<1> DEFINE m == MaxOf(elapsed, Core, nb)
<1>1. m \in Nat /\ m >= nb
  BY MaxOfType, Zenon DEF TypeOK, Time
<1> HIDE DEF m
<1>2. CASE ff
  <2>1. FastForwardStep(Rec(st, p, wk, sl, acq, nb, ff, dis)) =
          Rec(st, p, wk, sl, acq, m, ff, dis)
    BY <1>2, Zenon DEF FastForwardStep, Rec, m
  <2> QED BY <1>1, <1>2, <2>1, Zenon
<1>3. CASE ~ff
  <2>1. FastForwardStep(Rec(st, p, wk, sl, acq, nb, ff, dis)) =
          Rec(st, p, wk, sl, acq, nb, ff, dis)
    BY <1>3 DEF FastForwardStep, Rec
  <2> QED BY <1>3, <2>1
<1> QED BY <1>2, <1>3

\* Aborting the barrier on a change of mode: everyone in it leaves it.
LEMMA AbortFacts ==
  ASSUME NEW st, NEW p, NEW wk, NEW sl, NEW acq, NEW nb, NEW ff, NEW dis, NEW b
  PROVE  Abort([Rec(st, p, wk, sl, acq, nb, ff, dis) EXCEPT !.fastforward = b]) =
           Rec(st, SignalBarrier(p, acq), wk, sl, {}, nb, b, dis)
<1>1. [Rec(st, p, wk, sl, acq, nb, ff, dis) EXCEPT !.fastforward = b] =
        Rec(st, p, wk, sl, acq, nb, b, dis)
  BY DEF Rec
<1> DEFINE q == SignalBarrier(p, acq)
           r == Rec(st, p, wk, sl, acq, nb, b, dis)
<1>2. r.pc = p /\ r.acquired = acq
  BY DEF Rec
<1> HIDE DEF q
<1>3. [r EXCEPT !.pc = q] = Rec(st, q, wk, sl, acq, nb, b, dis)
  BY DEF Rec
<1>4. [Rec(st, q, wk, sl, acq, nb, b, dis) EXCEPT !.acquired = {}] =
        Rec(st, q, wk, sl, {}, nb, b, dis)
  BY DEF Rec
<1> HIDE DEF r
<1>5. Abort(r) = [[r EXCEPT !.pc = q] EXCEPT !.acquired = {}]
  BY <1>2 DEF Abort, q
<1> QED BY <1>1, <1>3, <1>4, <1>5, Zenon DEF q, r

\* What a change of the mode does to a record r with these fields.
ModeEffect(r, st, p, wk, sl, acq, nb) ==
  /\ r.status = st /\ r.wakeup = wk /\ r.sleeping = sl
  /\ r.nextBarrier \in Nat /\ r.nextBarrier >= nb
  /\ r.fastforward \in BOOLEAN /\ r.disabled \in BOOLEAN
  /\ \/ r.pc = p /\ r.acquired = acq /\ ~r.disabled
     \/ r.pc = SignalBarrier(p, acq) /\ r.acquired = {}

\* The fields of a record.
LEMMA ModeEffectOf ==
  ASSUME NEW st, NEW p, NEW wk, NEW sl, NEW acq, NEW nb, NEW q, NEW a, NEW n \in Nat,
         NEW ff, NEW dis, ff \in BOOLEAN, dis \in BOOLEAN, n >= nb,
         \/ q = p /\ a = acq /\ ~dis
         \/ q = SignalBarrier(p, acq) /\ a = {}
  PROVE  ModeEffect(Rec(st, q, wk, sl, a, n, ff, dis), st, p, wk, sl, acq, nb)
<1> DEFINE r == Rec(st, q, wk, sl, a, n, ff, dis)
<1>1. /\ r.status = st /\ r.wakeup = wk /\ r.sleeping = sl /\ r.nextBarrier = n
      /\ r.pc = q /\ r.acquired = a /\ r.fastforward = ff /\ r.disabled = dis
  BY DEF Rec
<1> HIDE DEF r
<1>2. r.nextBarrier \in Nat /\ r.nextBarrier >= nb
  BY <1>1
<1>3. ModeEffect(r, st, p, wk, sl, acq, nb)
  BY <1>1, <1>2, Zenon DEF ModeEffect
<1> QED BY <1>3 DEF r

\* Switching the barrier on leaves the cores in it alone; every other change of
\* the mode aborts it.
LEMMA SetPerformanceFacts ==
  ASSUME TypeOK, NEW st, NEW p, NEW wk, NEW sl, NEW acq, NEW nb \in Nat, NEW ff \in BOOLEAN,
         NEW dis \in BOOLEAN
  PROVE  ModeEffect(SetPerformance(Rec(st, p, wk, sl, acq, nb, ff, dis)),
                    st, p, wk, sl, acq, nb)
<1> DEFINE s == Rec(st, p, wk, sl, acq, nb, ff, dis)
           m == MaxOf(elapsed, Running(st), nb)
           q == SignalBarrier(p, acq)
           T == TRUE
           F == FALSE
<1>1. m \in Nat /\ m >= nb
  BY MaxOfType, Zenon DEF TypeOK, Time, Running
<1>0. nb >= nb /\ T \in BOOLEAN /\ F \in BOOLEAN /\ T /\ ~F
  OBVIOUS
<1> HIDE DEF m, q
<1>2. CASE config.roi = "disable" /\ dis
  <2>1. SetPerformance(s) = Rec(st, p, wk, sl, acq, nb, ff, F)
    BY <1>2, Zenon DEF SetPerformance, Rec
  <2> HIDE DEF F
  <2>2. ModeEffect(Rec(st, p, wk, sl, acq, nb, ff, F), st, p, wk, sl, acq, nb)
    BY <1>0, ModeEffectOf
  <2> QED BY <2>1, <2>2, Zenon
<1>3. CASE config.roi = "disable" /\ ~dis
  <2>1. SetPerformance(s) = Rec(st, q, wk, sl, {}, nb, ff, T)
    BY <1>3, Zenon DEF SetPerformance, Abort, Rec, q
  <2> HIDE DEF T
  <2>2. ModeEffect(Rec(st, q, wk, sl, {}, nb, ff, T), st, p, wk, sl, acq, nb)
    BY <1>0, ModeEffectOf, Zenon DEF q
  <2> QED BY <2>1, <2>2, Zenon
<1>4. CASE config.roi # "disable" /\ ff
  <2>1. SetPerformance(s) = Rec(st, q, wk, sl, {}, m, F, dis)
    BY <1>4, Zenon DEF SetPerformance, Abort, Rec, m, q
  <2> HIDE DEF F
  <2>2. ModeEffect(Rec(st, q, wk, sl, {}, m, F, dis), st, p, wk, sl, acq, nb)
    BY <1>0, <1>1, ModeEffectOf DEF q
  <2> QED BY <2>1, <2>2, Zenon
<1>5. CASE config.roi # "disable" /\ ~ff
  <2>1. SetPerformance(s) = FastForwardStep(Abort([s EXCEPT !.fastforward = T]))
    BY <1>5 DEF SetPerformance, Rec
  <2> HIDE DEF T
  <2>2. Abort([s EXCEPT !.fastforward = T]) = Rec(st, q, wk, sl, {}, nb, T, dis)
    <3>1. \A b : Abort([s EXCEPT !.fastforward = b]) = Rec(st, q, wk, sl, {}, nb, b, dis)
      BY AbortFacts DEF q
    <3> QED BY <3>1, Zenon
  <2>3. PICK n \in Nat : /\ FastForwardStep(Rec(st, q, wk, sl, {}, nb, T, dis)) =
                              Rec(st, q, wk, sl, {}, n, T, dis)
                         /\ n >= nb
    <3>1. \A b \in BOOLEAN : \E n \in Nat :
            /\ FastForwardStep(Rec(st, q, wk, sl, {}, nb, b, dis)) =
                 Rec(st, q, wk, sl, {}, n, b, dis)
            /\ n >= nb
      BY FastForwardFacts
    <3> QED BY <1>0, <3>1, Zenon
  <2>4. ModeEffect(Rec(st, q, wk, sl, {}, n, T, dis), st, p, wk, sl, acq, nb)
    BY <1>0, <2>3, ModeEffectOf, Zenon DEF q
  <2> QED BY <2>1, <2>2, <2>3, <2>4, Zenon
<1> QED BY <1>2, <1>3, <1>4, <1>5

\* Taking a thread out of the list of sleepers leaves the other ones there.
LEMMA OtherSleepers ==
  ASSUME sleeping \in Seq(Sleepers), SleepersStalled, NEW i \in DOMAIN sleeping, NEW r,
         r = SubSeq(sleeping, 1, i - 1) \o SubSeq(sleeping, i + 1, Len(sleeping))
  PROVE  /\ r \in Seq(Sleepers)
         /\ \A j \in DOMAIN r : \E k \in DOMAIN sleeping : k # i /\ r[j] = sleeping[k]
         /\ \A j, k \in DOMAIN r : r[j].thread = r[k].thread => j = k
<1>1. Len(sleeping) \in Nat /\ i \in 1 .. Len(sleeping) /\ DOMAIN sleeping = 1 .. Len(sleeping)
  OBVIOUS
<1>2. /\ r \in Seq(Sleepers) /\ Len(r) = Len(sleeping) - 1
      /\ \A j \in DOMAIN r : /\ j \in 1 .. Len(r)
                             /\ r[j] = IF j < i THEN sleeping[j] ELSE sleeping[j + 1]
  BY Removal, Zenon
<1> DEFINE old(j) == IF j < i THEN j ELSE j + 1
<1>0. \A a, b \in Nat : old(a) = old(b) => a = b
  BY <1>1
<1>3. ASSUME NEW j \in DOMAIN r
      PROVE  old(j) \in DOMAIN sleeping /\ old(j) # i /\ r[j] = sleeping[old(j)]
  <2>1. j \in 1 .. Len(sleeping) - 1
    BY <1>2
  <2>2. old(j) \in 1 .. Len(sleeping) /\ old(j) # i
    BY <2>1, <1>1
  <2> QED BY <2>1, <2>2, <1>1, <1>2, Zenon
<1>4. ASSUME NEW j \in DOMAIN r, NEW k \in DOMAIN r, r[j].thread = r[k].thread
      PROVE  j = k
  <2>1. /\ old(j) \in DOMAIN sleeping /\ r[j] = sleeping[old(j)]
        /\ old(k) \in DOMAIN sleeping /\ r[k] = sleeping[old(k)]
    BY <1>3, Zenon
  <2>2. j \in Nat /\ k \in Nat /\ i \in Nat
    BY <1>1, <1>2
  <2> HIDE DEF old
  <2> QED BY <1>0, <1>4, <2>1, <2>2, Zenon DEF SleepersStalled
<1>5. ASSUME NEW j \in DOMAIN r PROVE \E k \in DOMAIN sleeping : k # i /\ r[j] = sleeping[k]
  <2> HIDE DEF old
  <2> QED BY <1>3, Zenon
<1> QED BY <1>2, <1>4, <1>5, Zenon

\* The simple part of the type invariant.
LEMMA Types ==
  ASSUME TypeOK
  PROVE  /\ config \in Configs /\ status \in [Core -> Statuses] /\ pc \in [Core -> Places]
         /\ elapsed \in [Core -> Nat] /\ wakeup \in [Core -> Nat]
         /\ nextSync \in [Core -> Nat] /\ localClock \in [Core -> Nat]
         /\ acquired \in SUBSET Core /\ toRelease \in SUBSET Core
         /\ nextBarrier \in Nat /\ globalTime \in Nat
         /\ fastforward \in BOOLEAN /\ disabled \in BOOLEAN
         /\ sleeping \in Seq(Sleepers)
BY DEF TypeOK, Time, Statuses, Sleepers

\* What the hooks at a barrier do, when they wake the threads W and make the cores
\* A leave the barrier.
HookEffect(W, A, s) ==
  /\ s.status = [c \in Core |-> IF c \in W THEN "RUNNING" ELSE status[c]]
  /\ s.wakeup = [c \in Core |-> IF c \in W THEN nextBarrier ELSE wakeup[c]]
  /\ s.pc = [c \in Core |-> IF c \in A /\ pc[c] = "barrier" THEN "synced"
                            ELSE IF c \in W /\ pc[c] = "stalled" THEN "resumed" ELSE pc[c]]
  /\ s.sleeping \in Seq(Sleepers)
  /\ \A j \in DOMAIN s.sleeping : /\ \E k \in DOMAIN sleeping : s.sleeping[j] = sleeping[k]
                                  /\ s.sleeping[j].thread \notin W
  /\ \A j, k \in DOMAIN s.sleeping : s.sleeping[j].thread = s.sleeping[k].thread => j = k
  /\ \A c \in W : IsSleeping(c)
  /\ \/ A = {} /\ s.acquired = acquired /\ (s.disabled => disabled)
     \/ A = acquired /\ s.acquired = {}
  /\ s.nextBarrier \in Nat /\ s.nextBarrier >= nextBarrier
  /\ s.fastforward \in BOOLEAN /\ s.disabled \in BOOLEAN

\* The same for the part of it that futexPeriodic does.
WakeEffect(W, st, p, wk, sl) ==
  /\ st = [c \in Core |-> IF c \in W THEN "RUNNING" ELSE status[c]]
  /\ wk = [c \in Core |-> IF c \in W THEN nextBarrier ELSE wakeup[c]]
  /\ p = [c \in Core |-> IF c \in W /\ pc[c] = "stalled" THEN "resumed" ELSE pc[c]]
  /\ sl \in Seq(Sleepers)
  /\ \A j \in DOMAIN sl : /\ \E k \in DOMAIN sleeping : sl[j] = sleeping[k]
                          /\ sl[j].thread \notin W
  /\ \A j, k \in DOMAIN sl : sl[j].thread = sl[k].thread => j = k
  /\ \A c \in W : IsSleeping(c)

\* futexPeriodic wakes one thread or none.
LEMMA WakeFacts ==
  ASSUME TypeOK, SleepersStalled
  PROVE  \E st, p, wk, sl :
           /\ FutexPeriodic(Hooked, nextBarrier) =
                Rec(st, p, wk, sl, acquired, nextBarrier, fastforward, disabled)
           /\ \E W \in SUBSET Core : WakeEffect(W, st, p, wk, sl)
<1>0. /\ nextBarrier \in Nat /\ acquired \in SUBSET Core
      /\ fastforward \in BOOLEAN /\ disabled \in BOOLEAN
      /\ sleeping \in Seq(Sleepers)
      /\ status \in [Core -> Statuses] /\ pc \in [Core -> Places] /\ wakeup \in [Core -> Nat]
  BY Types
<1> USE <1>0
<1>1. PICK st, p, wk, sl :
           /\ FutexPeriodic(Hooked, nextBarrier) =
                Rec(st, p, wk, sl, acquired, nextBarrier, fastforward, disabled)
           /\ \/ st = status /\ p = pc /\ wk = wakeup /\ sl = sleeping
              \/ \E i \in DOMAIN sleeping :
                   LET w == sleeping[i].thread
                   IN  /\ st = [status EXCEPT ![w] = "RUNNING"]
                       /\ p = SignalThread(pc, w)
                       /\ wk = [wakeup EXCEPT ![w] = nextBarrier]
                       /\ sl = SubSeq(sleeping, 1, i - 1) \o SubSeq(sleeping, i + 1, Len(sleeping))
  BY FutexFacts, Zenon DEF Rec
<1>2. CASE st = status /\ p = pc /\ wk = wakeup /\ sl = sleeping
  <2>1. WakeEffect({}, st, p, wk, sl)
    BY <1>2 DEF WakeEffect, SleepersStalled
  <2> QED BY <1>1, <2>1
<1>3. ASSUME NEW i \in DOMAIN sleeping,
             st = [status EXCEPT ![sleeping[i].thread] = "RUNNING"],
             p = SignalThread(pc, sleeping[i].thread),
             wk = [wakeup EXCEPT ![sleeping[i].thread] = nextBarrier],
             sl = SubSeq(sleeping, 1, i - 1) \o SubSeq(sleeping, i + 1, Len(sleeping))
      PROVE  \E W \in SUBSET Core : WakeEffect(W, st, p, wk, sl)
  <2> DEFINE w == sleeping[i].thread
  <2>1. w \in Core
    <3>1. sleeping[i] \in Sleepers
      OBVIOUS
    <3> QED BY <3>1 DEF Sleepers
  <2>2. /\ sl \in Seq(Sleepers)
        /\ \A j \in DOMAIN sl : \E k \in DOMAIN sleeping : k # i /\ sl[j] = sleeping[k]
        /\ \A j, k \in DOMAIN sl : sl[j].thread = sl[k].thread => j = k
    <3>1. \A r : r = SubSeq(sleeping, 1, i - 1) \o SubSeq(sleeping, i + 1, Len(sleeping)) =>
             /\ r \in Seq(Sleepers)
             /\ \A j \in DOMAIN r : \E k \in DOMAIN sleeping : k # i /\ r[j] = sleeping[k]
             /\ \A j, k \in DOMAIN r : r[j].thread = r[k].thread => j = k
      BY OtherSleepers, Zenon
    <3> QED BY <1>3, <3>1, Zenon
  <2>3. \A j \in DOMAIN sl : /\ \E k \in DOMAIN sleeping : sl[j] = sleeping[k]
                             /\ sl[j].thread \notin {w}
    BY <2>2 DEF SleepersStalled
  <2>4. \A c \in {w} : IsSleeping(c)
    BY DEF IsSleeping
  <2> HIDE DEF w
  <2>5. /\ st = [c \in Core |-> IF c \in {w} THEN "RUNNING" ELSE status[c]]
        /\ wk = [c \in Core |-> IF c \in {w} THEN nextBarrier ELSE wakeup[c]]
    BY <1>3, <2>1, Zenon DEF w
  <2>6. p = [c \in Core |-> IF c \in {w} /\ pc[c] = "stalled" THEN "resumed" ELSE pc[c]]
    BY <1>3, <2>1, Zenon DEF w, SignalThread
  <2>7. WakeEffect({w}, st, p, wk, sl)
    BY <2>2, <2>3, <2>4, <2>5, <2>6 DEF WakeEffect
  <2> QED BY <2>1, <2>7
<1> QED BY <1>1, <1>2, <1>3, Zenon

\* The hooks wake at most one sleeper, at the time of the barrier, and only a
\* script switches the mode and aborts the barrier.
LEMMA HookFacts ==
  ASSUME TypeOK, SleepersStalled, NEW script \in BOOLEAN, NEW hooked, NEW s,
         hooked = FastForwardStep(FutexPeriodic(Hooked, nextBarrier)),
         s = IF script THEN SetPerformance(hooked) ELSE hooked
  PROVE  \E W \in SUBSET Core, A \in SUBSET Core :
           /\ HookEffect(W, A, s)
           /\ ~script => /\ s.acquired = acquired
                         /\ s.fastforward = fastforward /\ s.disabled = disabled
                         /\ ~fastforward => s.nextBarrier = nextBarrier
<1>0. /\ nextBarrier \in Nat /\ acquired \in SUBSET Core
      /\ fastforward \in BOOLEAN /\ disabled \in BOOLEAN
      /\ sleeping \in Seq(Sleepers)
      /\ status \in [Core -> Statuses] /\ pc \in [Core -> Places] /\ wakeup \in [Core -> Nat]
  BY Types
<1> USE <1>0
<1>a. PICK st, p, wk, sl :
           /\ FutexPeriodic(Hooked, nextBarrier) =
                Rec(st, p, wk, sl, acquired, nextBarrier, fastforward, disabled)
           /\ \E W \in SUBSET Core : WakeEffect(W, st, p, wk, sl)
  BY WakeFacts
<1>b. PICK W \in SUBSET Core : WakeEffect(W, st, p, wk, sl)
  BY <1>a
<1>1. /\ FutexPeriodic(Hooked, nextBarrier) =
           Rec(st, p, wk, sl, acquired, nextBarrier, fastforward, disabled)
      /\ WakeEffect(W, st, p, wk, sl)
  BY <1>a, <1>b
<1>2. PICK nb \in Nat :
           /\ hooked = Rec(st, p, wk, sl, acquired, nb, fastforward, disabled)
           /\ nb >= nextBarrier /\ (~fastforward => nb = nextBarrier)
  <2>1. \E nb \in Nat :
           /\ FastForwardStep(Rec(st, p, wk, sl, acquired, nextBarrier, fastforward, disabled)) =
                Rec(st, p, wk, sl, acquired, nb, fastforward, disabled)
           /\ nb >= nextBarrier /\ (~fastforward => nb = nextBarrier)
    <3>1. \A ff \in BOOLEAN : \E nb \in Nat :
           /\ FastForwardStep(Rec(st, p, wk, sl, acquired, nextBarrier, ff, disabled)) =
                Rec(st, p, wk, sl, acquired, nb, ff, disabled)
           /\ nb >= nextBarrier /\ (~ff => nb = nextBarrier)
      BY FastForwardFacts
    <3> QED BY <3>1, Zenon
  <2> QED BY <1>1, <2>1
<1>3. CASE ~script
  <2>1. /\ s.status = st /\ s.pc = p /\ s.wakeup = wk /\ s.sleeping = sl
        /\ s.acquired = acquired /\ s.nextBarrier = nb
        /\ s.fastforward = fastforward /\ s.disabled = disabled
    BY <1>2, <1>3 DEF Rec
  <2>2. HookEffect(W, {}, s)
    BY <1>1, <1>2, <2>1, ZenonT(30) DEF HookEffect, WakeEffect
  <2> QED BY <1>2, <2>1, <2>2
<1>4. CASE script
  <2>1. \A ff \in BOOLEAN, dis \in BOOLEAN :
          ModeEffect(SetPerformance(Rec(st, p, wk, sl, acquired, nb, ff, dis)),
                     st, p, wk, sl, acquired, nb)
    BY SetPerformanceFacts
  <2>2. ModeEffect(s, st, p, wk, sl, acquired, nb)
    BY <1>2, <1>4, <2>1, Zenon
  <2>3. s.nextBarrier \in Nat /\ s.nextBarrier >= nextBarrier
    BY <1>2, <2>2 DEF ModeEffect
  <2>4. /\ s.status = st /\ s.wakeup = wk /\ s.sleeping = sl
        /\ s.fastforward \in BOOLEAN /\ s.disabled \in BOOLEAN
    BY <2>2, Zenon DEF ModeEffect
  <2>5. CASE s.pc = p /\ s.acquired = acquired /\ ~s.disabled
    <3>1. s.pc = [c \in Core |-> IF c \in {} /\ pc[c] = "barrier" THEN "synced"
                         ELSE IF c \in W /\ pc[c] = "stalled" THEN "resumed" ELSE pc[c]]
      BY <1>1, <2>5 DEF WakeEffect
    <3>2. HookEffect(W, {}, s)
      <4>1. /\ s.status = [c \in Core |-> IF c \in W THEN "RUNNING" ELSE status[c]]
            /\ s.wakeup = [c \in Core |-> IF c \in W THEN nextBarrier ELSE wakeup[c]]
        BY <1>1, <2>4, Zenon DEF WakeEffect
      <4>2. /\ s.sleeping \in Seq(Sleepers)
            /\ \A j \in DOMAIN s.sleeping : /\ \E k \in DOMAIN sleeping : s.sleeping[j] = sleeping[k]
                                            /\ s.sleeping[j].thread \notin W
            /\ \A j, k \in DOMAIN s.sleeping : s.sleeping[j].thread = s.sleeping[k].thread => j = k
            /\ \A c \in W : IsSleeping(c)
        BY <1>1, <2>4, Zenon DEF WakeEffect
      <4>3. {} = {} /\ s.acquired = acquired /\ (s.disabled => disabled)
        BY <2>5
      <4> QED BY <2>3, <2>4, <3>1, <4>1, <4>2, <4>3, Zenon DEF HookEffect
    <3> QED BY <3>2, <1>4
  <2>6. CASE s.pc = SignalBarrier(p, acquired) /\ s.acquired = {}
    <3>1. s.pc = [c \in Core |-> IF c \in acquired /\ pc[c] = "barrier" THEN "synced"
                         ELSE IF c \in W /\ pc[c] = "stalled" THEN "resumed" ELSE pc[c]]
      BY <2>6, <1>1, Zenon DEF SignalBarrier, WakeEffect
    <3>2. HookEffect(W, acquired, s)
      <4>1. /\ s.status = [c \in Core |-> IF c \in W THEN "RUNNING" ELSE status[c]]
            /\ s.wakeup = [c \in Core |-> IF c \in W THEN nextBarrier ELSE wakeup[c]]
        BY <1>1, <2>4, Zenon DEF WakeEffect
      <4>2. /\ s.sleeping \in Seq(Sleepers)
            /\ \A j \in DOMAIN s.sleeping : /\ \E k \in DOMAIN sleeping : s.sleeping[j] = sleeping[k]
                                            /\ s.sleeping[j].thread \notin W
            /\ \A j, k \in DOMAIN s.sleeping : s.sleeping[j].thread = s.sleeping[k].thread => j = k
            /\ \A c \in W : IsSleeping(c)
        BY <1>1, <2>4, Zenon DEF WakeEffect
      <4> QED BY <2>3, <2>4, <2>6, <3>1, <4>1, <4>2, Zenon DEF HookEffect
    <3> QED BY <3>2, <1>4
  <2> QED BY <2>2, <2>5, <2>6, Zenon DEF ModeEffect
<1> QED BY <1>3, <1>4

\* The lock's holder is where the lock is needed.
LEMMA LockPlace ==
  ASSUME TypeOK
  PROVE  /\ lock \in Core \cup {NoCore} /\ NoCore \notin Core
         /\ \A c \in Core : (pc[c] \in ReleasePlaces \cup {"stalling", "aborted"}) <=> (lock = c)
BY BarrierConstants DEF TypeOK

\* The barrier is reached only when nobody is left to be let go from the last one.
LEMMA ReachedEmpty ==
  ASSUME BarrierInv, NEW st, NEW acq, NEW lc, IsBarrierReached(st, acq, lc),
         \A t \in toRelease : st[t] = "RUNNING" /\ lc[t] = localClock[t] /\ t \notin acq
  PROVE  toRelease = {}
<1> SUFFICES ASSUME NEW t \in toRelease PROVE FALSE
  OBVIOUS
<1> USE Types
<1>1. t \in Core /\ t \in Running(st) /\ lc[t] < nextBarrier /\ t \notin acq
  BY DEF BarrierInv, ClocksReported, Running
<1>2. nextBarrier \in Nat /\ lc[t] \in Nat
  BY <1>1 DEF BarrierInv
<1> QED BY <1>1, <1>2 DEF IsBarrierReached

\* Where the cores in the barrier and those to be let go are.
LEMMA BarrierPlaces ==
  ASSUME BarrierInv
  PROVE  /\ \A t \in acquired \cup toRelease : /\ t \in Core
                                               /\ status[t] = "RUNNING"
                                               /\ pc[t] = "barrier" \/ (pc[t] = "syncing" /\ lock = t)
         /\ lock = NoCore => \A t \in acquired \cup toRelease : pc[t] = "barrier"
         /\ lock # NoCore /\ pc[lock] \in ReleasePlaces => toRelease = {}
<1> USE Types, LockPlace DEF BarrierInv
<1>1. ASSUME NEW t \in acquired \cup toRelease
      PROVE  /\ t \in Core
             /\ status[t] = "RUNNING"
             /\ pc[t] = "barrier" \/ (pc[t] = "syncing" /\ lock = t)
  BY DEF NoLostRelease, StatusOfPlace, ReleasePlaces
<1>2. lock = NoCore => \A t \in acquired \cup toRelease : pc[t] = "barrier"
  BY <1>1
<1> QED BY <1>1, <1>2 DEF AssertionsHold

\* A step that leaves the list of sleepers alone, and the sleepers stalled.
LEMMA SleepersKept ==
  ASSUME BarrierInv, sleeping' = sleeping,
         \A o \in Core : IsSleeping(o) /\ status[o] = "STALLED"
                         /\ pc[o] \in {"stalled", "stalling", "signalling", "advancing"} =>
           status'[o] = "STALLED" /\ pc'[o] \in {"stalled", "stalling", "signalling", "advancing"}
  PROVE  SleepersStalled'
<1>1. \A i \in DOMAIN sleeping : sleeping[i].thread \in Core /\ IsSleeping(sleeping[i].thread)
  <2> TAKE i \in DOMAIN sleeping
  <2>1. sleeping[i] \in Sleepers
    BY Types DEF BarrierInv
  <2> QED BY <2>1 DEF Sleepers, IsSleeping
<1> QED BY <1>1 DEF BarrierInv, SleepersStalled

\* The idle time until a thread was woken is skipped, never taken back.
LEMMA SkipFacts ==
  ASSUME TypeOK, NEW c \in Core, SkipToWakeup(c)
  PROVE  /\ elapsed' \in [Core -> Nat] /\ wakeup' \in [Core -> Nat]
         /\ \A o \in Core \ {c} : elapsed'[o] = elapsed[o] /\ wakeup'[o] = wakeup[o]
         /\ elapsed'[c] >= elapsed[c]
         /\ ~disabled => elapsed'[c] = Max2(elapsed[c], wakeup[c])
         /\ wakeup'[c] = 0
<1> USE Types
<1>1. wakeup' \in [Core -> Nat] /\ wakeup' = [wakeup EXCEPT ![c] = 0]
  BY DEF SkipToWakeup
<1>2. CASE disabled
  BY <1>1, <1>2 DEF SkipToWakeup
<1>3. CASE ~disabled
  BY <1>1, <1>3 DEF SkipToWakeup, Max2
<1> QED BY <1>2, <1>3

\* What the hooks do to the list of cores to let go, the lock and the places.
StoppedEffect(c, st, p, release, after, lockAfter) ==
  \E R \in SUBSET toRelease :
    /\ toRelease' = toRelease \ R
    /\ \/ /\ lock' = c /\ toRelease' = {} /\ ~disabled
          /\ IsBarrierReached(st, acquired, localClock)
          /\ pc' = [o \in Core |-> IF o = c THEN release
                                   ELSE IF o \in R THEN "synced" ELSE p[o]]
       \/ /\ lock' = lockAfter /\ nextBarrier' = nextBarrier
          /\ pc' = [o \in Core |-> IF o = c THEN after
                                   ELSE IF o \in R THEN "synced" ELSE p[o]]

\* The hooks for a thread that stalls or exits let cores go and, when everyone
\* else waits in the barrier, begin to release it.
LEMMA StoppedFacts ==
  ASSUME BarrierInv, NEW c \in Core, pc[c] = "run", lock = NoCore,
         NEW st, NEW p \in [Core -> Places], NEW release, NEW after, NEW lockAfter,
         \A t \in toRelease : st[t] = "RUNNING",
         \A o \in Core : (p[o] = "barrier") <=> (pc[o] = "barrier"),
         ThreadStopped(c, st, p, release, after, lockAfter)
  PROVE  /\ localClock' = localClock
         /\ nextBarrier' \in Nat /\ nextBarrier' >= nextBarrier
         /\ ~fastforward => nextBarrier' = nextBarrier
         /\ StoppedEffect(c, st, p, release, after, lockAfter)
<1> USE Types, BarrierPlaces DEF BarrierInv
<1>0. c \notin acquired /\ c \notin toRelease
  BY ZenonT(30)
<1>1. PICK R \in SUBSET toRelease :
       /\ toRelease' = toRelease \ R
       /\ localClock' = localClock
       /\ IF ~disabled /\ IsBarrierReached(st, acquired, localClock)
          THEN BeginRelease(c, release, SignalBarrier(p, R), localClock)
          ELSE /\ pc' = [SignalBarrier(p, R) EXCEPT ![c] = after]
               /\ lock' = lockAfter
               /\ UNCHANGED nextBarrier
  BY <1>0 DEF ThreadStopped, DoRelease
<1>2. \A o \in R : p[o] = "barrier" /\ o \in Core /\ o # c
  BY <1>0, Zenon
<1>3. ASSUME NEW place
      PROVE  [SignalBarrier(p, R) EXCEPT ![c] = place] =
               [o \in Core |-> IF o = c THEN place ELSE IF o \in R THEN "synced" ELSE p[o]]
  BY <1>2, Zenon DEF SignalBarrier
<1>4. CASE ~disabled /\ IsBarrierReached(st, acquired, localClock)
  <2>1. toRelease = {}
    <3>1. \A t \in toRelease : t \notin acquired
      BY ZenonT(30) DEF NoLostRelease
    <3> QED BY <1>4, <3>1, ReachedEmpty
  <2>2. BeginRelease(c, release, SignalBarrier(p, R), localClock)
    BY <1>1, <1>4, ZenonT(30)
  <2>3. /\ lock' = c
        /\ pc' = [o \in Core |-> IF o = c THEN release ELSE IF o \in R THEN "synced" ELSE p[o]]
    BY <1>3, <2>2, Zenon DEF BeginRelease
  <2>4. /\ nextBarrier' \in Nat /\ nextBarrier' >= nextBarrier
        /\ ~fastforward => nextBarrier' = nextBarrier
    <3>1. MaxOf(localClock, Core, nextBarrier) \in Nat /\ MaxOf(localClock, Core, nextBarrier) >= nextBarrier
      BY MaxOfType, Zenon
    <3> QED BY <2>2, <3>1 DEF BeginRelease
  <2> QED BY <1>1, <1>4, <2>1, <2>3, <2>4, ZenonT(30) DEF StoppedEffect
<1>5. CASE ~(~disabled /\ IsBarrierReached(st, acquired, localClock))
  <2>1. /\ pc' = [SignalBarrier(p, R) EXCEPT ![c] = after]
        /\ lock' = lockAfter /\ nextBarrier' = nextBarrier
    BY <1>1, <1>5, Zenon
  <2>2. pc' = [o \in Core |-> IF o = c THEN after ELSE IF o \in R THEN "synced" ELSE p[o]]
    BY <1>3, <2>1, Zenon
  <2>3. nextBarrier' \in Nat /\ nextBarrier' >= nextBarrier
    BY <2>1
  <2> QED BY <1>1, <2>1, <2>2, <2>3, ZenonT(30) DEF StoppedEffect
<1> QED BY <1>4, <1>5, Zenon

\* Entering the barrier: the core reports its time and either waits or, as the last
\* one, begins to release the barrier.
SyncEffect(c, R) ==
  LET lc == [localClock EXCEPT ![c] = elapsed[c]]
  IN  /\ ~SynchronizeEarly(c)
      /\ localClock' = lc /\ acquired' = acquired \cup {c} /\ toRelease' = toRelease \ R
      /\ nextSync' = nextSync
      /\ \/ /\ IsBarrierReached(status, acquired \cup {c}, lc)
            /\ toRelease = {} /\ lock' = c
            /\ pc' = [o \in Core |-> IF o = c THEN "syncing"
                                     ELSE IF o \in R THEN "synced" ELSE pc[o]]
         \/ /\ lock' = NoCore /\ nextBarrier' = nextBarrier
            /\ ~IsBarrierReached(status, acquired \cup {c}, lc)
            /\ pc' = [o \in Core |-> IF o = c THEN "barrier"
                                     ELSE IF o \in R THEN "synced" ELSE pc[o]]

\* The two outcomes of BarrierSyncServer::synchronize: too early, or in the barrier.
LEMMA SyncFacts ==
  ASSUME BarrierInv, NEW c \in Core, Synchronize(c)
  PROVE  /\ config' = config /\ status' = status /\ elapsed' = elapsed /\ wakeup' = wakeup
         /\ globalTime' = globalTime /\ fastforward' = fastforward /\ disabled' = disabled
         /\ sleeping' = sleeping
         /\ pc[c] = "run" /\ lock = NoCore /\ c \notin acquired /\ c \notin toRelease
         /\ elapsed[c] >= nextSync[c] \/ (fastforward /\ elapsed[c] > localClock[c])
         /\ nextBarrier' \in Nat /\ nextBarrier' >= nextBarrier
         /\ ~fastforward => nextBarrier' = nextBarrier
         /\ \/ /\ SynchronizeEarly(c)
               /\ nextSync' = [nextSync EXCEPT ![c] = NextSyncAfter(elapsed[c])]
               /\ UNCHANGED <<pc, localClock, acquired, toRelease, nextBarrier, lock>>
            \/ \E R \in SUBSET toRelease : SyncEffect(c, R)
<1> USE Types, BarrierPlaces DEF BarrierInv
<1>1. /\ config' = config /\ status' = status /\ elapsed' = elapsed /\ wakeup' = wakeup
      /\ globalTime' = globalTime /\ fastforward' = fastforward /\ disabled' = disabled
      /\ sleeping' = sleeping /\ pc[c] = "run" /\ lock = NoCore
      /\ elapsed[c] >= nextSync[c] \/ (fastforward /\ elapsed[c] > localClock[c])
  BY DEF Synchronize
<1>2. c \notin acquired /\ c \notin toRelease
  BY <1>1
<1>3. CASE SynchronizeEarly(c)
  <2>1. /\ nextSync' = [nextSync EXCEPT ![c] = NextSyncAfter(elapsed[c])]
        /\ UNCHANGED <<pc, localClock, acquired, toRelease, nextBarrier, lock>>
    BY <1>3 DEF Synchronize
  <2> QED BY <1>1, <1>2, <1>3, <2>1
<1>4. CASE ~SynchronizeEarly(c)
  <2> DEFINE lc == [localClock EXCEPT ![c] = elapsed[c]]
             acq == acquired \cup {c}
  <2>1. PICK R \in SUBSET toRelease :
          /\ localClock' = lc /\ acquired' = acq
          /\ toRelease' = toRelease \ R
          /\ IF IsBarrierReached(status, acq, lc)
             THEN BeginRelease(c, "syncing", SignalBarrier(pc, R), lc)
             ELSE /\ pc' = [SignalBarrier(pc, R) EXCEPT ![c] = "barrier"]
                  /\ UNCHANGED <<nextBarrier, lock>>
          /\ nextSync' = nextSync
    BY <1>4, Zenon DEF Synchronize, DoRelease
  <2>2. ASSUME NEW place
        PROVE  [SignalBarrier(pc, R) EXCEPT ![c] = place] =
                 [o \in Core |-> IF o = c THEN place ELSE IF o \in R THEN "synced" ELSE pc[o]]
    BY <1>1, <1>2, Zenon DEF SignalBarrier
  <2>3. lc \in [Core -> Nat]
    OBVIOUS
  <2>4. CASE IsBarrierReached(status, acq, lc)
    <3>1. BeginRelease(c, "syncing", SignalBarrier(pc, R), lc)
      BY <2>1, <2>4
    <3>2. toRelease = {}
      <4>1. \A t \in toRelease : status[t] = "RUNNING" /\ lc[t] = localClock[t] /\ t \notin acq
        BY <1>2 DEF NoLostRelease
      <4> SUFFICES ASSUME NEW t \in toRelease PROVE FALSE
        OBVIOUS
      <4>2. t \in Core /\ t \in Running(status) /\ lc[t] < nextBarrier /\ t \notin acq
        BY <4>1 DEF ClocksReported, Running
      <4>3. nextBarrier \in Nat /\ lc[t] \in Nat
        BY <4>2
      <4> HIDE DEF lc, acq
      <4> QED BY <2>4, <4>2, <4>3 DEF IsBarrierReached
    <3>3. /\ lock' = c
          /\ pc' = [o \in Core |-> IF o = c THEN "syncing"
                                     ELSE IF o \in R THEN "synced" ELSE pc[o]]
      BY <2>2, <3>1, Zenon DEF BeginRelease
    <3>4. /\ nextBarrier' \in Nat /\ nextBarrier' >= nextBarrier
          /\ ~fastforward => nextBarrier' = nextBarrier
      <4>1. MaxOf(lc, Core, nextBarrier) \in Nat /\ MaxOf(lc, Core, nextBarrier) >= nextBarrier
        BY <2>3, MaxOfType, ZenonT(30)
      <4> HIDE DEF lc
      <4> QED BY <3>1, <4>1 DEF BeginRelease
    <3>5. SyncEffect(c, R)
      BY <1>4, <2>1, <2>4, <3>2, <3>3 DEF SyncEffect
    <3> QED BY <1>1, <1>2, <3>4, <3>5
  <2>5. CASE ~IsBarrierReached(status, acq, lc)
    <3>1. /\ pc' = [SignalBarrier(pc, R) EXCEPT ![c] = "barrier"]
          /\ lock' = lock /\ nextBarrier' = nextBarrier
      BY <2>1, <2>5
    <3>2. pc' = [o \in Core |-> IF o = c THEN "barrier"
                                ELSE IF o \in R THEN "synced" ELSE pc[o]]
      BY <2>2, <3>1, Zenon
    <3>3. SyncEffect(c, R)
      BY <1>1, <1>4, <2>1, <2>5, <3>1, <3>2, Zenon DEF SyncEffect
    <3>4. nextBarrier' \in Nat /\ nextBarrier' >= nextBarrier
      BY <3>1
    <3> QED BY <1>1, <1>2, <3>1, <3>3, <3>4
  <2> QED BY <2>4, <2>5
<1> QED BY <1>3, <1>4

\* Where barrierRelease returns to.
ReturnEffect(me, p, wait, place) ==
  /\ pc' = [p EXCEPT ![me] = place]
  /\ \/ pc[me] = "syncing" /\ wait /\ place = "barrier" /\ lock' = NoCore /\ nextSync' = nextSync
     \/ /\ pc[me] = "syncing" /\ ~wait /\ place = "run" /\ lock' = NoCore
        /\ nextSync' = [nextSync EXCEPT ![me] = NextSyncAfter(elapsed[me])]
     \/ /\ pc[me] \in {"signalling", "advancing"} /\ place = "stalling" /\ lock' = me
        /\ nextSync' = nextSync
     \/ /\ pc[me] = "blocking" /\ place = "blocked" /\ lock' = NoCore /\ nextSync' = nextSync
     \/ /\ pc[me] = "exiting" /\ place = "exited" /\ lock' = NoCore /\ nextSync' = nextSync

\* Where the caller of barrierRelease goes on, and with which next synchronization.
LEMMA ReturnFacts ==
  ASSUME NEW me \in Core, NEW p, NEW wait \in BOOLEAN, pc[me] \in ReleasePlaces, Return(me, p, wait)
  PROVE  \E place : ReturnEffect(me, p, wait, place)
<1>1. CASE pc[me] = "syncing" /\ wait
  <2>1. ReturnEffect(me, p, wait, "barrier")
    BY <1>1 DEF Return, ReturnEffect
  <2> QED BY <2>1
<1>2. CASE pc[me] = "syncing" /\ ~wait
  <2>1. ReturnEffect(me, p, wait, "run")
    BY <1>2 DEF Return, ReturnEffect
  <2> QED BY <2>1
<1>3. CASE pc[me] \in {"signalling", "advancing"}
  <2>1. ReturnEffect(me, p, wait, "stalling")
    BY <1>3, ZenonT(30) DEF Return, ReturnEffect
  <2> QED BY <2>1
<1>4. CASE pc[me] = "blocking"
  <2>1. ReturnEffect(me, p, wait, "blocked")
    BY <1>4 DEF Return, ReturnEffect
  <2> QED BY <2>1
<1>5. CASE pc[me] = "exiting"
  <2>1. ReturnEffect(me, p, wait, "exited")
    BY <1>5 DEF Return, ReturnEffect
  <2> QED BY <2>1
<1> QED BY <1>1, <1>2, <1>3, <1>4, <1>5 DEF ReleasePlaces

\* The outcomes of an iteration, after the hooks left s.
Stops(me, s) ==
  /\ pc[me] = "advancing" \/ s.disabled
  /\ \E place : ReturnEffect(me, s.pc, FALSE, place)
  /\ nextBarrier' = s.nextBarrier /\ acquired' = s.acquired /\ toRelease' = toRelease

Aborts(me, s) ==
  /\ pc[me] = "advancing" /\ s.sleeping = <<>> /\ pc' = [s.pc EXCEPT ![me] = "aborted"]
  /\ nextBarrier' = s.nextBarrier /\ acquired' = s.acquired
  /\ UNCHANGED <<toRelease, nextSync, lock>>

GoesRound(me, s) ==
  /\ pc[me] = "advancing" => ~AnyThreadRunning(s.status)
  /\ ~s.disabled /\ LetGo(me, s, s.nextBarrier + Quantum) = {}
  /\ nextBarrier' = s.nextBarrier + Quantum /\ acquired' = s.acquired
  /\ pc' = s.pc
  /\ UNCHANGED <<toRelease, nextSync, lock>>

LetsGo(me, s, go, R) ==
  /\ pc[me] = "advancing" => ~AnyThreadRunning(s.status)
  /\ ~s.disabled /\ go # {} /\ go = {c \in s.acquired : localClock[c] < s.nextBarrier + Quantum}
  /\ nextBarrier' = s.nextBarrier + Quantum /\ acquired' = s.acquired \ go
  /\ R \in SUBSET go /\ (pc[me] = "syncing" => me \notin R)
  /\ toRelease' = toRelease \cup (IF pc[me] = "syncing" THEN (go \ {me}) \ R ELSE go \ R)
  /\ \E place : ReturnEffect(me, SignalBarrier(s.pc, R), me \notin go, place)

\* The four outcomes of a pass through barrierRelease's loop.
LEMMA ReleaseFacts ==
  ASSUME BarrierInv, NEW me \in Core, NEW script \in BOOLEAN, Release(me, script)
  PROVE  /\ lock = me /\ pc[me] \in ReleasePlaces /\ (script => "script" \in config.calls)
         /\ config' = config /\ elapsed' = elapsed /\ localClock' = localClock
         /\ globalTime' = nextBarrier
         /\ \E s :
              /\ \E W \in SUBSET Core, A \in SUBSET Core : HookEffect(W, A, s)
              /\ ~script => /\ s.acquired = acquired
                            /\ s.fastforward = fastforward /\ s.disabled = disabled
                            /\ ~fastforward => s.nextBarrier = nextBarrier
              /\ status' = s.status /\ wakeup' = s.wakeup /\ sleeping' = s.sleeping
              /\ fastforward' = s.fastforward /\ disabled' = s.disabled
              /\ Stops(me, s) \/ Aborts(me, s) \/ GoesRound(me, s) \/ \E go, R : LetsGo(me, s, go, R)
<1> USE Types DEF BarrierInv
<1> DEFINE hooked == FastForwardStep(FutexPeriodic(Hooked, nextBarrier))
           s == IF script THEN SetPerformance(hooked) ELSE hooked
           nb == s.nextBarrier + Quantum
           go == LetGo(me, s, nb)
           others == IF pc[me] = "syncing" THEN go \ {me} ELSE go
<1>1. /\ lock = me /\ pc[me] \in ReleasePlaces /\ (script => "script" \in config.calls)
      /\ config' = config /\ elapsed' = elapsed /\ localClock' = localClock
      /\ globalTime' = nextBarrier
      /\ status' = s.status /\ wakeup' = s.wakeup /\ sleeping' = s.sleeping
      /\ fastforward' = s.fastforward /\ disabled' = s.disabled
  BY Zenon DEF Release
<1>2. \E W \in SUBSET Core, A \in SUBSET Core :
           /\ HookEffect(W, A, s)
           /\ ~script => /\ s.acquired = acquired
                         /\ s.fastforward = fastforward /\ s.disabled = disabled
                         /\ ~fastforward => s.nextBarrier = nextBarrier
  <2>1. PICK h : h = hooked
    OBVIOUS
  <2>2. PICK z : z = IF script THEN SetPerformance(h) ELSE h
    OBVIOUS
  <2>3. z = s
    <3> HIDE DEF hooked
    <3> QED BY <2>1, <2>2, Zenon
  <2>4. \E W \in SUBSET Core, A \in SUBSET Core :
           /\ HookEffect(W, A, z)
           /\ ~script => /\ z.acquired = acquired
                         /\ z.fastforward = fastforward /\ z.disabled = disabled
                         /\ ~fastforward => z.nextBarrier = nextBarrier
    BY <2>1, <2>2, HookFacts, ZenonT(30)
  <2> HIDE DEF s
  <2> QED BY <2>3, <2>4, Zenon
<1>3. \/ /\ pc[me] = "advancing"
         /\ Return(me, s.pc, FALSE)
         /\ nextBarrier' = s.nextBarrier /\ acquired' = s.acquired
         /\ UNCHANGED toRelease
      \/ /\ pc[me] = "advancing" /\ s.sleeping = <<>>
         /\ pc' = [s.pc EXCEPT ![me] = "aborted"]
         /\ nextBarrier' = s.nextBarrier /\ acquired' = s.acquired
         /\ UNCHANGED <<toRelease, nextSync, lock>>
      \/ /\ pc[me] # "advancing" /\ s.disabled
         /\ Return(me, s.pc, FALSE)
         /\ nextBarrier' = s.nextBarrier /\ acquired' = s.acquired
         /\ UNCHANGED toRelease
      \/ /\ pc[me] = "advancing" => ~AnyThreadRunning(s.status)
         /\ ~s.disabled
         /\ nextBarrier' = nb
         /\ acquired' = s.acquired \ go
         /\ IF go = {}
            THEN /\ pc' = s.pc
                 /\ UNCHANGED <<toRelease, nextSync, lock>>
            ELSE \E R \in DoRelease(others, IF s.fastforward THEN Cardinality(Core)
                                                             ELSE NumHostCores) :
                   /\ toRelease' = toRelease \cup (others \ R)
                   /\ Return(me, SignalBarrier(s.pc, R), me \notin go)
  BY ZenonT(30) DEF Release
<1> HIDE DEF s
<1>4. ASSUME NEW p, NEW wait \in BOOLEAN, Return(me, p, wait)
      PROVE  \E place : ReturnEffect(me, p, wait, place)
  BY <1>1, <1>4, ReturnFacts, ZenonT(30)
<1>5. Stops(me, s) \/ Aborts(me, s) \/ GoesRound(me, s) \/ \E g, R : LetsGo(me, s, g, R)
  <2>1. CASE /\ pc[me] = "advancing" \/ s.disabled
             /\ Return(me, s.pc, FALSE)
             /\ nextBarrier' = s.nextBarrier /\ acquired' = s.acquired
             /\ UNCHANGED toRelease
    <3>1. \E place : ReturnEffect(me, s.pc, FALSE, place)
      BY <1>4, <2>1, Zenon
    <3> QED BY <2>1, <3>1, Zenon DEF Stops
  <2>2. CASE /\ pc[me] = "advancing" /\ s.sleeping = <<>>
             /\ pc' = [s.pc EXCEPT ![me] = "aborted"]
             /\ nextBarrier' = s.nextBarrier /\ acquired' = s.acquired
             /\ UNCHANGED <<toRelease, nextSync, lock>>
    BY <2>2, Zenon DEF Aborts
  <2>3. CASE /\ pc[me] = "advancing" => ~AnyThreadRunning(s.status)
             /\ ~s.disabled
             /\ nextBarrier' = nb
             /\ acquired' = s.acquired \ go
             /\ go = {} /\ pc' = s.pc
             /\ UNCHANGED <<toRelease, nextSync, lock>>
    BY <2>3, Zenon DEF GoesRound
  <2>4. ASSUME /\ pc[me] = "advancing" => ~AnyThreadRunning(s.status)
               /\ ~s.disabled
               /\ nextBarrier' = nb
               /\ acquired' = s.acquired \ go
               /\ go # {},
               NEW R \in DoRelease(others, IF s.fastforward THEN Cardinality(Core)
                                                            ELSE NumHostCores),
               toRelease' = toRelease \cup (others \ R),
               Return(me, SignalBarrier(s.pc, R), me \notin go)
        PROVE  LetsGo(me, s, go, R)
    <3>1. R \in SUBSET others
      BY DEF DoRelease
    <3>2. \E place : ReturnEffect(me, SignalBarrier(s.pc, R), me \notin go, place)
      <4>1. (me \notin go) \in BOOLEAN
        OBVIOUS
      <4> QED BY <1>4, <2>4, <4>1, Zenon
    <3>3. go = {c \in s.acquired : localClock[c] < s.nextBarrier + Quantum}
      BY ZenonT(30) DEF LetGo
    <3> HIDE DEF go
    <3>4. /\ R \in SUBSET go /\ (pc[me] = "syncing" => me \notin R)
          /\ toRelease' = toRelease \cup (IF pc[me] = "syncing" THEN (go \ {me}) \ R ELSE go \ R)
      BY <2>4, <3>1, ZenonT(30)
    <3> QED BY <2>4, <3>2, <3>3, <3>4, Zenon DEF LetsGo
  <2> HIDE DEF go, nb
  <2> QED BY <1>3, <2>1, <2>2, <2>3, <2>4, Zenon
<1> QED BY <1>1, <1>2, <1>5, Zenon
=============================================================================
