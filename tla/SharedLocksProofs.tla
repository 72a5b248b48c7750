-------------------------- MODULE SharedLocksProofs --------------------------
(***************************************************************************)
(* Proof that the lock of a cache set excludes, for any number of sharers. *)
(***************************************************************************)
EXTENDS SharedLocks, TLAPS

\* The places of a sharer in _SetLock, and in SELock when nobody reads.
SetPlaces == {"idle", "acquiring", "shared", "exclusive"}
WritePlaces == {"idle", "wait write", "wait readers", "set write", "got write", "exclusive"}

Places ==
  SetPlaces \cup WritePlaces \cup {"set read", "reading", "clear", "upgrade"}

\* Every variable has its type.
LocksTyped ==
  /\ lc \in LockConfigs
  /\ mutex \in [Sharer -> Sharer \cup {Nobody}]
  /\ word \in [write : BOOLEAN, writers : Int, readers : Int]
  /\ at \in [Sharer -> [pc : Places, i : Nat]]

\* _SetLock: a reader has its own mutex, a writer all of them, and one on the way to
\* become a writer those it has passed in acquire_exclusive's loop.
MutexesHeld ==
  \A s \in Sharer :
    /\ at[s].pc \in SetPlaces
    /\ at[s].pc = "shared" => mutex[s] = s
    /\ at[s].pc = "exclusive" => \A i \in Sharer : mutex[i] = s
    /\ at[s].pc = "acquiring" => at[s].i < lc.sharers /\ \A i \in 1 .. at[s].i : mutex[i] = s

\* SELock without readers: m_write is set by the one sharer that writes.
OneWriter ==
  /\ \A s \in Sharer : at[s].pc \in WritePlaces
  /\ \A s \in Sharer : Writes(s) => word.write
  /\ \A s, u \in Sharer : Writes(s) /\ Writes(u) => s = u

\* The inductive invariant.
LockInv ==
  /\ LocksTyped
  /\ lc.kind = "set" => MutexesHeld
  /\ lc.kind = "se" /\ ~lc.mayRead => OneWriter

(* What is known of the configuration.                                      *)
LEMMA ConfigFacts ==
  ASSUME LocksTyped
  PROVE  /\ lc.sharers \in Nat /\ lc.sharers >= 1 /\ Sharer = 1 .. lc.sharers
         /\ Nobody \notin Sharer /\ lc.kind \in {"set", "se"}
BY LockConstants DEF LocksTyped, Sharer

(* A sharer that goes elsewhere in the code, and the others.                *)
LEMMA GotoFacts ==
  ASSUME LocksTyped, NEW s \in Sharer, NEW pc \in Places, Goto(s, pc)
  PROVE  /\ at' \in [Sharer -> [pc : Places, i : Nat]]
         /\ at'[s].pc = pc /\ at'[s].i = 0
         /\ \A u \in Sharer : u # s => at'[u] = at[u]
BY DEF LocksTyped, Goto, At

(* At the start nobody has the lock.                                        *)
LEMMA InitLock == LockInit => LockInv
<1> SUFFICES ASSUME LockInit PROVE LockInv
  OBVIOUS
<1>1. LocksTyped
  BY LockConstants DEF LockInit, LocksTyped, Sharer, Idle, Places, SetPlaces
<1>2. \A s \in Sharer : at[s].pc = "idle"
  BY DEF LockInit, Sharer, Idle
<1>3. MutexesHeld
  BY <1>2 DEF MutexesHeld, SetPlaces
<1>4. OneWriter
  BY <1>2, Zenon DEF OneWriter, WritePlaces, Writes
<1> QED BY <1>1, <1>3, <1>4 DEF LockInv

(* Every call of a sharer of _SetLock keeps what each of them holds.        *)
LEMMA SetLockStepInv ==
  ASSUME LockInv, SetLockStep
  PROVE  LockInv'
<1>1. /\ LocksTyped /\ MutexesHeld /\ lc.kind = "set" /\ lc' = lc /\ word' = word
      /\ Sharer' = Sharer
  BY DEF LockInv, SetLockStep, Sharer
<1>2. /\ lc.sharers \in Nat /\ lc.sharers >= 1 /\ Sharer = 1 .. lc.sharers
      /\ Nobody \notin Sharer
  BY <1>1, ConfigFacts
<1> SUFFICES LocksTyped' /\ MutexesHeld'
  BY <1>1 DEF LockInv
<1>3. PICK s \in Sharer : SetLockCall(s)
  BY DEF SetLockStep
<1>4. "idle" \in Places /\ "acquiring" \in Places /\ "shared" \in Places /\ "exclusive" \in Places
  BY DEF Places, SetPlaces
<1>5. mutex \in [Sharer -> Sharer \cup {Nobody}] /\ at \in [Sharer -> [pc : Places, i : Nat]]
  BY <1>1 DEF LocksTyped
<1>6. ASSUME mutex' \in [Sharer -> Sharer \cup {Nobody}], at' \in [Sharer -> [pc : Places, i : Nat]]
      PROVE  LocksTyped'
  BY <1>1, <1>6 DEF LocksTyped
<1>7. CASE at[s].pc = "idle" /\ AcquireShared(s)
  <2>1. /\ mutex' = [mutex EXCEPT ![s] = s] /\ mutex[s] = Nobody /\ at'[s].pc = "shared"
        /\ at' \in [Sharer -> [pc : Places, i : Nat]] /\ \A u \in Sharer : u # s => at'[u] = at[u]
    BY <1>1, <1>4, <1>7, GotoFacts DEF AcquireShared
  <2>2. LocksTyped'
    BY <1>5, <1>6, <2>1
  <2>3. MutexesHeld'
    BY <1>1, <1>2, <1>5, <2>1 DEF MutexesHeld, SetPlaces
  <2> QED BY <2>2, <2>3
<1>8. CASE at[s].pc = "idle" /\ at' = [at EXCEPT ![s] = At("acquiring")] /\ UNCHANGED mutex
  <2>1. /\ at'[s].pc = "acquiring" /\ at'[s].i = 0
        /\ at' \in [Sharer -> [pc : Places, i : Nat]] /\ \A u \in Sharer : u # s => at'[u] = at[u]
    BY <1>1, <1>4, <1>8, GotoFacts, Zenon DEF Goto
  <2>2. LocksTyped'
    BY <1>5, <1>6, <1>8, <2>1
  <2>3. MutexesHeld'
    BY <1>1, <1>2, <1>5, <1>8, <2>1 DEF MutexesHeld, SetPlaces
  <2> QED BY <2>2, <2>3
<1>9. CASE AcquireNext(s, at[s].i + 1)
  <2>1. PICK k : k = at[s].i + 1
    OBVIOUS
  <2>2. /\ at[s].pc = "acquiring" /\ mutex[k] = Nobody /\ mutex' = [mutex EXCEPT ![k] = s]
        /\ IF k = lc.sharers THEN Goto(s, "exclusive") ELSE at' = [at EXCEPT ![s].i = k]
    BY <1>9, <2>1 DEF AcquireNext
  <2>3. k \in Sharer /\ k \in Nat /\ \A i \in 1 .. k - 1 : mutex[i] = s
    BY <1>1, <1>2, <1>5, <2>1, <2>2 DEF MutexesHeld
  <2>4. /\ mutex' \in [Sharer -> Sharer \cup {Nobody}] /\ mutex'[k] = s
        /\ \A i \in Sharer : i # k => mutex'[i] = mutex[i]
    BY <1>5, <2>2, <2>3
  <2>5. \A i \in 1 .. k : mutex'[i] = s
    BY <1>2, <2>3, <2>4
  <2>6. ASSUME NEW u \in Sharer, u # s
        PROVE  /\ at[u].pc \in SetPlaces
               /\ at[u].pc = "shared" => mutex'[u] = u
               /\ at[u].pc = "exclusive" => \A i \in Sharer : mutex'[i] = u
               /\ at[u].pc = "acquiring" => at[u].i < lc.sharers /\ \A i \in 1 .. at[u].i : mutex'[i] = u
    BY <1>1, <1>2, <1>5, <2>2, <2>3, <2>4, <2>6 DEF MutexesHeld
  <2>7. CASE k = lc.sharers
    <3>1. /\ at'[s].pc = "exclusive" /\ at' \in [Sharer -> [pc : Places, i : Nat]]
          /\ \A u \in Sharer : u # s => at'[u] = at[u]
      BY <1>1, <1>4, <2>2, <2>7, GotoFacts
    <3>2. LocksTyped'
      BY <1>6, <2>4, <3>1
    <3>3. MutexesHeld'
      BY <1>1, <1>2, <2>5, <2>6, <2>7, <3>1 DEF MutexesHeld, SetPlaces
    <3> QED BY <3>2, <3>3
  <2>8. CASE k # lc.sharers
    <3>1. /\ at'[s].pc = "acquiring" /\ at'[s].i = k /\ at' \in [Sharer -> [pc : Places, i : Nat]]
          /\ \A u \in Sharer : u # s => at'[u] = at[u]
      BY <1>5, <2>2, <2>3, <2>8
    <3>2. LocksTyped'
      BY <1>6, <2>4, <3>1
    <3>3. k < lc.sharers
      BY <1>2, <2>3, <2>8
    <3>4. MutexesHeld'
      BY <1>1, <2>5, <2>6, <3>1, <3>3 DEF MutexesHeld, SetPlaces
    <3> QED BY <3>2, <3>4
  <2> QED BY <2>7, <2>8
<1>10. CASE at[s].pc = "shared" /\ ((Release(s) /\ Goto(s, "idle")) \/ Upgrade(s))
  <2>1. /\ mutex' = [mutex EXCEPT ![s] = Nobody] /\ at'[s].pc \in {"idle", "acquiring"} /\ at'[s].i = 0
        /\ at' \in [Sharer -> [pc : Places, i : Nat]] /\ \A u \in Sharer : u # s => at'[u] = at[u]
    BY <1>1, <1>4, <1>10, GotoFacts DEF Release, Upgrade
  <2>2. LocksTyped'
    BY <1>5, <1>6, <2>1
  <2>3. mutex[s] = s
    BY <1>1, <1>10 DEF MutexesHeld
  <2>4. \A i \in Sharer : i # s => mutex'[i] = mutex[i]
    BY <1>5, <2>1
  <2>5. ASSUME NEW u \in Sharer, u # s
        PROVE  /\ at[u].pc \in SetPlaces
               /\ at[u].pc = "shared" => mutex'[u] = u
               /\ at[u].pc = "exclusive" => \A i \in Sharer : mutex'[i] = u
               /\ at[u].pc = "acquiring" => at[u].i < lc.sharers /\ \A i \in 1 .. at[u].i : mutex'[i] = u
    <3>1. /\ at[u].pc \in SetPlaces /\ at[u].i \in Nat
          /\ at[u].pc = "shared" => mutex[u] = u
          /\ at[u].pc = "exclusive" => \A i \in Sharer : mutex[i] = u
          /\ at[u].pc = "acquiring" => at[u].i < lc.sharers /\ \A i \in 1 .. at[u].i : mutex[i] = u
      BY <1>1, <1>5 DEF MutexesHeld
    <3>2. at[u].pc # "exclusive"
      BY <2>3, <2>5, <3>1
    <3>3. ASSUME at[u].pc = "acquiring", NEW i \in 1 .. at[u].i PROVE mutex'[i] = u
      <4>1. i \in Sharer /\ mutex[i] = u
        BY <1>2, <3>1, <3>3
      <4> QED BY <4>1, <2>3, <2>4, <2>5
    <3> QED BY <2>4, <2>5, <3>1, <3>2, <3>3
  <2>6. MutexesHeld'
    <3>1. at'[s].pc \in SetPlaces /\ at'[s].pc # "shared" /\ at'[s].pc # "exclusive"
      BY <2>1 DEF SetPlaces
    <3>2. at'[s].i < lc.sharers /\ \A i \in 1 .. at'[s].i : mutex'[i] = s
      BY <1>2, <2>1
    <3>3. lc' = lc
      BY <1>1
    <3>4. ASSUME NEW u \in Sharer
          PROVE  /\ at'[u].pc \in SetPlaces
                 /\ at'[u].pc = "shared" => mutex'[u] = u
                 /\ at'[u].pc = "exclusive" => \A i \in Sharer : mutex'[i] = u
                 /\ at'[u].pc = "acquiring" => at'[u].i < lc.sharers /\ \A i \in 1 .. at'[u].i : mutex'[i] = u
      <4>1. CASE u = s
        BY <3>1, <3>2, <4>1, Zenon
      <4>2. CASE u # s
        <5>1. at'[u] = at[u]
          BY <2>1, <4>2, Zenon
        <5> QED BY <2>5, <4>2, <5>1, Zenon
      <4> QED BY <4>1, <4>2
    <3> QED BY <1>1, <3>3, <3>4, Zenon DEF MutexesHeld
  <2> QED BY <2>2, <2>6
<1>11. CASE at[s].pc = "exclusive" /\ ReleaseExclusive(s)
  <2>1. /\ mutex' = [i \in Sharer |-> Nobody] /\ at'[s].pc = "idle"
        /\ at' \in [Sharer -> [pc : Places, i : Nat]] /\ \A u \in Sharer : u # s => at'[u] = at[u]
    BY <1>1, <1>4, <1>5, <1>11, GotoFacts DEF ReleaseExclusive
  <2>2. LocksTyped'
    BY <1>6, <2>1
  <2>3. \A i \in Sharer : mutex[i] = s
    BY <1>1, <1>11 DEF MutexesHeld
  <2>4. \A u \in Sharer : u # s => at[u].pc = "idle" \/ (at[u].pc = "acquiring" /\ at[u].i = 0)
    BY <1>1, <1>2, <1>5, <2>3 DEF MutexesHeld, SetPlaces
  <2>5. 0 < lc.sharers /\ 1 .. 0 = {}
    BY <1>2
  <2>6. MutexesHeld'
    BY <1>1, <2>1, <2>4, <2>5 DEF MutexesHeld, SetPlaces
  <2> QED BY <2>2, <2>6
<1>12. CASE at[s].pc = "exclusive" /\ Downgrade(s)
  <2>1. /\ mutex' = [i \in Sharer |-> IF i = s THEN s ELSE Nobody] /\ at'[s].pc = "shared"
        /\ at' \in [Sharer -> [pc : Places, i : Nat]] /\ \A u \in Sharer : u # s => at'[u] = at[u]
    BY <1>1, <1>4, <1>5, <1>12, GotoFacts DEF Downgrade
  <2>2. LocksTyped'
    BY <1>6, <2>1
  <2>3. \A i \in Sharer : mutex[i] = s
    BY <1>1, <1>12 DEF MutexesHeld
  <2>4. \A u \in Sharer : u # s => at[u].pc = "idle" \/ (at[u].pc = "acquiring" /\ at[u].i = 0)
    BY <1>1, <1>2, <1>5, <2>3 DEF MutexesHeld, SetPlaces
  <2>5. 0 < lc.sharers /\ 1 .. 0 = {}
    BY <1>2
  <2>6. MutexesHeld'
    BY <1>1, <2>1, <2>4, <2>5 DEF MutexesHeld, SetPlaces
  <2> QED BY <2>2, <2>6
<1> QED BY <1>3, <1>7, <1>8, <1>9, <1>10, <1>11, <1>12 DEF SetLockCall

(* Every access of SELock to its words keeps their types.                   *)
LEMMA SELockTyped ==
  ASSUME LocksTyped, SELockStep
  PROVE  LocksTyped'
<1>1. lc' = lc /\ mutex' = mutex /\ Sharer' = Sharer
  BY DEF SELockStep, Sharer
<1>2. PICK s \in Sharer : SELockCall(s)
  BY DEF SELockStep
<1>3. word \in [write : BOOLEAN, writers : Int, readers : Int]
  BY DEF LocksTyped
<1>4. word' \in [write : BOOLEAN, writers : Int, readers : Int]
  <2>1. \/ word' = word
        \/ \E b \in BOOLEAN : word' = [word EXCEPT !.write = b]
        \/ \E n \in {word.writers + 1, word.writers - 1} : word' = [word EXCEPT !.writers = n]
        \/ \E n \in {word.readers + 1, word.readers - 1} : word' = [word EXCEPT !.readers = n]
    BY <1>2, Zenon
       DEF SELockCall, WantsToWrite, WaitWhileUsed, SetWrite, NoLongerWaiting, ReleaseWrite,
           WaitWhileWritten, SetRead, CountReader, ClearWrite, ReleaseReader,
           UpgradeCount, UpgradeRelease, DowngradeCount
  <2> QED BY <2>1, <1>3
<1>5. \E pc \in Places : Goto(s, pc)
  BY <1>2, Zenon DEF SELockCall, WantsToWrite, WaitWhileUsed, SetWrite, NoLongerWaiting, ReleaseWrite,
              WaitWhileWritten, SetRead, CountReader, ClearWrite, ReleaseReader,
              UpgradeCount, UpgradeRelease, DowngradeCount, Places, SetPlaces, WritePlaces
<1>6. at' \in [Sharer -> [pc : Places, i : Nat]]
  BY <1>5, GotoFacts
<1> QED BY <1>1, <1>4, <1>6 DEF LocksTyped

(* When nobody reads, the atomic swap of m_write lets one writer in.        *)
LEMMA SELockOneWriter ==
  ASSUME LocksTyped, OneWriter, ~lc.mayRead, SELockStep
  PROVE  OneWriter'
<1>1. lc' = lc /\ mutex' = mutex /\ Sharer' = Sharer
  BY DEF SELockStep, Sharer
<1>2. PICK s \in Sharer : SELockCall(s)
  BY DEF SELockStep
<1>3. word \in [write : BOOLEAN, writers : Int, readers : Int]
  BY DEF LocksTyped
<1>4. at[s].pc \in WritePlaces
  BY DEF OneWriter
<1>5. ~(WaitWhileWritten(s) \/ SetRead(s) \/ CountReader(s) \/ ClearWrite(s) \/ ReleaseReader(s)
        \/ UpgradeCount(s) \/ UpgradeRelease(s) \/ DowngradeCount(s))
  BY <1>4, Zenon DEF WaitWhileWritten, SetRead, CountReader, ClearWrite, ReleaseReader,
              UpgradeCount, UpgradeRelease, DowngradeCount, WritePlaces
<1>6. CASE WantsToWrite(s) \/ WaitWhileUsed(s)
  <2>1. /\ word'.write = word.write
        /\ \E pc \in {"wait write", "wait readers", "set write"} : Goto(s, pc)
    BY <1>3, <1>6, Zenon DEF WantsToWrite, WaitWhileUsed
  <2>2. /\ at'[s].pc \in {"wait write", "wait readers", "set write"}
        /\ \A u \in Sharer : u # s => at'[u] = at[u]
    BY <2>1, GotoFacts, Zenon DEF Places, WritePlaces
  <2> QED BY <1>1, <2>1, <2>2, ZenonT(30) DEF OneWriter, Writes, WritePlaces
<1>7. CASE SetWrite(s)
  <2>1. word'.write
    BY <1>3, <1>7, Zenon DEF SetWrite
  <2>2. /\ at'[s].pc = IF word.write THEN "wait write" ELSE "got write"
        /\ \A u \in Sharer : u # s => at'[u] = at[u]
    BY <1>7, GotoFacts, Zenon DEF SetWrite, Places, WritePlaces
  <2>3. ~word.write => \A u \in Sharer : ~Writes(u)
    BY DEF OneWriter
  <2>4. \A u \in Sharer : at'[u].pc \in WritePlaces
    BY <2>2, Zenon DEF OneWriter, WritePlaces
  <2>5. \A u, v \in Sharer : Writes(u)' /\ Writes(v)' => u = v
    BY <2>2, <2>3, Zenon DEF OneWriter, Writes
  <2> QED BY <1>1, <2>1, <2>4, <2>5 DEF OneWriter
<1>8. CASE NoLongerWaiting(s)
  <2>1. word'.write = word.write /\ at[s].pc = "got write"
    BY <1>3, <1>8, Zenon DEF NoLongerWaiting
  <2>2. at'[s].pc = "exclusive" /\ \A u \in Sharer : u # s => at'[u] = at[u]
    BY <1>8, GotoFacts, Zenon DEF NoLongerWaiting, Places, WritePlaces
  <2>3. \A u \in Sharer : at'[u].pc \in WritePlaces
    BY <2>2, Zenon DEF OneWriter, WritePlaces
  <2>4. \A u \in Sharer : Writes(u)' <=> Writes(u)
    BY <2>1, <2>2, Zenon DEF Writes
  <2> QED BY <1>1, <2>1, <2>3, <2>4, Zenon DEF OneWriter
<1>9. CASE ReleaseWrite(s)
  <2>1. at[s].pc = "exclusive"
    BY <1>9 DEF ReleaseWrite
  <2>2. at'[s].pc = "idle" /\ \A u \in Sharer : u # s => at'[u] = at[u]
    BY <1>9, GotoFacts, Zenon DEF ReleaseWrite, Places, WritePlaces
  <2>3. \A u \in Sharer : u # s => ~Writes(u)
    BY <2>1, Zenon DEF OneWriter, Writes
  <2> QED BY <1>1, <2>2, <2>3, Zenon DEF OneWriter, Writes, WritePlaces
<1> QED BY <1>2, <1>5, <1>6, <1>7, <1>8, <1>9 DEF SELockCall

(* Every step keeps the invariant.                                          *)
LEMMA NextLock == LockInv /\ [LockNext]_lockVars => LockInv'
<1> SUFFICES ASSUME LockInv, [LockNext]_lockVars PROVE LockInv'
  OBVIOUS
<1>1. CASE UNCHANGED lockVars
  <2>1. lc' = lc /\ mutex' = mutex /\ word' = word /\ at' = at /\ Sharer' = Sharer
    BY <1>1 DEF lockVars, Sharer
  <2>2. LocksTyped' = LocksTyped
    BY <2>1 DEF LocksTyped
  <2>3. MutexesHeld' = MutexesHeld
    BY <2>1 DEF MutexesHeld
  <2>4. OneWriter' = OneWriter
    BY <2>1 DEF OneWriter, Writes
  <2> QED BY <2>1, <2>2, <2>3, <2>4 DEF LockInv
<1>2. CASE SELockStep
  <2>1. lc' = lc /\ lc.kind = "se"
    BY <1>2 DEF SELockStep
  <2>2. LocksTyped'
    BY <1>2, SELockTyped DEF LockInv
  <2>3. ~lc.mayRead => OneWriter'
    BY <1>2, <2>1, SELockOneWriter DEF LockInv
  <2> QED BY <2>1, <2>2, <2>3 DEF LockInv
<1> QED BY <1>1, <1>2, SetLockStepInv DEF LockNext

(* The invariant excludes.                                                  *)
LEMMA InvExcludes == LockInv => Excludes
<1> SUFFICES ASSUME LockInv, NEW s \in Sharer, NEW u \in Sharer, Writes(s), s # u,
                    lc.kind = "set" \/ ~lc.mayRead
             PROVE  ~Writes(u) /\ ~Reads(u)
  BY DEF Excludes
<1>1. lc.kind \in {"set", "se"}
  BY ConfigFacts DEF LockInv
<1>2. CASE lc.kind = "set"
  <2>1. MutexesHeld
    BY <1>2 DEF LockInv
  <2>2. at[s].pc = "exclusive"
    BY <2>1, Zenon DEF MutexesHeld, Writes, SetPlaces
  <2>3. mutex[u] = s
    BY <2>1, <2>2 DEF MutexesHeld
  <2>4. at[u].pc # "exclusive" /\ at[u].pc # "shared" /\ at[u].pc # "got write"
    BY <2>1, <2>3, Zenon DEF MutexesHeld, SetPlaces
  <2> QED BY <2>4, Zenon DEF Writes, Reads
<1>3. CASE lc.kind = "se" /\ ~lc.mayRead
  BY <1>3, Zenon DEF LockInv, OneWriter, WritePlaces, Reads
<1> QED BY <1>1, <1>2, <1>3

(* A cache set's lock never gives two sharers access when one of them may   *)
(* write, through upgrades and downgrades, for any number of sharers.       *)
THEOREM LockAlwaysExcludes == LockSpec => []Excludes
BY InitLock, NextLock, InvExcludes, PTL DEF LockSpec
=============================================================================
