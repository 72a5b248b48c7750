------------------------------ MODULE SharedLocks ------------------------------
(***************************************************************************)
(* The two implementations of a lock that sharers take for reading and one *)
(* at a time for writing: _SetLock (setlock.cc), a mutex per sharer, which *)
(* the caches use for a set, and SELock (selock.cc), a flag and two counts *)
(* with atomic instructions, which `#if 0' in setlock.h can select.        *)
(*                                                                         *)
(* lc is the configuration: the kind, the number of sharers, and what they *)
(* do.  mutex is m_locks (the sharer that has each), word the fields of    *)
(* SELock, and at where each sharer is in the code.                        *)
(***************************************************************************)
EXTENDS Integers, FiniteSets

CONSTANTS LockConfigs, Nobody

ASSUME LockConstants ==
  /\ Nobody \notin Nat \ {0}
  /\ \A k \in LockConfigs :
       k.kind \in {"set", "se"} /\ k.sharers \in Nat \ {0} /\ k.mayRead \in BOOLEAN

VARIABLES lc, mutex, word, at

lockVars == <<lc, mutex, word, at>>

Sharer == 1 .. lc.sharers

Idle == [pc |-> "idle", i |-> 0]
At(pc) == [pc |-> pc, i |-> 0]

LockInit ==
  /\ lc \in LockConfigs
  /\ mutex = [i \in 1 .. lc.sharers |-> Nobody]
  /\ word = [write |-> FALSE, writers |-> 0, readers |-> 0]
  /\ at = [s \in 1 .. lc.sharers |-> Idle]

Goto(s, pc) == at' = [at EXCEPT ![s] = At(pc)]

-----------------------------------------------------------------------------
(* _SetLock *)

Release(i) == mutex' = [mutex EXCEPT ![i] = Nobody]

AcquireShared(s) == mutex[s] = Nobody /\ mutex' = [mutex EXCEPT ![s] = s] /\ Goto(s, "shared")

\* One iteration of the loop of acquire_exclusive, for mutex i.
AcquireNext(s, i) ==
  /\ at[s].pc = "acquiring" /\ mutex[i] = Nobody
  /\ mutex' = [mutex EXCEPT ![i] = s]
  /\ IF i = lc.sharers THEN Goto(s, "exclusive") ELSE at' = [at EXCEPT ![s].i = i]

ReleaseExclusive(s) ==
  /\ mutex' = [i \in DOMAIN mutex |-> Nobody]
  /\ Goto(s, "idle")

\* Bug: every mutex is released.
MutDowngrade(s) == mutex' = [i \in DOMAIN mutex |-> Nobody] /\ Goto(s, "shared")

Downgrade(s) ==
  /\ mutex' = [i \in DOMAIN mutex |-> IF i = s THEN s ELSE Nobody]
  /\ Goto(s, "shared")

Upgrade(s) == Release(s) /\ Goto(s, "acquiring")

\* The calls of a sharer.
SetLockCall(s) ==
  \/ at[s].pc = "idle" /\ AcquireShared(s)
  \/ at[s].pc = "idle" /\ at' = [at EXCEPT ![s] = At("acquiring")] /\ UNCHANGED mutex
  \/ AcquireNext(s, at[s].i + 1)
  \/ at[s].pc = "shared" /\ Release(s) /\ Goto(s, "idle")
  \/ at[s].pc = "shared" /\ Upgrade(s)
  \/ at[s].pc = "exclusive" /\ ReleaseExclusive(s)
  \/ at[s].pc = "exclusive" /\ Downgrade(s)

SetLockStep == lc.kind = "set" /\ (\E s \in Sharer : SetLockCall(s)) /\ UNCHANGED <<lc, word>>

-----------------------------------------------------------------------------
(* SELock: one step for each access to the shared words *)

WantsToWrite(s) ==
  /\ at[s].pc = "idle" /\ lc.mayWrite
  /\ word' = [word EXCEPT !.writers = @ + 1] /\ Goto(s, "wait write")

\* WAIT_WHILE(m_write || m_readers) reads the one, then the other.
WaitWhileUsed(s) ==
  /\ UNCHANGED word
  /\ \/ at[s].pc = "wait write" /\ ~word.write /\ Goto(s, "wait readers")
     \/ at[s].pc = "wait readers" /\ Goto(s, IF word.readers = 0 THEN "set write" ELSE "wait write")

SetWrite(s) ==
  /\ at[s].pc = "set write"
  /\ word' = [word EXCEPT !.write = TRUE]
  /\ Goto(s, IF word.write THEN "wait write" ELSE "got write")

NoLongerWaiting(s) ==
  /\ at[s].pc = "got write"
  /\ word' = [word EXCEPT !.writers = @ - 1] /\ Goto(s, "exclusive")

ReleaseWrite(s) ==
  /\ at[s].pc = "exclusive"
  /\ word' = [word EXCEPT !.write = FALSE] /\ Goto(s, "idle")

WaitWhileWritten(s) ==
  /\ at[s].pc = "idle" /\ lc.mayRead /\ ~word.write
  /\ UNCHANGED word /\ Goto(s, "set read")

\* "make ourselves writer for a bit"
SetRead(s) ==
  /\ at[s].pc = "set read"
  /\ word' = [word EXCEPT !.write = TRUE]
  /\ Goto(s, IF word.write THEN "idle" ELSE "reading")

CountReader(s) ==
  /\ at[s].pc = "reading"
  /\ word' = [word EXCEPT !.readers = @ + 1] /\ Goto(s, "clear")

ClearWrite(s) ==
  /\ at[s].pc = "clear"
  /\ word' = [word EXCEPT !.write = FALSE] /\ Goto(s, "shared")

ReleaseReader(s) ==
  /\ at[s].pc = "shared"
  /\ word' = [word EXCEPT !.readers = @ - 1] /\ Goto(s, "idle")

\* upgrade: __sync_add_and_fetch returns the new count, which is never 0, so that the other
\* branch is not taken.
UpgradeCount(s) ==
  /\ at[s].pc = "shared" /\ lc.mayWrite
  /\ word' = [word EXCEPT !.writers = @ + 1] /\ Goto(s, "upgrade")

UpgradeRelease(s) ==
  /\ at[s].pc = "upgrade"
  /\ word' = [word EXCEPT !.readers = @ - 1] /\ Goto(s, "wait write")

DowngradeCount(s) ==
  /\ at[s].pc = "exclusive" /\ lc.mayRead
  /\ word' = [word EXCEPT !.readers = @ + 1] /\ Goto(s, "clear")

SELockCall(s) ==
  \/ WantsToWrite(s) \/ WaitWhileUsed(s) \/ SetWrite(s) \/ NoLongerWaiting(s) \/ ReleaseWrite(s)
  \/ WaitWhileWritten(s) \/ SetRead(s) \/ CountReader(s) \/ ClearWrite(s) \/ ReleaseReader(s)
  \/ UpgradeCount(s) \/ UpgradeRelease(s) \/ DowngradeCount(s)

SELockStep == lc.kind = "se" /\ (\E s \in Sharer : SELockCall(s)) /\ UNCHANGED <<lc, mutex>>

LockNext == SetLockStep \/ SELockStep

LockSpec == LockInit /\ [][LockNext]_lockVars

-----------------------------------------------------------------------------

LockTypeOK ==
  /\ mutex \in [Sharer -> Sharer \cup {Nobody}]
  /\ word.writers \in 0 .. lc.sharers /\ word.readers \in 0 .. lc.sharers

Writes(s) == at[s].pc \in {"exclusive", "got write"}
Reads(s) == at[s].pc = "shared"

\* While a sharer has exclusive access nobody else has access: for the lock that the caches
\* use, and for SELock where all sharers write.
Excludes ==
  lc.kind = "set" \/ ~lc.mayRead =>
    \A s, u \in Sharer : Writes(s) /\ s # u => ~Writes(u) /\ ~Reads(u)

\* "No readers can come in, but another writer may have beaten us": the same for SELock with
\* readers, too.
NoReadersComeIn == \A s, u \in Sharer : Writes(s) /\ s # u => ~Writes(u) /\ ~Reads(u)

\* The assertions of SELock: while a sharer has the lock for writing m_write is set, and
\* m_readers counts the ones that read; m_writers those that wait to write.
WordsMatch ==
  lc.kind = "se" =>
    /\ \A s \in Sharer : Writes(s) => word.write
    /\ word.readers = Cardinality({s \in Sharer : at[s].pc \in {"shared", "clear", "upgrade"}})
    /\ word.writers = Cardinality({s \in Sharer : at[s].pc \in {"wait write", "wait readers", "set write", "got write", "upgrade"}})

\* Writers take the mutexes in one order, and upgrade gives its own up first: somebody can
\* always go on.
SomebodyGoesOn ==
  lc.kind = "set" =>
    \E s \in Sharer : at[s].pc = "acquiring" => mutex[at[s].i + 1] = Nobody
=============================================================================
