------------------------- MODULE TraceManagerProofs -------------------------
(***************************************************************************)
(* Proofs about the end of a trace-driven simulation, for any number of    *)
(* applications, threads and restarts.                                     *)
(***************************************************************************)
EXTENDS TraceManager, FiniteSetTheorems, TLAPS

ThreadInfo == [app : App, first : BOOLEAN]

States ==
  [threads : Seq(ThreadInfo), stop : SUBSET Nat, stopped : SUBSET Nat,
   numThreads : [App -> Int], numRuns : [App -> Nat], nonfinish : Int, done : BOOLEAN]

\* The threads of application a without m_stopped, in a state s of the manager.
Live(s, a) == {t \in DOMAIN s.threads \ s.stopped : s.threads[t].app = a}

\* Thread t of application a is counted out, as signalDone begins with.
CountedOut(s, t, a) == [s EXCEPT !.stopped = @ \cup {t}, !.numThreads[a] = @ - 1]

\* The applications, of the first n, that have not completed a run.
Unfinished(s, n) == {a \in 1 .. n : s.numRuns[a] = 0}

\* The counts of a state with n applications are exact, no application beyond them has a
\* thread or a completed run, and m_stopped is set for threads only.
Good(s, n) ==
  /\ s \in States
  /\ \A t \in DOMAIN s.threads : s.threads[t].app \in 1 .. n
  /\ \A a \in App : s.numThreads[a] = Cardinality(Live(s, a))
  /\ s.nonfinish = Cardinality(Unfinished(s, n))
  /\ \A a \in App : a > n => s.numRuns[a] = 0
  /\ s.stopped \subseteq DOMAIN s.threads

Places == {"init", "run", "blocked", "ending", "last", "aborted", "completed", "done"}

\* endApplication's iterator of a thread that executes it.
Iterators ==
  /\ pc \in [Id -> Places] /\ index \in [Id -> Nat]
  /\ \A t \in Id : pc[t] = "ending" => index[t] > 0

\* The inductive invariant.
CountsInv == numApps \in App /\ Good(State, numApps) /\ Iterators

-----------------------------------------------------------------------------
(* The sets that are counted are finite.                                    *)
LEMMA CountedFinite ==
  ASSUME NEW s \in States
  PROVE  /\ \A a : IsFiniteSet(Live(s, a)) /\ Cardinality(Live(s, a)) \in Nat
         /\ \A n \in Nat : IsFiniteSet(Unfinished(s, n)) /\ Cardinality(Unfinished(s, n)) \in Nat
<1>1. IsFiniteSet(DOMAIN s.threads)
  <2>1. s.threads \in Seq(ThreadInfo)
    BY DEF States
  <2>2. DOMAIN s.threads = 1 .. Len(s.threads) /\ Len(s.threads) \in Nat
    BY <2>1
  <2> QED BY <2>2, FS_Interval
<1>2. \A a : Live(s, a) \in SUBSET DOMAIN s.threads
  BY DEF Live
<1>3. \A n : Unfinished(s, n) \in SUBSET (1 .. n)
  BY DEF Unfinished
<1>4. \A n \in Nat : IsFiniteSet(1 .. n)
  BY FS_Interval
<1> QED BY <1>1, <1>2, <1>3, <1>4, FS_Subset, FS_CardinalityType

(* What newThread sets.                                                     *)
LEMMA NewThreadFields ==
  ASSUME NEW s \in States, NEW a \in App, NEW first \in BOOLEAN,
         NEW r, r = NewThread(s, a, first)
  PROVE  /\ r \in States
         /\ r.threads = Append(s.threads, [app |-> a, first |-> first])
         /\ r.numThreads = [s.numThreads EXCEPT ![a] = IF first THEN 1 ELSE @ + 1]
         /\ r.stop = s.stop /\ r.stopped = s.stopped /\ r.numRuns = s.numRuns
         /\ r.nonfinish = s.nonfinish /\ r.done = s.done
<1> DEFINE X == Append(s.threads, [app |-> a, first |-> first])
           Y == [s.numThreads EXCEPT ![a] = IF first THEN 1 ELSE @ + 1]
<1>1. r = [s EXCEPT !.threads = X, !.numThreads = Y]
  BY DEF NewThread
<1>2. X \in Seq(ThreadInfo) /\ Y \in [App -> Int]
  BY DEF States, ThreadInfo
<1> HIDE DEF X, Y
<1>3. r \in States
  BY <1>1, <1>2, Zenon DEF States
<1>4. r.threads = X /\ r.numThreads = Y
  BY <1>1 DEF States
<1>5. /\ r.stop = s.stop /\ r.stopped = s.stopped /\ r.numRuns = s.numRuns
      /\ r.nonfinish = s.nonfinish /\ r.done = s.done
  BY <1>1 DEF States
<1> QED BY <1>3, <1>4, <1>5 DEF X, Y

(* What stop sets.                                                          *)
LEMMA StopAllFields ==
  ASSUME NEW s \in States, NEW r, r = StopAll(s)
  PROVE  /\ r \in States
         /\ r.stop = DOMAIN s.threads
         /\ r.done = TRUE
         /\ r.threads = s.threads /\ r.stopped = s.stopped /\ r.numThreads = s.numThreads
         /\ r.numRuns = s.numRuns /\ r.nonfinish = s.nonfinish
<1> DEFINE X == DOMAIN s.threads
           Y == TRUE
<1>1. r = [s EXCEPT !.stop = X, !.done = Y]
  BY DEF StopAll
<1>2. X \in SUBSET Nat /\ Y \in BOOLEAN
  BY DEF States, ThreadInfo
<1> HIDE DEF X, Y
<1>3. r \in States
  BY <1>1, <1>2, Zenon DEF States
<1>4. r.stop = X /\ r.done = Y
  BY <1>1 DEF States
<1>5. /\ r.threads = s.threads /\ r.stopped = s.stopped /\ r.numThreads = s.numThreads
      /\ r.numRuns = s.numRuns /\ r.nonfinish = s.nonfinish
  BY <1>1 DEF States
<1> QED BY <1>3, <1>4, <1>5 DEF X, Y

(* What the end of a run sets.                                              *)
LEMMA FinishedFields ==
  ASSUME NEW s \in States, NEW a \in App, NEW r, r = Finished(s, a)
  PROVE  /\ r \in States
         /\ r.numRuns = [s.numRuns EXCEPT ![a] = @ + 1]
         /\ r.nonfinish = IF s.numRuns[a] = 0 THEN s.nonfinish - 1 ELSE s.nonfinish
         /\ r.threads = s.threads /\ r.stop = s.stop /\ r.stopped = s.stopped
         /\ r.numThreads = s.numThreads /\ r.done = s.done
<1> DEFINE X == [s.numRuns EXCEPT ![a] = @ + 1]
           Y == IF s.numRuns[a] = 0 THEN s.nonfinish - 1 ELSE s.nonfinish
<1>1. r = [s EXCEPT !.numRuns = X, !.nonfinish = Y]
  BY DEF Finished
<1>2. X \in [App -> Nat] /\ Y \in Int
  BY DEF States, ThreadInfo
<1> HIDE DEF X, Y
<1>3. r \in States
  BY <1>1, <1>2, Zenon DEF States
<1>4. r.numRuns = X /\ r.nonfinish = Y
  BY <1>1 DEF States
<1>5. /\ r.threads = s.threads /\ r.stop = s.stop /\ r.stopped = s.stopped
      /\ r.numThreads = s.numThreads /\ r.done = s.done
  BY <1>1 DEF States
<1> QED BY <1>3, <1>4, <1>5 DEF X, Y

\* What signalDone sets first.
OutFields(s, t, a, r) ==
  /\ r \in States
  /\ r.stopped = s.stopped \cup {t}
  /\ r.numThreads = [s.numThreads EXCEPT ![a] = @ - 1]
  /\ r.threads = s.threads /\ r.stop = s.stop /\ r.numRuns = s.numRuns
  /\ r.nonfinish = s.nonfinish /\ r.done = s.done

(* signalDone sets m_stopped and takes one from the application's threads.  *)
LEMMA CountedOutFields ==
  ASSUME NEW s \in States, NEW a \in App, NEW t \in Nat
  PROVE  OutFields(s, t, a, CountedOut(s, t, a))
<1>0. PICK r : r = CountedOut(s, t, a)
  OBVIOUS
<1> DEFINE X == s.stopped \cup {t}
           Y == [s.numThreads EXCEPT ![a] = @ - 1]
<1>1. r = [s EXCEPT !.stopped = X, !.numThreads = Y]
  BY <1>0 DEF CountedOut
<1>2. X \in SUBSET Nat /\ Y \in [App -> Int]
  BY DEF States, ThreadInfo
<1> HIDE DEF X, Y
<1>3. r \in States
  BY <1>1, <1>2, Zenon DEF States
<1>4. r.stopped = X /\ r.numThreads = Y
  BY <1>1 DEF States
<1>5. /\ r.threads = s.threads /\ r.stop = s.stop /\ r.numRuns = s.numRuns
      /\ r.nonfinish = s.nonfinish /\ r.done = s.done
  BY <1>1 DEF States
<1>6. OutFields(s, t, a, r)
  BY <1>3, <1>4, <1>5 DEF X, Y, OutFields
<1> QED BY <1>0, <1>6

(* newThread: a thread of a running application, or the first of one of     *)
(* which no thread is left, is counted.                                     *)
LEMMA NewThreadGood ==
  ASSUME NEW s, NEW n \in App, Good(s, n), NEW a \in 1 .. n, NEW first \in BOOLEAN,
         first => s.numThreads[a] = 0
  PROVE  Good(NewThread(s, a, first), n)
<1> DEFINE th == [app |-> a, first |-> first]
           X == Append(s.threads, th)
           Y == [s.numThreads EXCEPT ![a] = IF first THEN 1 ELSE @ + 1]
           r == NewThread(s, a, first)
<1>0. MaxApps \in Nat /\ a \in App /\ s \in States /\ n \in Nat
  BY TraceConstants DEF App, Good
<1>1. /\ s.threads \in Seq(ThreadInfo) /\ s.numThreads \in [App -> Int]
  BY <1>0 DEF States
<1>2. /\ r \in States /\ r.threads = X /\ r.numThreads = Y
      /\ r.stop = s.stop /\ r.stopped = s.stopped /\ r.numRuns = s.numRuns
      /\ r.nonfinish = s.nonfinish /\ r.done = s.done
  BY <1>0, NewThreadFields
<1>3. th \in ThreadInfo /\ th.app = a
  BY <1>0 DEF ThreadInfo
<1>4. PICK new : new = Len(s.threads) + 1
  OBVIOUS
<1>5. /\ Append(s.threads, th) \in Seq(ThreadInfo)
      /\ DOMAIN Append(s.threads, th) = DOMAIN s.threads \cup {new}
      /\ new \notin DOMAIN s.threads /\ Append(s.threads, th)[new] = th
      /\ \A t \in DOMAIN s.threads : Append(s.threads, th)[t] = s.threads[t]
  BY <1>1, <1>3, <1>4
<1> HIDE DEF th, r
<1>7. new \notin s.stopped
  BY <1>5 DEF Good
<1>8. \A b \in App : Live(r, b) = IF b = a THEN Live(s, b) \cup {new} ELSE Live(s, b)
  BY <1>2, <1>3, <1>5, <1>7 DEF Live
<1>9. new \notin Live(s, a)
  BY <1>5 DEF Live
<1>10. \A b : IsFiniteSet(Live(s, b)) /\ Cardinality(Live(s, b)) \in Nat
  BY <1>0, CountedFinite
<1>11. \A b \in App : r.numThreads[b] = Cardinality(Live(r, b))
  <2>1. \A b \in App : s.numThreads[b] = Cardinality(Live(s, b))
    BY DEF Good
  <2>2. ASSUME NEW b \in App, b # a PROVE r.numThreads[b] = Cardinality(Live(r, b))
    BY <2>1, <2>2, <1>0, <1>1, <1>2, <1>8
  <2>3. Cardinality(Live(r, a)) = Cardinality(Live(s, a)) + 1
    BY <1>0, <1>8, <1>9, <1>10, FS_AddElement
  <2>4. r.numThreads[a] = s.numThreads[a] + 1
    BY <1>0, <1>1, <1>2
  <2>5. r.numThreads[a] = Cardinality(Live(r, a))
    BY <2>1, <2>3, <2>4, <1>0
  <2> QED BY <2>2, <2>5
<1>12. Unfinished(r, n) = Unfinished(s, n)
  BY <1>2 DEF Unfinished
<1>13. \A t \in DOMAIN r.threads : r.threads[t].app \in 1 .. n
  BY <1>2, <1>3, <1>5 DEF Good
<1> QED BY <1>2, <1>5, <1>11, <1>12, <1>13 DEF Good, r

(* What the counts are, and are about.                                      *)
LEMMA GoodFacts ==
  ASSUME NEW s, NEW n \in App, Good(s, n)
  PROVE  /\ MaxApps \in Nat /\ n \in Nat /\ \A a \in 1 .. n : a \in App
         /\ s \in States /\ s.threads \in Seq(ThreadInfo) /\ DOMAIN s.threads \subseteq Nat
         /\ s.numThreads \in [App -> Int] /\ s.numRuns \in [App -> Nat]
         /\ s.nonfinish \in Int /\ s.done \in BOOLEAN
         /\ s.stop \in SUBSET Nat /\ s.stopped \in SUBSET Nat
<1>1. MaxApps \in Nat /\ n \in Nat /\ \A a \in 1 .. n : a \in App
  BY TraceConstants DEF App
<1>2. s \in States
  BY DEF Good
<1>3. /\ s.threads \in Seq(ThreadInfo)
      /\ s.numThreads \in [App -> Int] /\ s.numRuns \in [App -> Nat]
      /\ s.nonfinish \in Int /\ s.done \in BOOLEAN
      /\ s.stop \in SUBSET Nat /\ s.stopped \in SUBSET Nat
  BY <1>2 DEF States
<1>4. DOMAIN s.threads \subseteq Nat
  BY <1>3
<1> QED BY <1>1, <1>2, <1>3, <1>4

(* signalDone counts a thread out once.                                     *)
LEMMA CountedOutGood ==
  ASSUME NEW s, NEW n \in App, Good(s, n), NEW t \in DOMAIN s.threads, t \notin s.stopped,
         NEW a, s.threads[t].app = a
  PROVE  a \in 1 .. n /\ Good(CountedOut(s, t, a), n) /\ CountedOut(s, t, a).done = s.done
<1>r. PICK r : r = CountedOut(s, t, a)
  OBVIOUS
<1>0. /\ s \in States /\ s.numThreads \in [App -> Int] /\ DOMAIN s.threads \subseteq Nat
      /\ \A b \in 1 .. n : b \in App
  BY GoodFacts, Zenon
<1>1. t \in Nat /\ a \in 1 .. n /\ a \in App
  BY <1>0, Zenon DEF Good
<1>2. /\ r \in States /\ r.stopped = s.stopped \cup {t}
      /\ r.numThreads = [s.numThreads EXCEPT ![a] = @ - 1]
      /\ r.threads = s.threads /\ r.stop = s.stop /\ r.numRuns = s.numRuns
      /\ r.nonfinish = s.nonfinish /\ r.done = s.done
  <2>1. OutFields(s, t, a, r)
    BY <1>0, <1>1, <1>r, CountedOutFields, Zenon
  <2> QED BY <2>1, Zenon DEF OutFields
<1>3. \A b : IsFiniteSet(Live(s, b)) /\ Cardinality(Live(s, b)) \in Nat
  BY <1>0, CountedFinite
<1>4. \A b \in App : Live(r, b) = IF b = a THEN Live(s, b) \ {t} ELSE Live(s, b)
  BY <1>2 DEF Live
<1>5. t \in Live(s, a)
  BY DEF Live
<1>6. \A b \in App : r.numThreads[b] = Cardinality(Live(r, b))
  <2>1. \A b \in App : s.numThreads[b] = Cardinality(Live(s, b))
    BY DEF Good
  <2>2. ASSUME NEW b \in App, b # a PROVE r.numThreads[b] = Cardinality(Live(r, b))
    <3>1. Live(r, b) = Live(s, b)
      BY <2>2, <1>4, Zenon
    <3>2. r.numThreads[b] = s.numThreads[b]
      BY <2>2, <1>0, <1>2
    <3> QED BY <2>1, <3>1, <3>2, Zenon
  <2>3. Cardinality(Live(r, a)) = Cardinality(Live(s, a)) - 1
    <3>1. Live(r, a) = Live(s, a) \ {t}
      BY <1>1, <1>4, Zenon
    <3>2. PICK L : L = Live(s, a)
      OBVIOUS
    <3>3. IsFiniteSet(L) /\ t \in L
      BY <3>2, <1>3, <1>5, Zenon
    <3>4. Cardinality(L \ {t}) = Cardinality(L) - 1
      BY <3>3, FS_RemoveElement, Zenon
    <3> QED BY <3>1, <3>2, <3>4, Zenon
  <2>4. r.numThreads[a] = Cardinality(Live(r, a))
    <3>1. r.numThreads[a] = s.numThreads[a] - 1
      BY <1>0, <1>1, <1>2
    <3> QED BY <1>1, <2>1, <2>3, <3>1, Zenon
  <2> QED BY <2>2, <2>4
<1>7. Unfinished(r, n) = Unfinished(s, n)
  BY <1>2 DEF Unfinished
<1>8. r.stopped \subseteq DOMAIN r.threads
  BY <1>2 DEF Good
<1>9. Good(r, n)
  BY <1>2, <1>6, <1>7, <1>8 DEF Good
<1> QED BY <1>r, <1>1, <1>2, <1>9, Zenon

(* The end of a run is counted, and the first one of an application.        *)
LEMMA FinishedGood ==
  ASSUME NEW s, NEW n \in App, Good(s, n), NEW a \in 1 .. n, NEW r, r = Finished(s, a)
  PROVE  /\ Good(r, n) /\ r.done = s.done /\ r.numThreads = s.numThreads
         /\ r.numRuns[a] > 0
<1>0. /\ MaxApps \in Nat /\ s \in States /\ n \in Nat /\ a \in App /\ s.numRuns \in [App -> Nat]
      /\ s.nonfinish \in Int
  BY GoodFacts, Zenon
<1>1. /\ r \in States /\ r.numRuns = [s.numRuns EXCEPT ![a] = @ + 1]
      /\ r.nonfinish = IF s.numRuns[a] = 0 THEN s.nonfinish - 1 ELSE s.nonfinish
      /\ r.threads = s.threads /\ r.stop = s.stop /\ r.stopped = s.stopped
      /\ r.numThreads = s.numThreads /\ r.done = s.done
  BY <1>0, FinishedFields
<1>2. r.numRuns[a] = s.numRuns[a] + 1 /\ r.numRuns[a] > 0 /\ \A b \in App : b # a => r.numRuns[b] = s.numRuns[b]
  BY <1>0, <1>1
<1>3. \A b \in 1 .. n : b \in App
  BY <1>0 DEF App
<1>4. Unfinished(r, n) = Unfinished(s, n) \ {a}
  <2>1. r.numRuns[a] # 0
    BY <1>0, <1>2
  <2> QED BY <2>1, <1>2, <1>3 DEF Unfinished
<1>5. IsFiniteSet(Unfinished(s, n)) /\ Cardinality(Unfinished(s, n)) \in Nat
  BY <1>0, CountedFinite
<1>6. a \in Unfinished(s, n) <=> s.numRuns[a] = 0
  BY DEF Unfinished
<1>7. r.nonfinish = Cardinality(Unfinished(r, n))
  <2>1. s.nonfinish = Cardinality(Unfinished(s, n))
    BY DEF Good
  <2>2. Cardinality(Unfinished(r, n)) = IF a \in Unfinished(s, n) THEN Cardinality(Unfinished(s, n)) - 1
                                                                 ELSE Cardinality(Unfinished(s, n))
    BY <1>4, <1>5, FS_RemoveElement, Zenon
  <2> QED BY <2>1, <2>2, <1>1, <1>6
<1>8. \A b \in App : b > n => r.numRuns[b] = 0
  BY <1>0, <1>2 DEF Good
<1>9. \A b \in App : Live(r, b) = Live(s, b)
  BY <1>1 DEF Live
<1>10. Good(r, n)
  BY <1>1, <1>7, <1>8, <1>9 DEF Good
<1> QED BY <1>1, <1>2, <1>10

\* What may stop the simulation: the first completed run, or one of every application.
Reason(s, n) ==
  IF config.stopWithFirst THEN \E a \in 1 .. n : s.numRuns[a] > 0
                          ELSE \A a \in 1 .. n : s.numRuns[a] > 0

(* After a run the counts are exact again, and the simulation is stopped    *)
(* only for a reason.                                                       *)
LEMMA AfterRunGood ==
  ASSUME NEW s, NEW n \in App, Good(s, n), NEW a \in 1 .. n, s.numThreads[a] = 0,
         s.numRuns[a] > 0, NEW r, r = AfterRun(s, a)
  PROVE  Good(r, n) /\ (r.done => s.done \/ Reason(r, n))
<1>0. /\ s \in States /\ n \in Nat /\ a \in App /\ s.numRuns \in [App -> Nat]
      /\ \A b \in 1 .. n : b \in App
  BY GoodFacts, Zenon
<1>1. CASE config.stopWithFirst \/ s.nonfinish = 0
  <2>1. r = StopAll(s)
    BY <1>1, Zenon DEF AfterRun
  <2>2. /\ r \in States /\ r.stop = DOMAIN s.threads /\ r.threads = s.threads /\ r.stopped = s.stopped
        /\ r.numThreads = s.numThreads /\ r.numRuns = s.numRuns /\ r.nonfinish = s.nonfinish
    BY <2>1, <1>0, StopAllFields, Zenon
  <2>3. \A b \in App : Live(r, b) = Live(s, b)
    BY <2>2 DEF Live
  <2>4. Unfinished(r, n) = Unfinished(s, n)
    BY <2>2 DEF Unfinished
  <2>5. Good(r, n)
    BY <2>2, <2>3, <2>4 DEF Good
  <2>6. CASE config.stopWithFirst
    BY <2>6, <2>2, <2>5 DEF Reason
  <2>7. CASE s.nonfinish = 0
    <3>1. Unfinished(s, n) = {}
      BY <2>7, <1>0, CountedFinite, FS_EmptySet, Zenon DEF Good
    <3>2. \A b \in 1 .. n : s.numRuns[b] # 0 /\ s.numRuns[b] \in Nat
      BY <3>1, <1>0 DEF Unfinished
    <3>3. \A b \in 1 .. n : s.numRuns[b] > 0
      BY <3>2
    <3> QED BY <3>3, <2>2, <2>5 DEF Reason
  <2> QED BY <1>1, <2>6, <2>7
<1>2. CASE ~(config.stopWithFirst \/ s.nonfinish = 0) /\ config.restart
  <2>1. PICK first \in BOOLEAN : first = TRUE /\ r = NewThread(s, a, first)
    BY <1>2, Zenon DEF AfterRun
  <2>2. Good(r, n)
    BY <2>1, NewThreadGood, Zenon
  <2>3. r.done = s.done
    BY <2>1, <1>0 DEF NewThread, States
  <2> QED BY <2>2, <2>3
<1>3. CASE ~(config.stopWithFirst \/ s.nonfinish = 0) /\ ~config.restart
  BY <1>3 DEF AfterRun
<1> QED BY <1>1, <1>2, <1>3

(* signalDone, whether the thread was aborted or completed, and however     *)
(* often it is called for it.                                               *)
LEMMA SignalDoneGood ==
  ASSUME NEW s, NEW n \in App, Good(s, n), NEW t \in DOMAIN s.threads, NEW aborted \in BOOLEAN,
         NEW r, r = SignalDone(s, t, aborted)
  PROVE  Good(r, n) /\ (r.done => s.done \/ Reason(r, n))
<1>1. PICK a : a = s.threads[t].app
  OBVIOUS
<1>2. PICK q : q = CountedOut(s, t, a)
  OBVIOUS
<1>3. r = IF t \in s.stopped THEN s
          ELSE IF aborted \/ q.numThreads[a] # 0 THEN q
          ELSE AfterRun(Finished(q, a), a)
  BY <1>1, <1>2 DEF SignalDone, CountedOut
<1>4. CASE t \in s.stopped
  BY <1>3, <1>4
<1>5. CASE t \notin s.stopped
  <2>1. Good(q, n) /\ a \in 1 .. n /\ q.done = s.done
    BY <1>1, <1>2, <1>5, CountedOutGood, Zenon
  <2>2. CASE aborted \/ q.numThreads[a] # 0
    BY <1>3, <1>5, <2>1, <2>2
  <2>3. CASE ~aborted /\ q.numThreads[a] = 0
    <3>1. PICK f : f = Finished(q, a)
      OBVIOUS
    <3>2. Good(f, n) /\ f.done = q.done /\ f.numThreads = q.numThreads /\ f.numRuns[a] > 0
      BY <3>1, <2>1, FinishedGood
    <3>3. r = AfterRun(f, a)
      BY <1>3, <1>5, <2>3, <3>1
    <3> QED BY <2>1, <2>3, <3>2, <3>3, AfterRunGood
  <2> QED BY <2>2, <2>3
<1> QED BY <1>4, <1>5

(* m_stop of a thread is not counted.                                       *)
LEMMA StopGood ==
  ASSUME NEW s, NEW n \in App, Good(s, n), NEW u \in Nat
  PROVE  /\ Good([s EXCEPT !.stop = @ \cup {u}], n)
         /\ [s EXCEPT !.stop = @ \cup {u}].done = s.done
         /\ [s EXCEPT !.stop = @ \cup {u}].threads = s.threads
<1> DEFINE X == s.stop \cup {u}
<1>0. s \in States /\ X \in SUBSET Nat
  BY GoodFacts
<1> HIDE DEF X
<1>1. PICK r : r = [s EXCEPT !.stop = X]
  BY Zenon
<1>2. r \in States
  BY <1>0, <1>1, Zenon DEF States
<1>3. /\ r.threads = s.threads /\ r.stopped = s.stopped /\ r.numThreads = s.numThreads
      /\ r.numRuns = s.numRuns /\ r.nonfinish = s.nonfinish /\ r.done = s.done
  BY <1>0, <1>1 DEF States
<1>4. (\A a \in App : Live(r, a) = Live(s, a)) /\ Unfinished(r, n) = Unfinished(s, n)
  BY <1>3 DEF Live, Unfinished
<1>5. Good(r, n)
  BY <1>2, <1>3, <1>4 DEF Good
<1>6. r = [s EXCEPT !.stop = @ \cup {u}]
  BY <1>1 DEF X
<1> QED BY <1>3, <1>5, <1>6, Zenon

(* createApplication counts the new application before it has a thread.     *)
LEMMA ForkGood ==
  ASSUME NEW s, NEW n \in App, Good(s, n), n + 1 \in App
  PROVE  /\ Good([s EXCEPT !.nonfinish = @ + 1], n + 1)
         /\ [s EXCEPT !.nonfinish = @ + 1].done = s.done
         /\ [s EXCEPT !.nonfinish = @ + 1].numThreads[n + 1] = 0
<1> DEFINE X == s.nonfinish + 1
<1>0. /\ s \in States /\ X \in Int /\ n \in Nat /\ MaxApps \in Nat
      /\ s.numRuns \in [App -> Nat] /\ s.nonfinish \in Int
  BY GoodFacts
<1> HIDE DEF X
<1>1. PICK r : r = [s EXCEPT !.nonfinish = X]
  BY Zenon
<1>2. r \in States
  BY <1>0, <1>1, Zenon DEF States
<1>3. /\ r.threads = s.threads /\ r.stopped = s.stopped /\ r.numThreads = s.numThreads
      /\ r.numRuns = s.numRuns /\ r.nonfinish = X /\ r.done = s.done
  BY <1>0, <1>1 DEF States
<1>4. \A a \in App : Live(r, a) = Live(s, a)
  BY <1>3 DEF Live
<1>5. s.numRuns[n + 1] = 0
  BY <1>0 DEF Good
<1>6. Unfinished(r, n + 1) = Unfinished(s, n) \cup {n + 1}
  BY <1>0, <1>3, <1>5 DEF Unfinished
<1>7. n + 1 \notin Unfinished(s, n)
  BY <1>0 DEF Unfinished
<1>8. PICK L : L = Unfinished(s, n)
  OBVIOUS
<1>9. IsFiniteSet(L) /\ Cardinality(L) \in Nat /\ n + 1 \notin L
  BY <1>0, <1>7, <1>8, CountedFinite, Zenon
<1>10. Cardinality(L \cup {n + 1}) = Cardinality(L) + 1
  BY <1>9, FS_AddElement, Zenon
<1>11. r.nonfinish = Cardinality(Unfinished(r, n + 1))
  <2>1. s.nonfinish = Cardinality(L)
    BY <1>8, Zenon DEF Good
  <2>2. Unfinished(r, n + 1) = L \cup {n + 1}
    BY <1>6, <1>8, Zenon
  <2> QED BY <2>1, <2>2, <1>3, <1>10, Zenon DEF X
<1>12. Live(s, n + 1) = {}
  <2>1. \A t \in DOMAIN s.threads : s.threads[t].app \in 1 .. n
    BY DEF Good
  <2>2. n + 1 \notin 1 .. n
    BY <1>0
  <2> QED BY <2>1, <2>2 DEF Live
<1>13. s.numThreads[n + 1] = 0
  BY <1>12, FS_EmptySet, Zenon DEF Good
<1>14. \A t \in DOMAIN r.threads : r.threads[t].app \in 1 .. n + 1
  BY <1>0, <1>3 DEF Good
<1>15. \A a \in App : a > n + 1 => r.numRuns[a] = 0
  <2>1. \A a \in App : a \in Int /\ (a > n + 1 => a > n)
    BY <1>0 DEF App
  <2> QED BY <1>3, <2>1, Zenon DEF Good
<1>16. Good(r, n + 1)
  BY <1>2, <1>3, <1>4, <1>11, <1>14, <1>15 DEF Good
<1>17. r = [s EXCEPT !.nonfinish = @ + 1]
  BY <1>1 DEF X
<1> QED BY <1>3, <1>13, <1>16, <1>17, Zenon

(* The variables get the values of a state of the manager.                  *)
LEMMA BecomesGood ==
  ASSUME NEW r, NEW n \in App, Good(r, n), Becomes(r)
  PROVE  Good(State', n) /\ done' = r.done /\ numRuns' = r.numRuns
<1>0. r \in States
  BY GoodFacts, Zenon
<1>1. PICK q : q = State'
  OBVIOUS
<1>2. q = [threads |-> r.threads, stop |-> r.stop, stopped |-> r.stopped,
           numThreads |-> r.numThreads, numRuns |-> r.numRuns,
           nonfinish |-> r.nonfinish, done |-> r.done]
  BY <1>1 DEF State, Becomes
<1>3. /\ q.threads = r.threads /\ q.stopped = r.stopped /\ q.numThreads = r.numThreads
      /\ q.numRuns = r.numRuns /\ q.nonfinish = r.nonfinish
  BY <1>2
<1>4. q \in States
  BY <1>0, <1>2 DEF States
<1>5. (\A a \in App : Live(q, a) = Live(r, a)) /\ Unfinished(q, n) = Unfinished(r, n)
  BY <1>3 DEF Live, Unfinished
<1>6. Good(q, n)
  BY <1>3, <1>4, <1>5 DEF Good
<1> QED BY <1>1, <1>6, Zenon DEF Becomes

-----------------------------------------------------------------------------
(* TraceManager::init counts the applications of the command line.          *)
LEMMA InitCounts ==
  ASSUME Init
  PROVE  CountsInv
<1>0. MaxApps \in Nat /\ numApps \in App /\ numApps \in Nat /\ Apps = 1 .. numApps /\ \A a \in Apps : a \in App
  BY TraceConstants DEF Init, App, Apps
<1>1. PICK s : s = State
  OBVIOUS
<1>2. /\ s.threads = [i \in Apps |-> [app |-> i, first |-> TRUE]] /\ s.stopped = {}
      /\ s.numThreads = [a \in App |-> IF a \in Apps THEN 1 ELSE 0]
      /\ s.numRuns = [a \in App |-> 0] /\ s.nonfinish = numApps
  BY <1>1 DEF State, Init
<1>3. s \in States
  <2>1. \A i \in Apps : [app |-> i, first |-> TRUE] \in ThreadInfo
    BY <1>0 DEF ThreadInfo
  <2>2. s.threads \in Seq(ThreadInfo)
    BY <2>1, <1>0, <1>2
  <2>3. /\ threads \in Seq(ThreadInfo) /\ stop \in SUBSET Nat /\ stopped \in SUBSET Nat
        /\ numThreads \in [App -> Int] /\ numRuns \in [App -> Nat] /\ nonfinish \in Int
        /\ done \in BOOLEAN
    <3>1. threads = s.threads
      BY <1>1 DEF State
    <3>2. stop = {} /\ stopped = {} /\ done = FALSE /\ nonfinish = numApps
      BY DEF Init
    <3>3. numRuns = [a \in App |-> 0] /\ numThreads = [a \in App |-> IF a \in Apps THEN 1 ELSE 0]
      BY DEF Init
    <3>4. numRuns \in [App -> Nat] /\ numThreads \in [App -> Int]
      BY <3>3
    <3>5. stop \in SUBSET Nat /\ stopped \in SUBSET Nat /\ nonfinish \in Int
      BY <3>2, <1>0
    <3>6. done \in BOOLEAN
      BY <3>2, Zenon
    <3> QED BY <3>1, <3>4, <3>5, <3>6, <2>2, Zenon
  <2> QED BY <1>1, <2>3 DEF State, States
<1>4. \A t \in DOMAIN s.threads : t \in Apps /\ s.threads[t].app = t
  BY <1>2
<1>5. \A a \in App : Live(s, a) = IF a \in Apps THEN {a} ELSE {}
  BY <1>2, <1>4 DEF Live
<1>6. \A a \in App : s.numThreads[a] = Cardinality(Live(s, a))
  <2>1. Cardinality({}) = 0 /\ \A a : Cardinality({a}) = 1
    BY FS_EmptySet, FS_Singleton
  <2>2. ASSUME NEW a \in App, a \in Apps PROVE s.numThreads[a] = Cardinality(Live(s, a))
    <3>1. Live(s, a) = {a}
      BY <1>5, <2>2, Zenon
    <3>2. s.numThreads[a] = 1
      BY <1>2, <2>2
    <3> QED BY <2>1, <3>1, <3>2, Zenon
  <2>3. ASSUME NEW a \in App, a \notin Apps PROVE s.numThreads[a] = Cardinality(Live(s, a))
    <3>1. Live(s, a) = {}
      BY <1>5, <2>3, Zenon
    <3>2. s.numThreads[a] = 0
      BY <1>2, <2>3
    <3> QED BY <2>1, <3>1, <3>2, Zenon
  <2> QED BY <2>2, <2>3
<1>7. Unfinished(s, numApps) = 1 .. numApps
  BY <1>0, <1>2 DEF Unfinished
<1>8. Cardinality(1 .. numApps) = numApps
  BY <1>0, FS_Interval
<1>9. Good(s, numApps)
  BY <1>0, <1>2, <1>3, <1>4, <1>6, <1>7, <1>8 DEF Good
<1>10. Iterators
  BY DEF Init, Iterators, Places
<1> QED BY <1>0, <1>1, <1>9, <1>10 DEF CountsInv

(* endApplication starts its iteration at the first thread.                 *)
LEMMA IteratorsKept ==
  ASSUME CountsInv, Next
  PROVE  Iterators'
<1>0. Iterators
  BY DEF CountsInv
<1>1. PICK t \in Id :
        \/ Start(t) \/ Create(t) \/ Fork(t) \/ Block(t) \/ Unblock(t)
        \/ ExitGroup(t) \/ EndApplication(t) \/ Finish(t) \/ CallSignalDone(t)
  BY DEF Next
<1>2. CASE Start(t)
  BY <1>0, <1>2 DEF Start, Goto, Iterators, Places
<1>3. CASE Create(t)
  BY <1>0, <1>3 DEF Create, Iterators
<1>4. CASE Fork(t)
  BY <1>0, <1>4 DEF Fork, Iterators
<1>5. CASE Block(t)
  BY <1>0, <1>5 DEF Block, Goto, Iterators, Places
<1>6. CASE Unblock(t)
  BY <1>0, <1>6 DEF Unblock, Goto, Iterators, Places
<1>7. CASE ExitGroup(t)
  BY <1>0, <1>7 DEF ExitGroup, Goto, Iterators, Places
<1>8. CASE EndApplication(t)
  <2>1. \/ pc' = [pc EXCEPT ![t] = "last"] /\ index' = [index EXCEPT ![t] = 0]
        \/ pc' = pc /\ index' = [index EXCEPT ![t] = index[t] + 1]
    BY <1>8, Zenon DEF EndApplication, Goto
  <2> QED BY <1>0, <2>1 DEF Iterators, Places
<1>9. CASE Finish(t)
  <2>1. PICK place : /\ place = IF t \in stop THEN "aborted" ELSE "completed"
                     /\ pc' = [pc EXCEPT ![t] = place] /\ index' = index
    BY <1>9, Zenon DEF Finish, Goto
  <2> QED BY <1>0, <2>1 DEF Iterators, Places
<1>10. CASE CallSignalDone(t)
  <2>1. pc' = [pc EXCEPT ![t] = "done"] /\ index' = index
    BY <1>10 DEF CallSignalDone, Goto
  <2> QED BY <1>0, <2>1 DEF Iterators, Places
<1> QED BY <1>1, <1>2, <1>3, <1>4, <1>5, <1>6, <1>7, <1>8, <1>9, <1>10

\* What a step must leave true besides Iterators.
CountsStep == numApps' \in App /\ Good(State', numApps') /\ StopsWithReason

(* A step that leaves the manager alone.                                    *)
LEMMA UncountedStep ==
  ASSUME CountsInv, numApps' = numApps, threads' = threads, counts' = counts
  PROVE  CountsStep
<1>1. State' = State /\ done' = done
  BY DEF State, counts
<1>2. numApps \in App /\ Good(State, numApps)
  BY DEF CountsInv
<1> QED BY <1>1, <1>2, Zenon DEF CountsStep, StopsWithReason

(* A step that takes the manager to a state with exact counts, and stops    *)
(* the simulation only for a reason.                                        *)
LEMMA CountedStep ==
  ASSUME CountsInv, NEW r, NEW n \in App, Good(r, n), Becomes(r), numApps' = n,
         r.done => done \/ Reason(r, numApps)
  PROVE  CountsStep
<1>1. Good(State', n) /\ done' = r.done /\ numRuns' = r.numRuns
  BY BecomesGood, Zenon
<1>2. StopsWithReason
  BY <1>1 DEF StopsWithReason, Reason, Apps
<1> QED BY <1>1, <1>2, Zenon DEF CountsStep

(* createThread counts the thread it creates.                               *)
LEMMA CreateCounts ==
  ASSUME CountsInv, NEW t \in Id, Create(t)
  PROVE  CountsStep
<1>0. numApps \in App /\ Good(State, numApps) /\ numApps' = numApps /\ t \in DOMAIN threads
  BY DEF CountsInv, Create, Running, Ids
<1>1. PICK a : a = threads[t].app
  OBVIOUS
<1>f. PICK first \in BOOLEAN : first = FALSE
  BY Zenon
<1>2. State.threads = threads /\ State.done = done
  BY DEF State
<1>3. a \in 1 .. numApps
  <2>1. \A u \in DOMAIN State.threads : State.threads[u].app \in 1 .. numApps
    BY <1>0, Zenon DEF Good
  <2> QED BY <1>0, <1>1, <1>2, <2>1
<1>4. PICK s : s = State
  OBVIOUS
<1>5. PICK r : r = NewThread(s, a, first)
  OBVIOUS
<1>6. Becomes(r)
  BY <1>1, <1>f, <1>4, <1>5, Zenon DEF Create, AppOf
<1>7. Good(r, numApps)
  BY <1>0, <1>3, <1>f, <1>4, <1>5, NewThreadGood, Zenon
<1>8. s \in States
  BY <1>0, <1>4, GoodFacts, Zenon
<1>9. r.done = s.done
  BY <1>5, <1>8 DEF NewThread, States
<1> QED BY <1>0, <1>2, <1>4, <1>6, <1>7, <1>9, CountedStep, Zenon

(* createApplication counts the application and its first thread.           *)
LEMMA ForkCounts ==
  ASSUME CountsInv, NEW t \in Id, Fork(t)
  PROVE  CountsStep
<1>0. numApps \in App /\ Good(State, numApps) /\ numApps' = numApps + 1 /\ numApps < MaxApps
  BY DEF CountsInv, Fork
<1>1. PICK a, first : a = numApps + 1 /\ first = TRUE
  OBVIOUS
<1>2. a \in App /\ a \in 1 .. a /\ first \in BOOLEAN
  BY <1>0, <1>1, TraceConstants DEF App
<1>3. PICK s : s = [State EXCEPT !.nonfinish = @ + 1]
  BY Zenon
<1>4. Good(s, a) /\ s.done = State.done /\ s.numThreads[a] = 0
  BY <1>0, <1>1, <1>2, <1>3, ForkGood, Zenon
<1>5. PICK r : r = NewThread(s, a, first)
  OBVIOUS
<1>6. Becomes(r)
  BY <1>1, <1>3, <1>5, Zenon DEF Fork
<1>7. Good(r, a)
  BY <1>2, <1>4, <1>5, NewThreadGood, Zenon
<1>8. s \in States
  BY <1>2, <1>4, GoodFacts, Zenon
<1>9. r.done = s.done
  BY <1>5, <1>8 DEF NewThread, States
<1>10. State.done = done
  BY DEF State
<1>11. r.done => done
  BY <1>4, <1>9, <1>10, Zenon
<1> QED BY <1>0, <1>1, <1>2, <1>6, <1>7, <1>11, CountedStep, Zenon

(* endApplication counts out a thread that has not counted out itself.      *)
LEMMA EndApplicationCounts ==
  ASSUME CountsInv, NEW t \in Id, EndApplication(t)
  PROVE  CountsStep
<1>0. numApps \in App /\ Good(State, numApps) /\ numApps' = numApps
  BY DEF CountsInv, EndApplication
<1>1. PICK u : u = index[t]
  OBVIOUS
<1>2. u \in Nat /\ u > 0
  BY <1>1 DEF CountsInv, Iterators, EndApplication
<1>3. CASE threads' = threads /\ counts' = counts
  BY <1>0, <1>3, UncountedStep, Zenon
<1>4. CASE ~(u > Len(threads)) /\ Becomes(SignalDone([State EXCEPT !.stop = @ \cup {u}], u, TRUE))
  <2>1. PICK s : s = [State EXCEPT !.stop = @ \cup {u}]
    BY Zenon
  <2>2. Good(s, numApps) /\ s.done = State.done /\ s.threads = State.threads
    BY <1>0, <1>2, <2>1, StopGood, Zenon
  <2>3. State.done = done /\ State.threads = threads
    BY DEF State
  <2>4. u \in DOMAIN s.threads
    <3>1. s.threads \in Seq(ThreadInfo)
      BY <1>0, <2>2, GoodFacts, Zenon
    <3>2. Len(s.threads) \in Nat /\ DOMAIN s.threads = 1 .. Len(s.threads)
      BY <3>1
    <3>3. ~(u > Len(s.threads))
      BY <1>4, <2>2, <2>3, Zenon
    <3> QED BY <3>2, <3>3, <1>2
  <2>5. PICK aborted \in BOOLEAN : aborted = TRUE
    BY Zenon
  <2>6. PICK r : r = SignalDone(s, u, aborted)
    OBVIOUS
  <2>7. Good(r, numApps) /\ (r.done => s.done \/ Reason(r, numApps))
    BY <1>0, <2>2, <2>4, <2>6, SignalDoneGood, Zenon
  <2>8. Becomes(r)
    BY <1>4, <2>1, <2>5, <2>6, Zenon
  <2>9. r.done => done \/ Reason(r, numApps)
    BY <2>2, <2>3, <2>7, Zenon
  <2> QED BY <1>0, <2>7, <2>8, <2>9, CountedStep, Zenon
<1>5. \/ threads' = threads /\ counts' = counts
      \/ ~(u > Len(threads)) /\ Becomes(SignalDone([State EXCEPT !.stop = @ \cup {u}], u, TRUE))
  BY <1>1, Zenon DEF EndApplication
<1> QED BY <1>3, <1>4, <1>5, Zenon

(* The end of TraceThread::run counts out a thread that nobody counted out, *)
(* and stops the simulation for a reason.                                   *)
LEMMA CallSignalDoneCounts ==
  ASSUME CountsInv, NEW t \in Id, CallSignalDone(t)
  PROVE  CountsStep
<1>0. numApps \in App /\ Good(State, numApps) /\ numApps' = numApps /\ t \in DOMAIN threads
  BY DEF CountsInv, CallSignalDone, Ids
<1>1. PICK s : s = State
  OBVIOUS
<1>2. s.done = done /\ s.threads = threads
  BY <1>1 DEF State
<1>3. PICK aborted \in BOOLEAN : aborted = (pc[t] = "aborted")
  BY Zenon
<1>4. PICK r : r = SignalDone(s, t, aborted)
  OBVIOUS
<1>5. Becomes(r)
  BY <1>1, <1>3, <1>4, Zenon DEF CallSignalDone
<1>6. Good(r, numApps) /\ (r.done => s.done \/ Reason(r, numApps))
  BY <1>0, <1>1, <1>2, <1>4, SignalDoneGood, Zenon
<1>7. r.done => done \/ Reason(r, numApps)
  BY <1>2, <1>6, Zenon
<1> QED BY <1>0, <1>5, <1>6, <1>7, CountedStep, Zenon

(* Every step keeps the counts exact, and stops the simulation only for a   *)
(* reason.                                                                  *)
LEMMA NextCounts ==
  ASSUME CountsInv, [Next]_vars
  PROVE  CountsInv' /\ [StopsWithReason]_vars
<1>1. CASE UNCHANGED vars
  <2>1. CountsStep
    <3>1. numApps' = numApps /\ threads' = threads /\ counts' = counts
      BY <1>1 DEF vars
    <3> QED BY <3>1, UncountedStep, Zenon
  <2>2. Iterators'
    BY <1>1 DEF vars, CountsInv, Iterators
  <2> QED BY <1>1, <2>1, <2>2 DEF CountsStep, CountsInv
<1>2. CASE Next
  <2>1. Iterators'
    BY <1>2, IteratorsKept
  <2>2. CountsStep
    <3>1. PICK t \in Id :
            \/ Start(t) \/ Create(t) \/ Fork(t) \/ Block(t) \/ Unblock(t)
            \/ ExitGroup(t) \/ EndApplication(t) \/ Finish(t) \/ CallSignalDone(t)
      BY <1>2 DEF Next
    <3>2. CASE Start(t) \/ Block(t) \/ Unblock(t) \/ ExitGroup(t) \/ Finish(t)
      <4>1. numApps' = numApps /\ threads' = threads /\ counts' = counts
        BY <3>2, Zenon DEF Start, Block, Unblock, ExitGroup, Finish
      <4> QED BY <4>1, UncountedStep, Zenon
    <3> QED BY <3>1, <3>2, CreateCounts, ForkCounts, EndApplicationCounts, CallSignalDoneCounts, Zenon
  <2> QED BY <2>1, <2>2 DEF CountsStep, CountsInv
<1> QED BY <1>1, <1>2

(***************************************************************************)
(* The counts of TraceManager are always exact: num_threads of every       *)
(* application is the number of its threads that were not counted out, and *)
(* m_num_apps_nonfinish that of the applications without a completed run,  *)
(* although exit_group and the threads themselves race to call signalDone. *)
(***************************************************************************)
THEOREM CountsAlwaysExact == Spec => []CountsExact
<1>1. Init => CountsInv
  BY InitCounts
<1>2. CountsInv /\ [Next]_vars => CountsInv'
  BY NextCounts
<1>3. CountsInv => CountsExact
  <2> SUFFICES ASSUME CountsInv PROVE CountsExact
    OBVIOUS
  <2>1. /\ \A a \in App : State.numThreads[a] = Cardinality(Live(State, a))
        /\ State.nonfinish = Cardinality(Unfinished(State, numApps))
    BY DEF CountsInv, Good
  <2>2. State.numThreads = numThreads /\ State.nonfinish = nonfinish
    BY DEF State
  <2>3. \A a : Live(State, a) = {t \in Ids \ stopped : AppOf(t) = a}
    BY DEF State, Live, Ids, AppOf
  <2>4. Unfinished(State, numApps) = {a \in Apps : numRuns[a] = 0}
    BY DEF State, Unfinished, Apps
  <2> QED BY <2>1, <2>2, <2>3, <2>4, Zenon DEF CountsExact
<1> QED BY <1>1, <1>2, <1>3, PTL DEF Spec

(***************************************************************************)
(* TraceManager stops the simulation only when the first application, or   *)
(* every application that exists, has run to its end.                      *)
(***************************************************************************)
THEOREM AlwaysEndsWithReason == Spec => EndsWithReason
<1>1. Init => CountsInv
  BY InitCounts
<1>2. CountsInv /\ [Next]_vars => CountsInv' /\ [StopsWithReason]_vars
  BY NextCounts
<1> QED BY <1>1, <1>2, PTL DEF Spec, EndsWithReason
=============================================================================
