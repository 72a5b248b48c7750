---------------------------- MODULE QueueModels ----------------------------
(* The models of a shared resource: how long a request that arrives at some   *)
(* time waits. Cores run ahead of each other, so arrival times come in any    *)
(* order. The history list, the basic queue with its moving average, the      *)
(* contention model with several units, the windowed M/G/1 model, and the     *)
(* DRAM performance models on top of them.                                    *)
(* src/common/performance_model/queue_model_*.cc, contention_model.cc,        *)
(* dram_perf_model_*.cc, src/common/misc/moving_average.h, modulo_num.cc      *)
EXTENDS Integers, Sequences, FiniteSets, SequencesExt

CONSTANTS
    QueueConfigs, \* records [kind, sizes, times, requests, min, list, window,
                  \* units, shared, averaging, start]; requests bounds the requests made
    Forever,      \* the end of the last free interval (2^63 fs)
    Wrap          \* times are unsigned and wrap at this value (2^64 fs)

VARIABLES
    qc,           \* the configuration
    q,            \* the queue models, by name: "read" and "write", or "main"
    served        \* the requests in order: [queue, at, size, start, placed, queued,
                  \* peeked]: placed is the start in each queue it passes, queued
                  \* the queues that had it wait for its turn
qVars == <<qc, q, served>>

Minus(a, b) == (a - b) % Wrap
Greater(a, b) == IF a > b THEN a ELSE b
SumOver(s) == FoldLeft(LAMBDA a, b : a + b, 0, s)

--------------------------------------------------------------------------
(* The arithmetic moving average: a ring of window + 1 numbers. *)

NewMean == [ring |-> [i \in 0..qc.window |-> 0], front |-> 0, back |-> 0, sum |-> 0]
Inside(m) == (m.back - m.front) % (qc.window + 1)

MeanUpdate(m, n) ==
    LET back == (m.back + 1) % (qc.window + 1)
    IN  [ring |-> [m.ring EXCEPT ![m.back] = n],
         back |-> back,
         front |-> IF back = m.front THEN (m.front + 1) % (qc.window + 1) ELSE m.front,
         sum |-> (IF Inside(m) = qc.window THEN m.sum - m.ring[m.front] ELSE m.sum) + n]

MeanCompute(m) == m.sum \div Inside(m)

--------------------------------------------------------------------------
(* The history list: the intervals in which the server is free. Each model    *)
(* returns its next state and the time the request starts.                    *)

\* Bug: the rest of an interval after a request starts where the request does.
MutTakeInterval(free, i, start, p) ==
    LET f == free[i]
        before == IF start - f[1] >= qc.min THEN <<<<f[1], start>>>> ELSE <<>>
        after == IF Minus(f[2], start + p) >= qc.min THEN <<<<start, f[2]>>>> ELSE <<>>
        all == SubSeq(free, 1, i - 1) \o before \o after \o SubSeq(free, i + 1, Len(free))
    IN  IF Len(all) > qc.list THEN Tail(all) ELSE all

\* Interval i is taken from start on for p. What is left of it is kept if it is
\* at least the minimum processing time; the oldest interval goes if there are
\* too many.
TakeInterval(free, i, start, p) ==
    LET f == free[i]
        before == IF start - f[1] >= qc.min THEN <<<<f[1], start>>>> ELSE <<>>
        after == IF Minus(f[2], start + p) >= qc.min THEN <<<<start + p, f[2]>>>> ELSE <<>>
        all == SubSeq(free, 1, i - 1) \o before \o after \o SubSeq(free, i + 1, Len(free))
    IN  IF Len(all) > qc.list THEN Tail(all) ELSE all

\* The first interval the request fits into, or that begins after its arrival,
\* where it is put without asking whether it fits.
UsingHistoryList(h, at, p) ==
    LET free == h.free
        i == SelectInSeq(free, LAMBDA f : (at >= f[1] /\ at + p =< f[2]) \/ at < f[1])
        start == Greater(at, free[i][1])
    IN  [next |-> [h EXCEPT !.free = TakeInterval(free, i, start, p),
                            !.mean = MeanUpdate(@, start - at)],
         start |-> start, queued |-> TRUE]

\* A request that ends before the oldest interval begins is too old for the
\* list and waits the average time.
HistoryList(h, at, p) ==
    IF at + p =< h.free[1][1]
    THEN [next |-> h, start |-> at + MeanCompute(h.mean), queued |-> FALSE]
    ELSE UsingHistoryList(h, at, p)

(* The basic queue: the time up to which the server is busy. *)

Basic(b, at, p) ==
    LET mean == MeanUpdate(b.mean, at)
        ref == IF qc.averaging THEN MeanCompute(mean) ELSE at
        busy == Greater(b.busy, ref)
    IN  [next |-> [busy |-> busy + p, mean |-> mean],
         start |-> at + (busy - ref), queued |-> TRUE]

--------------------------------------------------------------------------
(* The contention model: several units, each busy up to some time. *)

\* The first unit that is free on arrival, or else the one that is free first.
FirstFree(c, at) ==
    LET i == SelectInSeq(c.unit, LAMBDA t : t =< at)
    IN  IF i > 0 THEN i
        ELSE CHOOSE u \in DOMAIN c.unit : \A v \in DOMAIN c.unit :
                 c.unit[u] < c.unit[v] \/ (c.unit[u] = c.unit[v] /\ u =< v)

\* getCompletionTime: a request at time zero, or older than the last one, is
\* taken to meet no contention.
Contention(c, at, p) ==
    LET u == FirstFree(c, at)
        start == Greater(at, c.unit[u])
    IN  IF at = 0 \/ at < c.last
        THEN [next |-> c, start |-> at, queued |-> FALSE]
        ELSE [next |-> [unit |-> [c.unit EXCEPT ![u] = start + p], last |-> at],
              start |-> start, queued |-> TRUE]

\* getStartTime: a look at the start time without making the request.
PeekStart(c, at) ==
    IF at < c.last \/ \E u \in DOMAIN c.unit : c.unit[u] =< at THEN at
    ELSE c.unit[FirstFree(c, at)]

--------------------------------------------------------------------------
(* The windowed M/G/1 model: the requests of the last window and their sums.  *)

RemoveItems(m, earliest) ==
    LET gone == SelectSeq(m.items, LAMBDA i : i.at < earliest)
    IN  [m EXCEPT !.items = SelectSeq(@, LAMBDA i : i.at >= earliest),
                  !.arrivals = @ - Len(gone),
                  !.sum = @ - SumOver([k \in DOMAIN gone |-> gone[k].size]),
                  !.sum2 = @ - SumOver([k \in DOMAIN gone |-> gone[k].size^2])]

AddItem(m, at, p) ==
    [m EXCEPT !.items = Append(@, [at |-> at, size |-> p]),
              !.arrivals = @ + 1, !.sum = @ + p, !.sum2 = @ + p^2]

\* A window before the time of the barrier, m.global; ten windows before the
\* request as a backup.
Earliest(m, at) == Greater(Minus(m.global, qc.window), Minus(at, 10 * qc.window))

\* The mean wait: rate * E[s^2] / (2 (1 - utilisation)), the utilisation at most
\* 99%, the wait at most a window.
WindowedMG1(m0, at, p) ==
    LET w == qc.window
        m == RemoveItems(m0, Earliest(m0, at))
        used == IF 100 * m.sum > 99 * w THEN 99 * w ELSE 100 * m.sum
        wait == (m.arrivals * (m.sum2 \div m.arrivals) * 50) \div (100 * w - used)
    IN  [next |-> AddItem(m, at, p), queued |-> FALSE,
         start |-> at + (IF m.arrivals =< 1 THEN 0 ELSE IF wait > w THEN w ELSE wait)]

--------------------------------------------------------------------------
(* Requests. *)

NewQueue ==
    CASE qc.kind \in {"history", "readwrite"} ->
             [free |-> <<<<0, Forever>>>>, mean |-> NewMean]
      [] qc.kind = "basic" -> [busy |-> 0, mean |-> NewMean]
      [] qc.kind = "contention" -> [unit |-> [u \in 1..qc.units |-> 0], last |-> 0]
      [] qc.kind = "mg1" -> [items |-> <<>>, arrivals |-> 0, sum |-> 0, sum2 |-> 0,
                             global |-> qc.start]

ComputeQueueDelay(state, at, p) ==
    CASE qc.kind \in {"history", "readwrite"} -> HistoryList(state, at, p)
      [] qc.kind = "basic" -> Basic(state, at, p)
      [] qc.kind = "contention" -> Contention(state, at, p)
      [] qc.kind = "mg1" -> WindowedMG1(state, at, p)

Queues == IF qc.kind = "readwrite" THEN {"read", "write"} ELSE {"main"}

QInit ==
    /\ qc \in QueueConfigs
    /\ q = [n \in Queues |-> NewQueue]
    /\ served = <<>>

\* A read also takes its share of the bandwidth writes see, if it is shared.
Passes(n) == IF n = "read" /\ qc.shared THEN {"read", "write"} ELSE {n}

\* DramPerfModel::getAccessLatency and the other users: the delay of the queue
\* asked, in front of the processing time.
Request ==
    /\ Len(served) < qc.requests
    /\ \E n \in Queues, at \in qc.times, p \in qc.sizes :
          LET r == [x \in Passes(n) |-> ComputeQueueDelay(q[x], at, p)]
          IN  /\ q' = [x \in Queues |-> IF x \in Passes(n) THEN r[x].next ELSE q[x]]
              /\ served' = Append(served,
                     [queue |-> n, at |-> at, size |-> p, start |-> r[n].start,
                      placed |-> [x \in Passes(n) |-> r[x].start],
                      queued |-> {x \in Passes(n) : r[x].queued},
                      peeked |-> IF qc.kind = "contention" THEN PeekStart(q[n], at) ELSE at])
    /\ UNCHANGED qc

\* The barrier moves the global time on, which the windowed model looks at.
Advance ==
    /\ qc.kind = "mg1"
    /\ q.main.global + qc.window =< qc.start + 2 * qc.window
    /\ q' = [q EXCEPT !.main.global = @ + qc.window]
    /\ UNCHANGED <<qc, served>>

QNext == Request \/ Advance
QSpec == QInit /\ [][QNext]_qVars

--------------------------------------------------------------------------
(* Requests start at or after their arrival. *)
QTypeOK == \A i \in DOMAIN served : served[i].start \in served[i].at..Forever

Busy(i, n, t) ==
    served[i].placed[n] =< t /\ t < served[i].placed[n] + served[i].size

(* A queue never promises the same time twice: when a request starts, at most      *)
(* as many of the requests it made queue are being served as it has units,     *)
(* whatever the order of their arrival times (the history list with requests   *)
(* of the minimum size, as DRAM makes them; the basic and contention models).  *)
UnitsNotShared ==
    qc.kind # "mg1" /\ ~qc.averaging =>
        \A n \in Queues, j \in DOMAIN served :
            n \in served[j].queued =>
              Cardinality({i \in DOMAIN served : n \in served[i].queued /\ Busy(i, n, served[j].placed[n])})
                  =< qc.units

(* The list of free intervals stays in order, its intervals apart and none     *)
(* shorter than the minimum, and none of it has been given away.               *)
FreeListSound ==
    qc.kind \in {"history", "readwrite"} =>
        \A n \in Queues :
            LET free == q[n].free
            IN  /\ \A i \in DOMAIN free : free[i][2] - free[i][1] >= qc.min
                /\ \A i \in 1..(Len(free) - 1) : free[i][2] =< free[i + 1][1]
                /\ \A i \in DOMAIN free, j \in DOMAIN served :
                      n \in served[j].queued =>
                          \/ served[j].placed[n] + served[j].size =< free[i][1]
                          \/ served[j].placed[n] >= free[i][2]

(* The moving average is the average of the last delays, at most a window of   *)
(* them, however often the ring has wrapped around.                            *)
MeanOfWindow ==
    qc.kind \in {"history", "basic"} =>
        LET past == SelectSeq(served, LAMBDA r : r.queued # {})
            from == Greater(1, Len(past) - qc.window + 1)
            Of(r) == IF qc.kind = "basic" THEN r.at ELSE r.start - r.at
        IN  q.main.mean.sum = SumOver([i \in 1..(Len(past) - from + 1) |-> Of(past[from + i - 1])])

(* The sums the windowed model keeps up to date are the sums over the requests *)
(* in its window.                                                              *)
SumsMatchWindow ==
    qc.kind = "mg1" =>
        LET m == q.main
        IN  /\ m.arrivals = Len(m.items)
            /\ m.sum = SumOver([i \in DOMAIN m.items |-> m.items[i].size])
            /\ m.sum2 = SumOver([i \in DOMAIN m.items |-> m.items[i].size^2])

(* The windowed model remembers every request younger than a window before the *)
(* barrier time ("the earliest time any thread may be at"), and less than ten  *)
(* windows older than the last request.                                        *)
RecentRequestsKept ==
    qc.kind = "mg1" =>
        \A i \in DOMAIN served :
            (/\ served[i].at >= q.main.global - qc.window
             /\ \A j \in i..Len(served) : served[i].at >= served[j].at - 10 * qc.window)
                => \E k \in DOMAIN q.main.items :
                        q.main.items[k] = [at |-> served[i].at, size |-> served[i].size]

(* Looking at the start time beforehand tells the truth: the request then      *)
(* starts at that time (getStartTime against getCompletionTime).               *)
PeekTellsStart ==
    qc.kind = "contention" => \A i \in DOMAIN served : served[i].peeked = served[i].start
=============================================================================
