----------------------------- MODULE Prefetchers -----------------------------
(***************************************************************************)
(* The prefetchers of a cache controller (simple_prefetcher.cc,            *)
(* ghb_prefetcher.cc) and the list of lines waiting to be prefetched       *)
(* (trainPrefetcher and Prefetch of cache_cntlr.cc).  Addresses are line   *)
(* numbers modulo AddrMod, the width of IntPtr; a page has pf.page lines.  *)
(* Time is counted in PREFETCH_INTERVALs.                                  *)
(***************************************************************************)
EXTENDS Integers, Sequences, FiniteSets, SequencesExt, FiniteSetsExt

CONSTANTS Prefetch, AddrMod,
          MaxQueue,      \* PREFETCH_MAX_QUEUE_LENGTH
          None

VARIABLES pf,        \* the configuration
          flows,     \* SimplePrefetcher: m_prev_address and n_flow_next
          hist,      \* GhbPrefetcher: its fields
          over,      \* history: how often the entry a table slot refers to was overwritten
          list, next, trained, issued, now

pfVars == <<pf, flows, hist, over, list, next, trained, issued, now>>

Address == 0 .. AddrMod - 1

PfInit ==
  /\ pf \in Prefetch
  /\ flows = [prev |-> [i \in 0 .. pf.flows - 1 |-> 0], next |-> 0]
  /\ hist = [last |-> None, head |-> 0, gen |-> 0, tableHead |-> 0,
             ghb |-> [i \in 0 .. pf.ghb - 1 |-> [delta |-> None, next |-> None, gen |-> 0]],
             table |-> [i \in 0 .. pf.table - 1 |-> [delta |-> None, idx |-> None, gen |-> 0]]]
  /\ over = [i \in 0 .. pf.table - 1 |-> 0]
  /\ list = <<>> /\ next = 0 /\ now = 0
  /\ trained = 0
  /\ issued = None

Page(a) == a \div pf.page

\* SimplePrefetcher::getNextAddress: the nearest flow within a page, otherwise the
\* next one in turn; the list starts at the current address itself.
Nearest(a) ==
  LET dist(i) == Max({a - flows.prev[i], flows.prev[i] - a})
      close == {i \in DOMAIN flows.prev : dist(i) < pf.page}
  IN  IF close = {} THEN flows.next
      ELSE Min({i \in close : \A j \in close : dist(i) <= dist(j)})

SimpleList(a) ==
  LET stride == a - flows.prev[Nearest(a)]
      line(i) == (a + (i - 1) * stride) % AddrMod
  IN  IF stride = 0 THEN <<>>
      ELSE SelectSeq([i \in 1 .. pf.number |-> line(i)],
                     LAMBDA b : ~pf.stopAtPage \/ Page(b) = Page(a))

SimpleTrain(a) ==
  flows' = [prev |-> [flows.prev EXCEPT ![Nearest(a)] = a], next |-> (flows.next + 1) % pf.flows]

\* The slot of the delta table with this delta, none when an empty slot or the end
\* comes first.
Slot(delta) ==
  LET hits == {i \in DOMAIN hist.table :
                 /\ hist.table[i].delta = delta
                 /\ \A j \in 0 .. i - 1 : hist.table[j].delta \notin {None, delta}}
  IN  IF hits = {} THEN None ELSE Min(hits)

Refers(i) == hist.ghb[hist.table[i].idx]

Live(i) == i # None /\ hist.table[i].gen = Refers(i).gen

\* The deltas that follow entry i, up to pf.depth of them, as addresses from a.
RECURSIVE Along(_, _, _)
Along(i, a, depth) ==
  LET e == hist.ghb[i % pf.ghb]
      b == (a + e.delta) % AddrMod
  IN  IF depth = 0 \/ e.delta = None THEN <<>> ELSE <<b>> \o Along(i + 1, b, depth - 1)

\* The chain of entries that followed the same delta, newest first.
RECURSIVE Chain(_, _)
Chain(i, width) ==
  IF width = 0 \/ i = None THEN <<>>
  ELSE LET n == hist.ghb[i].next
           gone == n # None /\ (n > i \/ i > hist.head) /\ n < hist.head
       IN  <<i>> \o Chain(IF gone THEN None ELSE n, width - 1)

Distinct(s) == FoldLeft(LAMBDA r, x : IF Contains(r, x) THEN r ELSE Append(r, x), <<>>, s)

GhbList(a) ==
  IF hist.last = None THEN <<>>
  ELSE LET i == Slot(a - hist.last) IN
       IF ~Live(i) THEN <<>>
       ELSE Distinct(FlattenSeq([k \in 1 .. Len(Chain(hist.table[i].idx, pf.width)) |->
                       Along(Chain(hist.table[i].idx, pf.width)[k], a, pf.depth)]))

\* GhbPrefetcher::getNextAddress after the list is made: the new delta goes into
\* the buffer, and the table slot of the delta before it refers to it.
GhbTrain(a) ==
  IF hist.last = None THEN hist' = [hist EXCEPT !.last = a] /\ UNCHANGED over
  ELSE LET head == hist.head
           before == hist.ghb[IF head > 0 THEN head - 1 ELSE pf.ghb - 1].delta
           \* with one entry, the entry before the new one is the new one
           prev == IF pf.ghb = 1 THEN a - hist.last ELSE before
           i == Slot(prev)
           link == IF i # None /\ (IF hist.table[i].idx = head THEN hist.gen ELSE Refers(i).gen)
                                    = hist.table[i].gen
                   THEN hist.table[i].idx ELSE None
           slot == IF i # None THEN i ELSE hist.tableHead
           wraps == head + 1 = pf.ghb
       IN /\ hist' =
               [hist EXCEPT
                  !.last = a,
                  !.ghb[head] = [delta |-> a - hist.last, gen |-> hist.gen,
                                 next |-> IF prev = None THEN None ELSE link],
                  !.table = IF prev = None THEN @
                            ELSE [@ EXCEPT ![slot] = [delta |-> prev, idx |-> head, gen |-> hist.gen]],
                  !.tableHead = IF prev # None /\ i = None THEN (@ + 1) % pf.table ELSE @,
                  !.head = IF wraps THEN 0 ELSE @ + 1,
                  !.gen = IF wraps THEN (@ + 1) % 4 ELSE @]
          /\ over' = [t \in DOMAIN over |->
                        IF prev # None /\ t = slot THEN 0
                        ELSE IF hist.table[t].idx = head
                             THEN (IF over[t] = 7 THEN 4 ELSE over[t] + 1) ELSE over[t]]

NextAddresses(a) == IF pf.type = "simple" THEN SimpleList(a) ELSE GhbList(a)

\* The candidates are appended until the list is longer than MaxQueue.
RECURSIVE Fill(_, _, _)
Fill(q, s, present) ==
  IF s = <<>> \/ Len(q) > MaxQueue THEN q
  ELSE Fill(IF Head(s) \in present THEN q ELSE Append(q, Head(s)), Tail(s), present)

\* CacheCntlr::trainPrefetcher after an access to line a; `again' when it missed or
\* hit a prefetched line, `present' the lines that can be read already.
TrainPrefetcher(a, again, present) ==
  /\ IF pf.type = "simple" THEN SimpleTrain(a) /\ UNCHANGED <<hist, over>>
                           ELSE GhbTrain(a) /\ UNCHANGED flows
  /\ IF again
     THEN list' = Fill(<<>>, NextAddresses(a), present) /\ next' = now + 1 /\ trained' = a
     ELSE UNCHANGED <<list, next, trained>>
  /\ issued' = None
  /\ UNCHANGED <<pf, now>>

\* CacheCntlr::Prefetch: the first line of the list that is not there yet, one at a
\* time and one per interval.
PrefetchNext(present) ==
  /\ next <= now
  /\ LET rest == {i \in DOMAIN list : list[i] \notin present} IN
     IF rest = {} THEN list' = <<>> /\ issued' = None /\ UNCHANGED next
     ELSE /\ list' = SubSeq(list, Min(rest) + 1, Len(list))
          /\ issued' = [line |-> list[Min(rest)], at |-> next]
          /\ next' = next + 1
  /\ UNCHANGED <<pf, flows, hist, over, trained, now>>

TimePasses ==
  /\ now < pf.maxTime
  /\ now' = now + 1
  /\ issued' = None
  /\ UNCHANGED <<pf, flows, hist, over, list, next, trained>>

PfNext ==
  \/ \E a \in pf.addresses, again \in pf.again, present \in pf.present :
       TrainPrefetcher(a, again, present)
  \/ \E present \in pf.present : PrefetchNext(present)
  \/ TimePasses

PfSpec == PfInit /\ [][PfNext]_pfVars

-----------------------------------------------------------------------------

\* The fields stay in the ranges that index the vectors of the prefetchers.
PfTypeOK ==
  /\ flows.next \in DOMAIN flows.prev
  /\ hist.head \in DOMAIN hist.ghb
  /\ hist.gen \in 0 .. 3
  /\ \A i \in DOMAIN hist.ghb : hist.ghb[i].next \in DOMAIN hist.ghb \cup {None}
  /\ Range(list) \subseteq Address

\* Every line on the list follows from the last access that made one, and with
\* stop_at_page_boundary lies in its page: lists are replaced, never extended.
ListInPage ==
  pf.type = "simple" /\ pf.stopAtPage => \A i \in DOMAIN list : Page(list[i]) = Page(trained)

\* The list grows one past PREFETCH_MAX_QUEUE_LENGTH (the length is compared with >
\* before each append) and no further.
ListBounded == Len(list) <= MaxQueue + 1

\* A slot of the delta table that passes the generation check refers to the entry
\* it was made for, unless the two-bit generation has wrapped: the entry was
\* overwritten a multiple of four times.
LiveUnlessWrapped ==
  \A i \in DOMAIN hist.table :
    hist.table[i].delta # None /\ Live(i) => over[i] \in {0, 4}

=============================================================================
