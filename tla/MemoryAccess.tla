----------------------------- MODULE MemoryAccess -----------------------------
(***************************************************************************)
(* From an instruction to the L1 caches (core.cc, tlb.cc, accessTLB of     *)
(* memory_manager.cc): an access is cut into cache lines, every line goes  *)
(* through the TLBs, and instruction fetches go through the line that the  *)
(* core keeps.  What the caches do with a line is not part of this module. *)
(*                                                                         *)
(* g gives the sizes: line, page, itlb, dtlb and stlb (0: there is none).  *)
(* m is the state of a core: the TLBs; block, m_icache_last_block;         *)
(* fetched, the lines that were read from the L1-I.                        *)
(***************************************************************************)
EXTENDS Integers, Sequences, SequencesExt, FiniteSetsExt

CONSTANT NoPage

LineOf(g, address) == address \div g.line
PageOf(g, address) == address \div g.page

\* A TLB is one set of a cache with LRU replacement: its pages by way, the ways from the
\* most to the least recently used.
NewTlb(size) == [page |-> [w \in 1 .. size |-> NoPage], order |-> [w \in 1 .. size |-> w]]

NewMemory(g) == [itlb |-> NewTlb(g.itlb), dtlb |-> NewTlb(g.dtlb), stlb |-> NewTlb(g.stlb),
                 block |-> -1, fetched |-> {}]

Ways(tlb) == DOMAIN tlb.page
WaysOf(tlb, p) == {w \in Ways(tlb) : tlb.page[w] = p}
Present(tlb, p) == WaysOf(tlb, p) # {}

UseWay(tlb, w) == [tlb EXCEPT !.order = <<w>> \o Remove(@, w)]

\* accessSingleLine finds the first way with the page.
UsePage(tlb, p) == IF Present(tlb, p) THEN UseWay(tlb, Min(WaysOf(tlb, p))) ELSE tlb

Victim(tlb) == IF Present(tlb, NoPage) THEN Min(WaysOf(tlb, NoPage)) ELSE Last(tlb.order)

Insert(tlb, p) == UseWay([tlb EXCEPT !.page[Victim(tlb)] = p], Victim(tlb))

\* TLB::allocate: "Use next level as a victim cache"
Allocate(m, which, p) ==
  LET out == m[which].page[Victim(m[which])]
      n == [m EXCEPT ![which] = Insert(@, p)]
  IN  IF out = NoPage \/ Ways(m.stlb) = {} THEN n ELSE [n EXCEPT !.stlb = Insert(@, out)]

\* TLB::lookup: the next level is looked up without allocation.
Lookup(m, which, p) ==
  IF Present(m[which], p) THEN [state |-> [m EXCEPT ![which] = UsePage(@, p)], hit |-> TRUE]
  ELSE [state |-> Allocate([m EXCEPT !.stlb = UsePage(@, p)], which, p), hit |-> Present(m.stlb, p)]

\* coreInitiateMemoryAccess and accessTLB, for one line; without a TLB there is no miss.
AccessTLB(g, m, which, address) ==
  IF Ways(m[which]) = {} THEN [state |-> m, hit |-> TRUE] ELSE Lookup(m, which, PageOf(g, address))

\* The pieces, line by line, that initiateMemoryAccess cuts an access into.
Pieces(g, address, size) ==
  LET first == LineOf(g, address)
      last == LineOf(g, address + size)
      cut == [i \in 1 .. last - first + 1 |->
                LET l == first + i - 1
                    offset == IF l = first THEN address % g.line ELSE 0
                IN  [line |-> l, offset |-> offset,
                     size |-> IF l = last THEN ((address + size) % g.line) - offset ELSE g.line - offset]]
  IN  SelectSeq(cut, LAMBDA p : p.size # 0)

\* initiateMemoryAccess: the state afterwards, the pieces and the number of TLB misses.
InitiateMemoryAccess(g, m, which, address, size) ==
  LET pieces == IF size <= 0 THEN <<>> ELSE Pieces(g, address, size)
      one(s, p) == LET a == AccessTLB(g, s.state, which, p.line * g.line)
                   IN  [state |-> a.state, pieces |-> Append(s.pieces, p),
                        misses |-> s.misses + IF a.hit THEN 0 ELSE 1]
  IN  FoldLeft(one, [state |-> m, pieces |-> <<>>, misses |-> 0], pieces)

\* readInstructionMemory: one line is read, unless the core has it.
ReadInstructionMemory(g, m, address, size) ==
  LET line == IF LineOf(g, address) = m.block THEN m.block + 1 ELSE LineOf(g, address) IN
  IF LineOf(g, address) = m.block /\ LineOf(g, address + size - 1) = m.block THEN m
  ELSE [InitiateMemoryAccess(g, m, "itlb", line * g.line, g.line).state
          EXCEPT !.block = line, !.fetched = @ \cup {line}]
=============================================================================
