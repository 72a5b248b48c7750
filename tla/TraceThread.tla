------------------------------ MODULE TraceThread ------------------------------
(***************************************************************************)
(* What a trace thread (trace_thread.cc) does with the instructions of its *)
(* trace: it maps addresses, finds and counts the basic blocks, and warms  *)
(* the caches or simulates in detail, whatever the instrumentation mode is *)
(* at that moment.  Starting, blocking and ending are in TraceManager.     *)
(*                                                                         *)
(* tt is the configuration: the program (code), the TLBs and lines (g),    *)
(* the app ids, how addresses are mapped, and the bounds max on the length *)
(* of the trace and records on cache-only records.  A static instruction   *)
(* is                                                                      *)
(*   [addr, size, branch, pair, atomic, nop, prefetch, executed, ops, data]*)
(* where ops are its memory operands [read, write, size] and data the      *)
(* addresses that come with it (num_addresses of them).                    *)
(* t is the state; table is m_address_randomization_table, one for each    *)
(* application, being filled up to place `filled'.  executed, block, last  *)
(* and pages are history: the instructions the application executed, those *)
(* since m_bbv_base, the data accesses of the latest one, and the data     *)
(* pages from the latest on.                                               *)
(***************************************************************************)
EXTENDS MemoryAccess

CONSTANT TraceConfigs

VARIABLES tt, t

traceVars == <<tt, t>>

Modes == {"FAST_FORWARD", "CACHE_ONLY", "DETAILED"}

TraceInit ==
  /\ tt \in TraceConfigs
  /\ t = [table |-> [a \in tt.apps |-> [i \in 0 .. tt.base - 1 |-> 0]],
          filled |-> IF tt.randomization THEN 1 ELSE tt.base,
          inst |-> 1, mode |-> tt.mode, recorder |-> "detailed",
          bbv |-> [base |-> 0, count |-> 0, last |-> 0, end |-> FALSE],
          counted |-> 0, memory |-> NewMemory(tt.g), failed |-> FALSE,
          executed |-> 0, records |-> 0, block |-> <<>>, last |-> <<>>, pages |-> <<>>]

-----------------------------------------------------------------------------
(* Addresses *)

\* One round of the shuffle in the constructor.
ShuffleStep(table, i, j) == [[table EXCEPT ![i] = table[j]] EXCEPT ![j] = i]

\* The loop of the constructor, with any random numbers.
Shuffle ==
  /\ t.filled < tt.base
  /\ \E js \in [tt.apps -> 0 .. t.filled] :
       t' = [t EXCEPT !.table = [a \in tt.apps |-> ShuffleStep(@[a], t.filled, js[a])], !.filled = @ + 1]
  /\ UNCHANGED tt

\* remapAddress: the three lower digits of the page number
RemapAddress(a, page) ==
  LET b == tt.base
      d(k) == (page \div b^k) % b
  IN  (page \div b^3) * b^3 + t.table[a][d(2)] * b^2 + t.table[a][d(1)] * b + t.table[a][d(0)]

NoMapping(va) == tt.hasPa /\ PageOf(tt.g, va) \in tt.unmapped

\* 2^pa_core_shift
VaSpace == tt.g.page * tt.base^3 * 2

\* Where the trace knows physical addresses: here, the next page.
PhysicalAddress(va) == va + tt.g.page

\* va2pa for application a
Va2pa(a, va) ==
  IF tt.hasPa /\ ~NoMapping(va) THEN PhysicalAddress(va)
  ELSE a * VaSpace + IF tt.randomization
                     THEN RemapAddress(a, PageOf(tt.g, va)) * tt.g.page + (va % tt.g.page)
                     ELSE va % VaSpace

App == Min(tt.apps)

-----------------------------------------------------------------------------
(* The memory operands of an instruction *)

\* The address of operand k (from 0); `beyond' is where the second element of a pair is
\* looked for, relative to num_addresses; -1 where the assertion "Did not receive enough data
\* addresses" fails.
OperandAddress(inst, k, beyond) ==
  LET num == Len(inst.data) IN
  IF inst.pair /\ k = num + beyond
  THEN IF k < num + 1 THEN inst.data[k] + inst.ops[k + 1].size ELSE -1
  ELSE IF k < num THEN inst.data[k + 1] ELSE -1

\* Reads come before writes.
Operands(inst, beyond) ==
  LET all == [k \in 1 .. Len(inst.ops) |->
                [address |-> OperandAddress(inst, k - 1, beyond), size |-> inst.ops[k].size,
                 read |-> inst.ops[k].read, write |-> inst.ops[k].write]]
  IN  IF inst.nop THEN <<>>
      ELSE SelectSeq(all, LAMBDA o : o.read) \o
           [i \in DOMAIN SelectSeq(all, LAMBDA o : o.write) |->
              [SelectSeq(all, LAMBDA o : o.write)[i] EXCEPT !.read = FALSE]]

Incomplete(inst, beyond) == \E i \in DOMAIN Operands(inst, beyond) : Operands(inst, beyond)[i].address = -1

Accesses(inst, operands) ==
  LET os == SelectSeq(operands, LAMBDA o : ~(inst.prefetch /\ NoMapping(o.address)))
  IN  [i \in DOMAIN os |-> [address |-> Va2pa(App, os[i].address), size |-> os[i].size]]

\* handleInstructionWarmup: the store of an atomic update is only counted as a hit.
WarmupAccesses(inst) ==
  IF inst.executed
  THEN Accesses(inst, SelectSeq(Operands(inst, 1), LAMBDA o : o.read \/ ~inst.atomic))
  ELSE <<>>

\* handleInstructionDetailed, addDetailedMemoryInfo and DynamicInstruction::accessMemory
DetailedAccesses(inst) ==
  IF inst.executed THEN Accesses(inst, Operands(inst, 0)) ELSE <<>>

\* core->accessMemory, one access after the other.
DoAccesses(m, as) ==
  FoldLeft(LAMBDA n, a : InitiateMemoryAccess(tt.g, n, "dtlb", a.address, a.size).state, m, as)

\* The data pages from the latest on, and the pages of an access.
Recent(pages, as) ==
  LET touched(a) == [i \in DOMAIN Pieces(tt.g, a.address, a.size) |->
                       PageOf(tt.g, Pieces(tt.g, a.address, a.size)[i].line * tt.g.line)]
  IN  FoldLeft(LAMBDA ps, a : FoldLeft(LAMBDA qs, p : <<p>> \o Remove(qs, p), ps, touched(a)), pages, as)

-----------------------------------------------------------------------------
(* One iteration of run() *)

NewBlock(inst) == t.bbv.end \/ t.bbv.last # inst.addr

BasicBlock(inst) ==
  [base |-> IF NewBlock(inst) THEN inst.addr ELSE t.bbv.base,
   count |-> IF NewBlock(inst) THEN 1 ELSE t.bbv.count + 1,
   last |-> inst.addr + inst.size, end |-> inst.branch]


Counted(inst) == IF NewBlock(inst) THEN t.bbv.count ELSE 0

\* The instruction cache: the block that ended, in CACHE_ONLY mode; the instruction
\* itself, in the performance model of DETAILED mode.
Fetched(inst) ==
  CASE ~tt.icache \/ t.mode = "FAST_FORWARD" -> t.memory
    [] tt.icache /\ t.mode = "CACHE_ONLY" ->
         IF NewBlock(inst) /\ t.bbv.base # 0
         THEN ReadInstructionMemory(tt.g, t.memory, Va2pa(App, t.bbv.base), t.bbv.last - t.bbv.base)
         ELSE t.memory
    [] OTHER -> ReadInstructionMemory(tt.g, t.memory, Va2pa(App, inst.addr), inst.size)

Handle(inst) ==
  LET as == CASE t.mode = "FAST_FORWARD" -> <<>>
              [] t.mode = "CACHE_ONLY" -> WarmupAccesses(inst)
              [] OTHER -> DetailedAccesses(inst)
      fails == \/ t.mode = "CACHE_ONLY" /\ inst.executed /\ Incomplete(inst, 1)
               \/ t.mode = "DETAILED" /\ Incomplete(inst, 0)
  IN  [t EXCEPT !.counted = @ + Counted(inst), !.bbv = BasicBlock(inst),
                !.executed = @ + 1,
                !.block = IF NewBlock(inst) THEN <<inst>> ELSE Append(@, inst),
                !.failed = fails,
                !.memory = IF fails THEN @ ELSE DoAccesses(Fetched(inst), as),
                !.last = as,
                !.pages = Recent(@, as)]

\* After a branch, or when the recorder skipped instructions, anything may come next.
Follows(i, j) == tt.code[i].branch \/ tt.code[j].addr = tt.code[i].addr + tt.code[i].size

Run ==
  /\ t.filled = tt.base /\ ~t.failed /\ t.executed < tt.max
  /\ t.recorder = "detailed"
  /\ \E next \in DOMAIN tt.code :
       /\ Follows(t.inst, next)
       /\ t' = [Handle(tt.code[t.inst]) EXCEPT !.inst = next]
  /\ UNCHANGED tt

\* Sim()->setInstrumentationMode, from any thread.
SetInstrumentationMode ==
  /\ t.filled = tt.base /\ ~t.failed
  /\ \E mode \in tt.modes : t' = [t EXCEPT !.mode = mode]
  /\ UNCHANGED tt

SiftMode(mode) == CASE mode = "FAST_FORWARD" -> "icount" [] mode = "CACHE_ONLY" -> "memory" [] OTHER -> "detailed"

\* handleInstructionCountFunc: the recorder reports instructions it did not send, and is
\* told the mode.  The instruction that comes next is another one.
HandleInstructionCount ==
  /\ t.filled = tt.base /\ ~t.failed
  /\ \E icount \in 0 .. 2, next \in DOMAIN tt.code :
       /\ t.executed + icount <= tt.max
       /\ IF icount = 0 THEN next = t.inst ELSE t.recorder = "icount"
       /\ t' = [t EXCEPT !.counted = @ + icount, !.executed = @ + icount,
                         !.recorder = SiftMode(t.mode), !.inst = next]
  /\ UNCHANGED tt

\* handleCacheOnlyFunc
HandleCacheOnly ==
  /\ t.recorder = "memory" /\ ~t.failed /\ t.records < tt.records
  /\ \E icount \in 0 .. 1, i \in DOMAIN tt.code :
       LET inst == tt.code[i]
           as == IF inst.data = <<>> THEN <<>> ELSE <<[address |-> Va2pa(App, inst.data[1]), size |-> 4]>>
       IN  /\ t.executed + icount <= tt.max
           /\ LET u == [t EXCEPT !.counted = @ + icount, !.executed = @ + icount, !.records = @ + 1] IN
              \/ t' = [u EXCEPT !.memory = DoAccesses(@, as), !.pages = Recent(@, as)]
              \/ /\ tt.icache
                 /\ t' = [u EXCEPT !.memory = ReadInstructionMemory(tt.g, @, Va2pa(App, inst.addr), inst.size)]
  /\ UNCHANGED tt

TraceNext == Shuffle \/ Run \/ SetInstrumentationMode \/ HandleInstructionCount \/ HandleCacheOnly

TraceSpec == TraceInit /\ [][TraceNext]_traceVars

-----------------------------------------------------------------------------

TraceTypeOK ==
  /\ t.mode \in Modes
  /\ t.counted \in 0 .. tt.max
  /\ t.inst \in DOMAIN tt.code
  /\ t.bbv.count \in 0 .. tt.max

\* Every instruction that the application executed is counted once by countInstructions,
\* whichever way it was reported; those of the block that has not ended are still to come.
CountedOnce == t.counted + t.bbv.count = t.executed

\* What is counted for m_bbv_base is a basic block: instructions one after the other from
\* that address on, of which only the last may be a branch.
BlocksAreBasic ==
  LET n == Len(t.block) IN
  t.bbv.count > 0 =>
    /\ n = t.bbv.count /\ t.bbv.base = t.block[1].addr
    /\ \A i \in 1 .. n - 1 : ~t.block[i].branch /\ t.block[i + 1].addr = t.block[i].addr + t.block[i].size

\* "This is guaranteed since m_address_randomization_table contains each 0..255 number only
\* once": no two addresses, of one application or of two, get the same physical address.
MappingInvertible ==
  t.filled = tt.base /\ t.executed = 0 /\ ~tt.hasPa =>
    Cardinality({Va2pa(a, va) : a \in tt.apps, va \in 0 .. VaSpace - 1}) = Cardinality(tt.apps) * VaSpace

LinesOf(as) ==
  UNION {{Pieces(tt.g, as[i].address, as[i].size)[j].line :
            j \in DOMAIN Pieces(tt.g, as[i].address, as[i].size)} : i \in DOMAIN as}

\* Warming up (handleInstructionWarmup) touches the data lines that detailed simulation
\* (addDetailedMemoryInfo, accessMemory) of the same instruction touches.
WarmupLikeDetailed ==
  t.filled = tt.base =>
    \A i \in DOMAIN tt.code : LinesOf(WarmupAccesses(tt.code[i])) = LinesOf(DetailedAccesses(tt.code[i]))

\* "LDP ARM instructions, second element to be loaded, using the address of the first
\* element": an instruction that detailed simulation accepts does not fail the assertion
\* "Did not receive enough data addresses" while the caches are being warmed up.
PairsWarmUp == t.failed => Incomplete(Last(t.block), 0)

\* The pieces of an access are its bytes, each once, and none crosses a line.
PiecesCoverAccess ==
  \A i \in DOMAIN t.last :
    LET a == t.last[i]
        ps == Pieces(tt.g, a.address, a.size)
        bytes(p) == (p.line * tt.g.line + p.offset) .. (p.line * tt.g.line + p.offset + p.size - 1)
    IN  /\ UNION {bytes(ps[j]) : j \in DOMAIN ps} = a.address .. a.address + a.size - 1
        /\ \A j \in DOMAIN ps : ps[j].size > 0 /\ ps[j].offset + ps[j].size <= tt.g.line
        /\ \A j, k \in DOMAIN ps : j # k => bytes(ps[j]) \cap bytes(ps[k]) = {}

\* In detailed mode the line in which the latest instruction begins was read from the
\* instruction cache, although the core asks only when the line changes.
FirstLineFetched ==
  (t.executed > 0 /\ tt.icache /\ tt.modes = {"DETAILED"} /\ tt.mode = "DETAILED") =>
    LineOf(tt.g, Va2pa(App, Last(t.block).addr)) \in t.memory.fetched

\* The data pages used last hit: as many as the first-level TLB holds there, and one more
\* in the second level, which takes what the first evicts.
RecentPagesHit ==
  LET n == tt.g.dtlb
      m == t.memory
  IN  tt.g.dtlb > 0 /\ tt.g.stlb > 0 /\ ~tt.icache =>
        /\ \A i \in 1 .. Min({n, Len(t.pages)}) : Present(m.dtlb, t.pages[i])
        /\ Len(t.pages) > n => Present(m.stlb, t.pages[n + 1])
=============================================================================
