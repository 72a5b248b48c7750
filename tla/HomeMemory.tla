----------------------------- MODULE HomeMemory -----------------------------
(***************************************************************************)
(* The memory side of a directory controller: the NUCA cache beside it     *)
(* (nuca_cache.cc) and the DRAM controller it reaches over the network     *)
(* (dram_cntlr.cc, dram_cntlr_interface.cc).  The coherence protocol above *)
(* asks for a line only when no cache has it modified and writes a         *)
(* modified line back; for one address these calls follow each other, for  *)
(* different addresses they interleave.  The contents of a line is the     *)
(* number of its last write, modulo Values; `newest' is history.           *)
(***************************************************************************)
EXTENDS Integers, Sequences, FiniteSets

CONSTANTS Homes, Addr, Values, NoData,
          MaxWire    \* bound on the messages in flight to DRAM

VARIABLES home,      \* the configuration: ways of the NUCA slice, 0 without one
          nuca,      \* address -> [cstate, data] of the lines in the NUCA slice
          dram,      \* address -> data (m_data_map)
          wire,      \* messages from the directory to the DRAM controller
          reply,     \* messages from the DRAM controller to the directory
          waiting,   \* addresses with a DRAM_READ_REQ in flight
          owner,     \* address -> the line is modified in a cache
          newest, answered

homeVars == <<home, nuca, dram, wire, reply, waiting, owner, newest, answered>>

HomeInit ==
  /\ home \in Homes
  /\ nuca = <<>>
  /\ dram = [a \in Addr |-> 0]
  /\ wire = <<>> /\ reply = <<>>
  /\ waiting = {}
  /\ owner = [a \in Addr |-> FALSE]
  /\ newest = [a \in Addr |-> 0]
  /\ answered = NoData

Held == DOMAIN nuca

With(a, line) == [b \in Held \cup {a} |-> IF b = a THEN line ELSE nuca[b]]

Without(f, a) == [b \in DOMAIN f \ {a} |-> f[b]]

WriteReq(a, d) == <<[type |-> "DRAM_WRITE_REQ", address |-> a, data |-> d]>>

\* Bug: the line that a write hit finds keeps its contents.
MutNucaWrite(a, d) ==
  {[nuca |-> IF a \in Held THEN nuca ELSE With(a, [cstate |-> "INVALID", data |-> d]), out |-> <<>>]}

\* NucaCache::write and the eviction handling of its caller.  A line written on a
\* miss stays in the state it was created with; the victim is written to DRAM only
\* when it is MODIFIED.  The eviction flag of the caller, which a write hit leaves
\* unset, is taken to be false.
NucaWrite(a, d) ==
  IF a \in Held
  THEN {[nuca |-> With(a, [cstate |-> "MODIFIED", data |-> d]), out |-> <<>>]}
  ELSE LET new == [cstate |-> "INVALID", data |-> d] IN
       IF Cardinality(Held) < home.ways
       THEN {[nuca |-> With(a, new), out |-> <<>>]}
       ELSE {[nuca |-> Without(With(a, new), v),
              out |-> IF nuca[v].cstate = "MODIFIED" THEN WriteReq(v, nuca[v].data) ELSE <<>>]
               : v \in Held}

\* sendDataToNUCA, sendDataToDram of DramDirectoryCntlr.
SendDataToNUCA(a, d) ==
  \E r \in IF home.ways = 0 THEN {[nuca |-> nuca, out |-> <<>>]} ELSE NucaWrite(a, d) :
    nuca' = r.nuca /\ wire' = wire \o r.out

SendDataToDram(a, d) ==
  IF home.ways > 0 THEN SendDataToNUCA(a, d)
  ELSE wire' = wire \o WriteReq(a, d) /\ UNCHANGED nuca

\* A cache takes the line with the right to write it, and writes it.
Modify(a) ==
  /\ ~owner[a]
  /\ a \notin waiting
  /\ owner' = [owner EXCEPT ![a] = TRUE]
  /\ newest' = [newest EXCEPT ![a] = (@ + 1) % Values]
  /\ answered' = NoData
  /\ UNCHANGED <<home, nuca, dram, wire, reply, waiting>>

\* The modified line comes back: FLUSH_REP or WB_REP, then sendDataToDram.
WriteBack(a) ==
  /\ owner[a]
  /\ Len(wire) < MaxWire
  /\ owner' = [owner EXCEPT ![a] = FALSE]
  /\ SendDataToDram(a, newest[a])
  /\ answered' = NoData
  /\ UNCHANGED <<home, dram, reply, waiting, newest>>

\* retrieveDataAndSendToL2Cache: NucaCache::read, and DRAM after a miss.
Read(a) ==
  /\ ~owner[a]
  /\ Len(wire) < MaxWire
  /\ a \notin waiting
  /\ IF a \in Held
     THEN /\ answered' = [address |-> a, data |-> nuca[a].data]
          /\ UNCHANGED <<wire, waiting>>
     ELSE /\ wire' = Append(wire, [type |-> "DRAM_READ_REQ", address |-> a])
          /\ waiting' = waiting \cup {a}
          /\ answered' = NoData
  /\ UNCHANGED <<home, nuca, dram, reply, owner, newest>>

\* DramCntlrInterface::handleMsgFromTagDirectory with DramCntlr::getDataFromDram
\* and putDataToDram.
HandleMsgFromTagDirectory ==
  /\ wire # <<>>
  /\ LET m == Head(wire) IN
     IF m.type = "DRAM_READ_REQ"
     THEN /\ reply' = Append(reply, [address |-> m.address, data |-> dram[m.address]])
          /\ UNCHANGED dram
     ELSE /\ dram' = [dram EXCEPT ![m.address] = m.data]
          /\ UNCHANGED reply
  /\ wire' = Tail(wire)
  /\ answered' = NoData
  /\ UNCHANGED <<home, nuca, waiting, owner, newest>>

\* processDRAMReply: the data goes to the cache, and a copy to NUCA.
ProcessDRAMReply ==
  /\ reply # <<>>
  /\ LET m == Head(reply) IN
       /\ answered' = m
       /\ waiting' = waiting \ {m.address}
       /\ SendDataToNUCA(m.address, m.data)
  /\ reply' = Tail(reply)
  /\ UNCHANGED <<home, dram, owner, newest>>

HomeNext ==
  \/ \E a \in Addr : Modify(a) \/ WriteBack(a) \/ Read(a)
  \/ HandleMsgFromTagDirectory
  \/ ProcessDRAMReply

HomeSpec == HomeInit /\ [][HomeNext]_homeVars

-----------------------------------------------------------------------------

\* Every variable has its type; the home has at most one DRAM read of a line under way.
HomeTypeOK ==
  /\ Held \subseteq Addr /\ Cardinality(Held) <= home.ways
  /\ \A a \in Held : nuca[a] \in [cstate : {"INVALID", "SHARED", "MODIFIED"}, data : 0 .. Values - 1]
  /\ dram \in [Addr -> 0 .. Values - 1] /\ newest \in [Addr -> 0 .. Values - 1]
  /\ waiting \subseteq Addr /\ owner \in [Addr -> BOOLEAN]
  /\ \A a \in Addr :
       Len(SelectSeq(wire, LAMBDA m : m.type = "DRAM_READ_REQ" /\ m.address = a))
       + Len(SelectSeq(reply, LAMBDA m : m.address = a)) = IF a \in waiting THEN 1 ELSE 0

\* A line that was not MODIFIED has left the NUCA slice: there are more addresses
\* than ways.
Evicts == home.ways > 0 /\ home.ways < Cardinality(Addr)


\* A line written back to the NUCA cache is still there, or on its way to DRAM, or
\* in DRAM: "If we have a NUCA cache: write it there, it will be written to DRAM on
\* eviction" (dram_directory_cntlr.cc:1241).
WrittenBackNotLost ==
  \A a \in Addr :
    ~owner[a] =>
      LET writes == SelectSeq(wire, LAMBDA m : m.type = "DRAM_WRITE_REQ" /\ m.address = a) IN
      IF a \in Held THEN nuca[a].data = newest[a]
      ELSE IF writes # <<>> THEN writes[Len(writes)].data = newest[a]
      ELSE dram[a] = newest[a]
=============================================================================
