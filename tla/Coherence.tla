----------------------------- MODULE Coherence -----------------------------
(***************************************************************************)
(* The directory coherence protocol of the parametric memory hierarchy,    *)
(* for one cache line: the last-level caches (CacheCntlr), the home tag    *)
(* directory (DramDirectoryCntlr), the DRAM controller and the messages    *)
(* between them.                                                           *)
(*                                                                         *)
(* Lines are independent in the protocol: request queues, waiter queues    *)
(* and directory entries are all indexed by address.  What other lines do  *)
(* to this one is in the model: a fill of another line may evict this one  *)
(* from a cache (Evict), and the allocation of another directory entry may *)
(* replace this one's (DirReplaceEntry).                                   *)
(*                                                                         *)
(* Every channel is FIFO, as SmTransport::SmNode::m_queue is.  A core has  *)
(* one queue for all its senders; here the home has one per sender, which  *)
(* allows every order the single queue can produce.                        *)
(*                                                                         *)
(* A failing assert or LOG_ASSERT_ERROR ends the program, so assertions    *)
(* are guards here; DirectoryAssertionsHold, RepliesExpected and           *)
(* WokenWaiterHits say that none of them ever fails.                       *)
(***************************************************************************)
EXTENDS Naturals, Sequences, FiniteSets

CONSTANTS
  Cache,         \* the master core ids of the last-level caches
  NoCore,        \* INVALID_CORE_ID
  Protocol,      \* CoherencyProtocol::type_t
  MaxHwSharers,  \* Directory::getMaxHwSharers()
  MaxWaiters,    \* how many cores share a last-level cache
  Value,         \* contents of the line
  NoData         \* a NULL data buffer

ASSUME CoreAssumption == NoCore \notin Cache
ASSUME ProtocolAssumption == Protocol \in {"MSI", "MESI", "MESIF"}
ASSUME BoundAssumption == MaxHwSharers \in Nat \ {0} /\ MaxWaiters \in Nat \ {0}
ASSUME DataAssumption == Value # {} /\ NoData \notin Value

VARIABLES
  cstate,     \* [Cache -> CState], the line's state in each last-level cache
  cdata,      \* [Cache -> Value], its contents there
  waiters,    \* m_directory_waiters: per cache, the accesses queued
  serving,    \* where each cache's network thread is in its wake-up loop
  toDir,      \* messages from each cache to the home directory
  toCache,    \* messages from the home directory to each cache
  dstate,     \* DirectoryBlockInfo::m_dstate of the line's directory entry
  sharers,    \* DirectoryEntrySized::m_sharers
  owner,      \* DirectoryEntry::m_owner_id
  forwarder,  \* DirectoryEntry::m_forwarder_id
  reqs,       \* m_dram_directory_req_queue_list for this address
  dpc,        \* the home thread is between messages, or must process reqs[1]
  dbuf,       \* cached_data_buf of the pending process* call
  fromDram,   \* DRAM_READ_REPs on their way to the home directory
  dram        \* contents of the line in DRAM

cacheVars == <<cstate, cdata, waiters, serving>>
entryVars == <<dstate, sharers, owner, forwarder>>
dirVars   == <<reqs, dpc, dbuf>>
dramVars  == <<fromDram, dram>>
vars == <<cacheVars, toDir, toCache, entryVars, dirVars, dramVars>>

-----------------------------------------------------------------------------
(* CacheState::cstate_t, DirectoryState::dstate_t, ShmemMsg::msg_t.  OWNED  *)
(* is never assigned by this protocol.                                      *)
CState == {"INVALID", "SHARED", "SHARED_UPGRADING", "EXCLUSIVE", "MODIFIED"}
DState == {"UNCACHED", "SHARED", "EXCLUSIVE", "MODIFIED"}
ReqType == {"EX_REQ", "SH_REQ", "UPGRADE_REQ"}
ReplyType == {"EX_REP", "SH_REP", "UPGRADE_REP"}

(* Core::mem_op_t; READ_EX is treated as WRITE is.                          *)
MemOp == {"READ", "WRITE"}

Buffer == Value \cup {NoData}
Core == Cache \cup {NoCore}

Msg(type, data) == [type |-> type, data |-> data]

CacheMsg == [type : {"FLUSH_REP", "WB_REP"}, data : Value]
            \cup [type : ReqType \cup {"INV_REP"}, data : {NoData}]

DirMsg == [type : {"EX_REP", "SH_REP"}, data : Value]
          \cup [type : {"UPGRADE_REP", "INV_REQ", "FLUSH_REQ", "WB_REQ"}, data : {NoData}]

(* A ShmemReq: the message, who asked, m_wait_for_data, m_forwarding_from   *)
(* and whether a flushed buffer has been stored in its message.             *)
ShmemReq ==
  {q \in [type : ReqType \cup {"NULLIFY_REQ"}, from : Core,
          wait : BOOLEAN, fwd : Core, stored : BOOLEAN] :
     q.from = NoCore <=> q.type = "NULLIFY_REQ"}

NewReq(type, from) ==
  [type |-> type, from |-> from, wait |-> FALSE, fwd |-> NoCore, stored |-> FALSE]

Send(channel, c, m) == [channel EXCEPT ![c] = Append(@, m)]

SendAll(C, m) ==
  [c \in Cache |-> IF c \in C THEN Append(toCache[c], m) ELSE toCache[c]]

TypeOK ==
  /\ cstate \in [Cache -> CState]
  /\ cdata \in [Cache -> Value]
  /\ waiters \in [Cache -> Seq(MemOp)]
  /\ serving \in [Cache -> {"no", "locked", "woken"}]
  /\ toDir \in [Cache -> Seq(CacheMsg)]
  /\ toCache \in [Cache -> Seq(DirMsg)]
  /\ dstate \in DState
  /\ sharers \in SUBSET Cache
  /\ owner \in Core
  /\ forwarder \in Core
  /\ reqs \in Seq(ShmemReq)
  /\ dpc \in {"idle", "process"}
  /\ dbuf \in Buffer
  /\ fromDram \in Seq(Value)
  /\ dram \in Value

(* DirectoryEntry's constructor does not set m_forwarder_id.                *)
Init ==
  /\ cstate = [c \in Cache |-> "INVALID"]
  /\ waiters = [c \in Cache |-> <<>>]
  /\ serving = [c \in Cache |-> "no"]
  /\ toDir = [c \in Cache |-> <<>>]
  /\ toCache = [c \in Cache |-> <<>>]
  /\ dstate = "UNCACHED"
  /\ sharers = {}
  /\ owner = NoCore
  /\ forwarder \in Core
  /\ reqs = <<>>
  /\ dpc = "idle"
  /\ dbuf = NoData
  /\ fromDram = <<>>
  /\ \E v \in Value : dram = v /\ cdata = [c \in Cache |-> v]

-----------------------------------------------------------------------------
(* Last-level cache: the user threads.  A thread of the hierarchy holds the *)
(* stack lock of the line while it looks it up.  The network thread holds   *)
(* it from the reply on ("locked") and passes it to the first waiter.  That *)
(* thread releases it when its access is done ("woken"), and any thread may *)
(* take it before the network thread has it back and dequeues the waiter.   *)

StackLockFree(c) == serving[c] # "locked"

ThreadAvailable(c) ==
  Len(waiters[c]) < IF serving[c] = "woken" THEN MaxWaiters + 1 ELSE MaxWaiters

Readable(s) == s \in {"MODIFIED", "SHARED", "EXCLUSIVE"}

(* A store hits, or upgrades EXCLUSIVE to MODIFIED without the directory.   *)
WriteHit(c) ==
  /\ StackLockFree(c) /\ ThreadAvailable(c)
  /\ cstate[c] \in {"EXCLUSIVE", "MODIFIED"}
  /\ \E v \in Value : cdata' = [cdata EXCEPT ![c] = v]
  /\ cstate' = [cstate EXCEPT ![c] = "MODIFIED"]
  /\ UNCHANGED <<waiters, serving, toDir, toCache, entryVars, dirVars, dramVars>>

(* initiateDirectoryAccess: queue a waiter; the first one sends a request.  *)
InitiateDirectoryAccess(c, op) ==
  LET first == waiters[c] = <<>>
      upgrade == op = "WRITE" /\ cstate[c] = "SHARED"
      type == IF upgrade THEN "UPGRADE_REQ" ELSE IF op = "WRITE" THEN "EX_REQ" ELSE "SH_REQ"
  IN
  /\ waiters' = [waiters EXCEPT ![c] = Append(@, op)]
  /\ IF first
       THEN /\ type = "EX_REQ" => cstate[c] = "INVALID"
            /\ toDir' = Send(toDir, c, Msg(type, NoData))
            /\ cstate' = [cstate EXCEPT ![c] = IF upgrade THEN "SHARED_UPGRADING" ELSE @]
       ELSE UNCHANGED <<toDir, cstate>>

Miss(c, op) ==
  /\ StackLockFree(c) /\ ThreadAvailable(c)
  /\ IF op = "WRITE" THEN cstate[c] \notin {"EXCLUSIVE", "MODIFIED"}
                     ELSE ~ Readable(cstate[c])
  /\ InitiateDirectoryAccess(c, op)
  /\ UNCHANGED <<cdata, serving, toCache, entryVars, dirVars, dramVars>>

-----------------------------------------------------------------------------
(* Last-level cache: the network thread, handleMsgFromDramDirectory.        *)

Receives(c, types) ==
  /\ serving[c] = "no"
  /\ toCache[c] # <<>>
  /\ Head(toCache[c]).type \in types

(* processExRep, processShRep: fill the line; the wake-up loop follows.     *)
RecvDataReply(c) ==
  /\ Receives(c, {"EX_REP", "SH_REP"})
  /\ waiters[c] # <<>>
  /\ LET m == Head(toCache[c]) IN
       /\ cstate' = [cstate EXCEPT ![c] = IF m.type = "EX_REP" THEN "EXCLUSIVE" ELSE "SHARED"]
       /\ cdata' = [cdata EXCEPT ![c] = m.data]
  /\ serving' = [serving EXCEPT ![c] = "locked"]
  /\ toCache' = [toCache EXCEPT ![c] = Tail(@)]
  /\ UNCHANGED <<waiters, toDir, entryVars, dirVars, dramVars>>

(* processUpgradeRep: only a line still SHARED_UPGRADING can be upgraded    *)
(* without data.                                                            *)
RecvUpgradeReply(c) ==
  /\ Receives(c, {"UPGRADE_REP"})
  /\ waiters[c] # <<>>
  /\ cstate[c] = "SHARED_UPGRADING"
  /\ cstate' = [cstate EXCEPT ![c] = "MODIFIED"]
  /\ serving' = [serving EXCEPT ![c] = "locked"]
  /\ toCache' = [toCache EXCEPT ![c] = Tail(@)]
  /\ UNCHANGED <<cdata, waiters, toDir, entryVars, dirVars, dramVars>>

(* One iteration of the wake-up loop.  A waiter that needs the line         *)
(* exclusive and finds it SHARED has an upgrade requested on its behalf.    *)
UpgradeForWaiter(c) ==
  /\ serving[c] = "locked" /\ waiters[c] # <<>>
  /\ Head(waiters[c]) = "WRITE" /\ cstate[c] = "SHARED"
  /\ cstate' = [cstate EXCEPT ![c] = "SHARED_UPGRADING"]
  /\ toDir' = Send(toDir, c, Msg("UPGRADE_REQ", NoData))
  /\ serving' = [serving EXCEPT ![c] = "no"]
  /\ UNCHANGED <<cdata, waiters, toCache, entryVars, dirVars, dramVars>>

(* Otherwise the waiter is woken and completes its access with the stack    *)
(* lock it was handed ...                                                   *)
WakeWaiter(c) ==
  /\ serving[c] = "locked" /\ waiters[c] # <<>>
  /\ IF Head(waiters[c]) = "WRITE"
       THEN /\ cstate[c] \in {"EXCLUSIVE", "MODIFIED"}
            /\ \E v \in Value : cdata' = [cdata EXCEPT ![c] = v]
            /\ cstate' = [cstate EXCEPT ![c] = "MODIFIED"]
       ELSE Readable(cstate[c]) /\ UNCHANGED <<cdata, cstate>>
  /\ serving' = [serving EXCEPT ![c] = "woken"]
  /\ UNCHANGED <<waiters, toDir, toCache, entryVars, dirVars, dramVars>>

(* ... and is dequeued once the network thread has the lock again.          *)
MutMoreWaiters(c) == waiters[c] # <<>>
MoreWaiters(c) == Len(waiters[c]) > 1

DequeueWaiter(c) ==
  /\ serving[c] = "woken" /\ waiters[c] # <<>>
  /\ waiters' = [waiters EXCEPT ![c] = Tail(@)]
  /\ serving' = [serving EXCEPT ![c] = IF MoreWaiters(c) THEN "locked" ELSE "no"]
  /\ UNCHANGED <<cstate, cdata, toDir, toCache, entryVars, dirVars, dramVars>>

(* processInvReq, processFlushReq: a valid line is dropped and the          *)
(* directory told; for an invalid one the eviction message is under way.    *)
RecvInvReq(c) ==
  /\ Receives(c, {"INV_REQ", "FLUSH_REQ"})
  /\ LET reply == IF Head(toCache[c]).type = "INV_REQ" THEN Msg("INV_REP", NoData)
                                                       ELSE Msg("FLUSH_REP", cdata[c])
     IN IF cstate[c] # "INVALID"
          THEN /\ cstate' = [cstate EXCEPT ![c] = "INVALID"]
               /\ toDir' = Send(toDir, c, reply)
          ELSE UNCHANGED <<cstate, toDir>>
  /\ toCache' = [toCache EXCEPT ![c] = Tail(@)]
  /\ UNCHANGED <<cdata, waiters, serving, entryVars, dirVars, dramVars>>

(* A line that is SHARED_UPGRADING stays so; any other becomes SHARED.      *)
MutDowngraded(s) == s
Downgraded(s) == IF s = "SHARED_UPGRADING" THEN s ELSE "SHARED"

(* processWbReq: the line is downgraded and its contents go to the          *)
(* directory.  For a line that is SHARED_UPGRADING nothing is copied into   *)
(* the local buffer, so the reply carries whatever the stack held.          *)
RecvWbReq(c) ==
  /\ Receives(c, {"WB_REQ"})
  /\ IF cstate[c] = "INVALID"
       THEN UNCHANGED <<cstate, toDir>>
       ELSE /\ \E v \in IF cstate[c] = "SHARED_UPGRADING" THEN Value ELSE {cdata[c]} :
                 toDir' = Send(toDir, c, Msg("WB_REP", v))
            /\ cstate' = [cstate EXCEPT ![c] = Downgraded(@)]
  /\ toCache' = [toCache EXCEPT ![c] = Tail(@)]
  /\ UNCHANGED <<cdata, waiters, serving, entryVars, dirVars, dramVars>>

(* CacheSet::isValidReplacement: no victim is SHARED_UPGRADING.             *)
Evictable(s) == s \notin {"INVALID", "SHARED_UPGRADING"}

(* insertCacheBlock of another line evicts this one.                        *)
Evict(c) ==
  /\ serving[c] = "no"
  /\ Evictable(cstate[c])
  /\ toDir' = Send(toDir, c, IF cstate[c] = "MODIFIED" THEN Msg("FLUSH_REP", cdata[c])
                                                       ELSE Msg("INV_REP", NoData))
  /\ cstate' = [cstate EXCEPT ![c] = "INVALID"]
  /\ UNCHANGED <<cdata, waiters, serving, toCache, entryVars, dirVars, dramVars>>

-----------------------------------------------------------------------------
(* Home directory.  A handler that ends by calling one of the process*      *)
(* functions leaves dpc = "process" (with the data it passes in dbuf), and  *)
(* the home thread does that call before it takes its next message.         *)

Arrives(c, types) ==
  /\ dpc = "idle"
  /\ toDir[c] # <<>>
  /\ Head(toDir[c]).type \in types

Consume(c) == toDir' = [toDir EXCEPT ![c] = Tail(@)]

(* The pending process* call, with the data it is given.                    *)
CallProcess(buf) == dpc' = "process" /\ dbuf' = buf

Return == dpc' = "idle" /\ dbuf' = NoData

(* ReqQueueListTemplate::enqueue                                            *)
MutEnqueue(q) == IF reqs = <<>> THEN <<q>> ELSE reqs
Enqueue(q) == Append(reqs, q)

(* handleMsgFromL2Cache: requests queue up; only the first is processed.    *)
DirRecvReq(c) ==
  /\ Arrives(c, ReqType)
  /\ Consume(c)
  /\ reqs' = Enqueue(NewReq(Head(toDir[c]).type, c))
  /\ IF reqs = <<>> THEN CallProcess(NoData) ELSE Return
  /\ UNCHANGED <<cacheVars, toCache, entryVars, dramVars>>

(* processNextReqFromL2Cache                                                *)
FinishReq(rest) ==
  /\ reqs' = Tail(rest)
  /\ IF Len(rest) > 1 THEN CallProcess(NoData) ELSE Return

Processing(type) == dpc = "process" /\ reqs # <<>> /\ Head(reqs).type = type

(* DramCntlrInterface::handleMsgFromTagDirectory.  The home directory's     *)
(* messages reach the DRAM controller in the order they are sent, so a read *)
(* returns the contents at the time of its request; its reply takes time.   *)
ReadDram == fromDram' = Append(fromDram, dram) /\ UNCHANGED dram

SendDataToDram(v) == dram' = v /\ UNCHANGED fromDram

(* retrieveDataAndSendToL2Cache: from the data at hand, from the forwarder  *)
(* (MESIF, once per request), or from DRAM.                                 *)
CanForward(ds) ==
  /\ Protocol = "MESIF" /\ ds = "SHARED"
  /\ Head(reqs).fwd = NoCore /\ forwarder # NoCore

RetrieveDataAndSend(reply, r, ds, buf) ==
  CASE buf # NoData ->
         /\ forwarder' = r
         /\ toCache' = Send(toCache, r, Msg(reply, buf))
         /\ FinishReq(reqs)
         /\ UNCHANGED dramVars
    [] buf = NoData /\ CanForward(ds) ->
         /\ reqs' = [reqs EXCEPT ![1].fwd = forwarder]
         /\ toCache' = Send(toCache, forwarder, Msg("WB_REQ", NoData))
         /\ Return
         /\ UNCHANGED <<forwarder, dramVars>>
    [] OTHER ->
         /\ reqs' = [reqs EXCEPT ![1].wait = TRUE]
         /\ ReadDram
         /\ Return
         /\ UNCHANGED <<forwarder, toCache>>

(* A process* function that only sends messages and waits for replies.      *)
AskCaches(channel) ==
  /\ toCache' = channel
  /\ Return
  /\ UNCHANGED <<reqs, entryVars, dramVars>>

ProcessExReq ==
  /\ Processing("EX_REQ")
  /\ LET r == Head(reqs).from IN
     \/ /\ dstate \in {"EXCLUSIVE", "MODIFIED"} /\ dbuf = NoData
        /\ AskCaches(Send(toCache, owner, Msg("FLUSH_REQ", NoData)))
     \/ /\ dstate = "SHARED" /\ dbuf = NoData
        /\ AskCaches(SendAll(sharers, Msg("INV_REQ", NoData)))
     \/ /\ dstate = "UNCACHED"
        /\ sharers' = sharers \cup {r} /\ owner' = r /\ dstate' = "MODIFIED"
        /\ RetrieveDataAndSend("EX_REP", r, "MODIFIED", dbuf)
  /\ UNCHANGED <<cacheVars, toDir>>

(* DirectoryEntryLimitedNoBroadcast::addSharer refuses beyond the limit.    *)
SharersFull == Cardinality(sharers) >= MaxHwSharers

ProcessShReq ==
  /\ Processing("SH_REQ")
  /\ LET r == Head(reqs).from IN
     \/ /\ dstate \in {"EXCLUSIVE", "MODIFIED"} /\ dbuf = NoData
        /\ dstate = "EXCLUSIVE" => r # owner
        /\ AskCaches(Send(toCache, owner, Msg("WB_REQ", NoData)))
     \/ /\ dstate = "SHARED" /\ r \in sharers   \* back from the forwarder
        /\ RetrieveDataAndSend("SH_REP", r, "SHARED", dbuf)
        /\ UNCHANGED <<dstate, sharers, owner>>
     \/ /\ dstate = "SHARED" /\ r \notin sharers /\ ~ SharersFull
        /\ sharers' = sharers \cup {r}
        /\ RetrieveDataAndSend("SH_REP", r, "SHARED", dbuf)
        /\ UNCHANGED <<dstate, owner>>
     \/ /\ dstate = "SHARED" /\ r \notin sharers /\ SharersFull
        /\ \E s \in sharers : AskCaches(Send(toCache, s, Msg("INV_REQ", NoData)))
     \/ /\ dstate = "UNCACHED"
        /\ sharers' = sharers \cup {r} /\ owner' = r
        /\ IF Protocol = "MSI"
             THEN dstate' = "SHARED" /\ RetrieveDataAndSend("SH_REP", r, "SHARED", dbuf)
             ELSE dstate' = "EXCLUSIVE" /\ RetrieveDataAndSend("EX_REP", r, "EXCLUSIVE", dbuf)
  /\ UNCHANGED <<cacheVars, toDir>>

(* The requester is the only sharer left, so it can take ownership.         *)
MutSoleSharer(r) == r \in sharers
SoleSharer(r) == sharers = {r}

SendUpgradeReply(r) ==
  /\ toCache' = Send(toCache, r, Msg("UPGRADE_REP", NoData))
  /\ dstate' = "MODIFIED" /\ owner' = r
  /\ FinishReq(reqs)
  /\ UNCHANGED <<sharers, forwarder, dramVars>>

(* The stored buffer belongs to a message that has been freed since, so     *)
(* what is read from it may be anything.                                    *)
ProcessUpgradeReq ==
  /\ Processing("UPGRADE_REQ")
  /\ LET r == Head(reqs).from IN
     \/ /\ dstate # "UNCACHED" /\ SoleSharer(r)
        /\ dstate \in {"EXCLUSIVE", "MODIFIED"} => owner = r
        /\ SendUpgradeReply(r)
     \/ /\ dstate \in {"EXCLUSIVE", "MODIFIED"} /\ r \notin sharers
        /\ AskCaches(Send(toCache, owner, Msg("FLUSH_REQ", NoData)))
     \/ /\ dstate = "SHARED" /\ r \in sharers /\ ~ SoleSharer(r)
        /\ AskCaches(SendAll(sharers \ {r}, Msg("INV_REQ", NoData)))
     \/ /\ dstate = "SHARED" /\ r \notin sharers   \* one sharer is flushed for its data
        /\ \E f \in sharers :
             AskCaches([c \in Cache |->
                IF c = f THEN Append(toCache[c], Msg("FLUSH_REQ", NoData))
                         ELSE SendAll(sharers, Msg("INV_REQ", NoData))[c]])
     \/ /\ dstate = "UNCACHED"
        /\ sharers' = sharers \cup {r} /\ owner' = r /\ dstate' = "MODIFIED"
        /\ IF dbuf = NoData /\ Head(reqs).stored
             THEN \E v \in Value : RetrieveDataAndSend("EX_REP", r, "MODIFIED", v)
             ELSE RetrieveDataAndSend("EX_REP", r, "MODIFIED", dbuf)
  /\ UNCHANGED <<cacheVars, toDir>>

(* processNullifyReq: take the line from every cache, then delete the       *)
(* entry.  The next request for the line gets a new one.                    *)
ProcessNullifyReq ==
  /\ Processing("NULLIFY_REQ")
  /\ \/ /\ dstate \in {"EXCLUSIVE", "MODIFIED"}
        /\ AskCaches(Send(toCache, owner, Msg("FLUSH_REQ", NoData)))
     \/ /\ dstate = "SHARED"
        /\ AskCaches(SendAll(sharers, Msg("INV_REQ", NoData)))
     \/ /\ dstate = "UNCACHED"
        /\ owner' = NoCore /\ forwarder' \in Core
        /\ FinishReq(reqs)
        /\ UNCHANGED <<dstate, sharers, toCache, dramVars>>
  /\ UNCHANGED <<cacheVars, toDir>>

(* processDirectoryEntryAllocationReq for another line picks this entry; it *)
(* only takes entries without outstanding requests.                         *)
DirReplaceEntry ==
  /\ dpc = "idle" /\ reqs = <<>>
  /\ reqs' = <<NewReq("NULLIFY_REQ", NoCore)>>
  /\ CallProcess(NoData)
  /\ UNCHANGED <<cacheVars, toDir, toCache, entryVars, dramVars>>

-----------------------------------------------------------------------------
(* Home directory: replies from caches and from DRAM.                       *)

ExpectsInvRep(c) == dstate \in {"SHARED", "EXCLUSIVE"} /\ c \in sharers

(* Whether the request at the front goes on after an INV_REP from c that    *)
(* leaves the sharers left.                                                 *)
InvRepWakes(c, left) ==
  LET q == Head(reqs) IN
  /\ reqs # <<>>
  /\ CASE q.type = "UPGRADE_REQ" -> left = {} \/ left = {q.from}
       [] q.type = "SH_REQ" -> ~ q.wait /\ (q.fwd # NoCore => c = q.fwd)
       [] OTHER -> left = {}

ForwarderAfter(c) == IF forwarder = c THEN NoCore ELSE forwarder

ProcessInvRep(c) ==
  /\ Arrives(c, {"INV_REP"})
  /\ ExpectsInvRep(c)
  /\ Consume(c)
  /\ sharers' = sharers \ {c}
  /\ forwarder' = ForwarderAfter(c)
  /\ dstate' = IF sharers' = {} THEN "UNCACHED" ELSE dstate
  /\ IF InvRepWakes(c, sharers') THEN CallProcess(NoData) ELSE Return
  /\ UNCHANGED <<cacheVars, toCache, owner, reqs, dramVars>>

ExpectsFlushRep(c) == c \in sharers /\ (sharers = {c} \/ dstate = "SHARED")

ProcessFlushRep(c) ==
  /\ Arrives(c, {"FLUSH_REP"})
  /\ ExpectsFlushRep(c)
  /\ Consume(c)
  /\ sharers' = sharers \ {c}
  /\ forwarder' = NoCore
  /\ owner' = NoCore
  /\ dstate' = IF sharers' = {} THEN "UNCACHED" ELSE dstate
  /\ LET v == Head(toDir[c]).data
         front == IF reqs = <<>> THEN "none" ELSE Head(reqs).type
     IN \/ /\ front = "EX_REQ"
           /\ CallProcess(v) /\ UNCHANGED <<reqs, dramVars>>
        \/ /\ front = "SH_REQ"
           /\ SendDataToDram(v) /\ CallProcess(v) /\ UNCHANGED reqs
        \/ /\ front = "UPGRADE_REQ"
           /\ IF sharers' = {}
                THEN CallProcess(v) /\ UNCHANGED reqs
                ELSE Return /\ reqs' = [reqs EXCEPT ![1].stored = TRUE]
           /\ UNCHANGED dramVars
        \/ /\ front = "NULLIFY_REQ"
           /\ SendDataToDram(v) /\ CallProcess(NoData) /\ UNCHANGED reqs
        \/ /\ front = "none"
           /\ SendDataToDram(v) /\ Return /\ UNCHANGED reqs
  /\ UNCHANGED <<cacheVars, toCache>>

ExpectsWbRep(c) == c \in sharers /\ reqs # <<>> /\ Head(reqs).type = "SH_REQ"

ProcessWbRep(c) ==
  /\ Arrives(c, {"WB_REP"})
  /\ ExpectsWbRep(c)
  /\ Consume(c)
  /\ owner' = NoCore
  /\ dstate' = "SHARED"
  /\ CallProcess(Head(toDir[c]).data)
  /\ UNCHANGED <<cacheVars, toCache, sharers, forwarder, reqs, dramVars>>

ExpectsDramReply ==
  /\ reqs # <<>>
  /\ CASE Head(reqs).type = "SH_REQ" -> dstate \in {"SHARED", "EXCLUSIVE"}
       [] Head(reqs).type = "EX_REQ" -> dstate = "MODIFIED"
       [] Head(reqs).type = "UPGRADE_REQ" -> TRUE
       [] OTHER -> FALSE

ProcessDRAMReply ==
  /\ dpc = "idle" /\ fromDram # <<>>
  /\ ExpectsDramReply
  /\ fromDram' = Tail(fromDram)
  /\ LET q == Head(reqs)
         type == IF q.type = "SH_REQ" /\ dstate = "SHARED" THEN "SH_REP" ELSE "EX_REP"
     IN toCache' = Send(toCache, q.from, Msg(type, Head(fromDram)))
  /\ FinishReq(reqs)
  /\ UNCHANGED <<cacheVars, toDir, entryVars, dram>>

-----------------------------------------------------------------------------
UserThread(c) == WriteHit(c) \/ \E op \in MemOp : Miss(c, op)

NetworkThread(c) ==
  \/ RecvDataReply(c) \/ RecvUpgradeReply(c)
  \/ UpgradeForWaiter(c) \/ WakeWaiter(c) \/ DequeueWaiter(c)
  \/ RecvInvReq(c) \/ RecvWbReq(c)

HomeProcess ==
  ProcessExReq \/ ProcessShReq \/ ProcessUpgradeReq \/ ProcessNullifyReq

HomeReceive(c) ==
  DirRecvReq(c) \/ ProcessInvRep(c) \/ ProcessFlushRep(c) \/ ProcessWbRep(c)

Next ==
  \/ \E c \in Cache : UserThread(c) \/ NetworkThread(c) \/ Evict(c) \/ HomeReceive(c)
  \/ HomeProcess \/ ProcessDRAMReply \/ DirReplaceEntry

Spec == Init /\ [][Next]_vars

(* Each simulation thread keeps taking the messages of its queue.  The home *)
(* takes them in the order they came, so that messages for other lines      *)
(* cannot overtake one for this line for ever: strong fairness.             *)
Fairness ==
  /\ \A c \in Cache : WF_vars(NetworkThread(c)) /\ SF_vars(HomeReceive(c))
  /\ WF_vars(HomeProcess) /\ SF_vars(ProcessDRAMReply)

FairSpec == Spec /\ Fairness

-----------------------------------------------------------------------------
(* Single writer, multiple readers: while one last-level cache may write    *)
(* the line without asking (EXCLUSIVE, MODIFIED), no other holds a copy.    *)
SingleWriter ==
  \A c \in Cache : cstate[c] \in {"EXCLUSIVE", "MODIFIED"} =>
     \A d \in Cache \ {c} : cstate[d] = "INVALID"

(* The directory entry never contradicts itself: a line is UNCACHED exactly *)
(* when it has no sharer, and an EXCLUSIVE or MODIFIED line has its owner   *)
(* as its only sharer.  The FLUSH_REQ and WB_REQ sent to getOwner() rely on *)
(* this.                                                                    *)
EntryWellFormed ==
  /\ (dstate = "UNCACHED") <=> (sharers = {})
  /\ dstate \in {"EXCLUSIVE", "MODIFIED"} => sharers = {owner}

(* The directory knows of every copy, and knows every cache that may write  *)
(* silently as the owner, whatever evictions and requests are in flight.    *)
DirectoryPrecise ==
  \A c \in Cache :
     /\ cstate[c] # "INVALID" => c \in sharers
     /\ cstate[c] \in {"EXCLUSIVE", "MODIFIED"} =>
          dstate \in {"EXCLUSIVE", "MODIFIED"} /\ owner = c

(* No assert or LOG_ASSERT_ERROR of the handlers fails: replies, requests   *)
(* and evictions never cross in an order the directory or a cache is not    *)
(* prepared for.                                                            *)
DirectoryAssertionsHold ==
  /\ dpc = "idle" =>
       /\ fromDram # <<>> => ExpectsDramReply
       /\ \A c \in Cache : toDir[c] # <<>> =>
            CASE Head(toDir[c]).type = "INV_REP" -> ExpectsInvRep(c)
              [] Head(toDir[c]).type = "FLUSH_REP" -> ExpectsFlushRep(c)
              [] Head(toDir[c]).type = "WB_REP" -> ExpectsWbRep(c)
              [] OTHER -> TRUE
  /\ dpc = "process" =>
       CASE Head(reqs).type = "EX_REQ" -> dstate # "UNCACHED" => dbuf = NoData
         [] Head(reqs).type = "SH_REQ" -> dstate \in {"EXCLUSIVE", "MODIFIED"} =>
                                            dbuf = NoData /\ Head(reqs).from # owner
         [] Head(reqs).type = "UPGRADE_REQ" ->
              dstate \in {"EXCLUSIVE", "MODIFIED"} => Head(reqs).from \notin sharers
         [] OTHER -> TRUE

(* A reply always finds the thread that asked still queued, and an          *)
(* UPGRADE_REP finds the line still SHARED_UPGRADING: an upgrade whose copy *)
(* was invalidated meanwhile is answered with data.                         *)
RepliesExpected ==
  \A c \in Cache : toCache[c] # <<>> /\ Head(toCache[c]).type \in ReplyType =>
     /\ waiters[c] # <<>>
     /\ IF Head(toCache[c]).type = "UPGRADE_REP" THEN cstate[c] = "SHARED_UPGRADING"
                                                 ELSE cstate[c] = "INVALID"

(* The wake-up loop always has a waiter at hand, with the line in a state   *)
(* in which its access hits, or in which an upgrade can be asked for on its *)
(* behalf; once woken, a write has its line MODIFIED until it is dequeued:  *)
(* the LOG_ASSERT_ERROR after the refill in processMemOpFromCore.           *)
WokenWaiterHits ==
  \A c \in Cache : serving[c] # "no" =>
     /\ waiters[c] # <<>> /\ Readable(cstate[c])
     /\ serving[c] = "woken" /\ Head(waiters[c]) = "WRITE" => cstate[c] = "MODIFIED"

(* MESIF: data is only ever asked of a cache that is still recorded as a    *)
(* sharer, although the constructor leaves m_forwarder_id unset.            *)
ForwarderIsSharer ==
  Protocol = "MESIF" /\ dstate = "SHARED" /\ dpc = "idle" /\ forwarder # NoCore
     => forwarder \in sharers

(* The entry never holds more sharers than its hardware pointers: room is   *)
(* made by invalidating one before another is added, also when requests,    *)
(* evictions and the invalidation cross.                                    *)
SharersWithinLimit == Cardinality(sharers) <= MaxHwSharers

(* No thread is left waiting: as long as a cache has waiters for the line,  *)
(* it keeps waking them, in the order they queued.                          *)
WaitersServed ==
  \A c \in Cache : <>[](waiters[c] # <<>>) => []<><<WakeWaiter(c)>>_vars
=============================================================================
