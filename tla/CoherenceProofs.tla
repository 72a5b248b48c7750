-------------------------- MODULE CoherenceProofs ---------------------------
(* Proofs about the directory protocol, for any number of caches, any of    *)
(* the three protocols and any limit on the sharers.                        *)
EXTENDS Coherence, TLAPS

-----------------------------------------------------------------------------
(* Appending a message to one channel of a family keeps the family's type:  *)
(* MemoryManager::sendMsg.                                                  *)
LEMMA SendType ==
  ASSUME NEW S, NEW channel \in [Cache -> Seq(S)], NEW c \in Cache, NEW m \in S
  PROVE  Send(channel, c, m) \in [Cache -> Seq(S)]
BY DEF Send

(* Taking the first message from a channel keeps the family's type.         *)
LEMMA TailType ==
  ASSUME NEW S, NEW channel \in [Cache -> Seq(S)], NEW c \in Cache, channel[c] # <<>>
  PROVE  [channel EXCEPT ![c] = Tail(@)] \in [Cache -> Seq(S)]
OBVIOUS

(* A multicast of one message keeps the type of the channels to the caches. *)
LEMMA SendAllType ==
  ASSUME TypeOK, NEW C \in SUBSET Cache, NEW m \in DirMsg
  PROVE  SendAll(C, m) \in [Cache -> Seq(DirMsg)]
BY DEF SendAll, TypeOK

(* The message constructor builds messages of either direction.             *)
LEMMA MsgType ==
  /\ \A t \in {"EX_REP", "SH_REP"}, v \in Value : Msg(t, v) \in DirMsg
  /\ \A t \in {"UPGRADE_REP", "INV_REQ", "FLUSH_REQ", "WB_REQ"} : Msg(t, NoData) \in DirMsg
  /\ \A t \in {"FLUSH_REP", "WB_REP"}, v \in Value : Msg(t, v) \in CacheMsg
  /\ \A t \in ReqType \cup {"INV_REP"} : Msg(t, NoData) \in CacheMsg
BY DEF Msg, DirMsg, CacheMsg

(* The initial states are well typed.                                       *)
LEMMA InitType == Init => TypeOK
BY DataAssumption, CoreAssumption DEF Init, TypeOK, CState, DState, Core, Buffer

(* Steps of the user threads keep the state well typed.                     *)
LEMMA UserThreadType ==
  ASSUME TypeOK, NEW c \in Cache, UserThread(c)
  PROVE  TypeOK'
<1>1. CASE WriteHit(c)
  BY <1>1 DEF WriteHit, TypeOK, CState, entryVars, dirVars, dramVars
<1>2. ASSUME NEW op \in MemOp, Miss(c, op)
      PROVE  TypeOK'
  <2>1. toDir' \in [Cache -> Seq(CacheMsg)]
    <3>1. Msg("UPGRADE_REQ", NoData) \in CacheMsg /\ Msg("EX_REQ", NoData) \in CacheMsg
          /\ Msg("SH_REQ", NoData) \in CacheMsg
      BY MsgType DEF ReqType
    <3>2. \A m \in CacheMsg : Send(toDir, c, m) \in [Cache -> Seq(CacheMsg)]
      BY SendType DEF TypeOK
    <3> QED BY <1>2, <3>1, <3>2 DEF Miss, InitiateDirectoryAccess, TypeOK
  <2>2. cstate' \in [Cache -> CState]
    BY <1>2 DEF Miss, InitiateDirectoryAccess, TypeOK, CState
  <2>3. waiters' \in [Cache -> Seq(MemOp)]
    BY <1>2 DEF Miss, InitiateDirectoryAccess, TypeOK
  <2> QED BY <1>2, <2>1, <2>2, <2>3 DEF Miss, TypeOK, entryVars, dirVars, dramVars
<1> QED BY <1>1, <1>2 DEF UserThread

(* The message at the front of a channel is a message.                      *)
LEMMA HeadType ==
  ASSUME NEW S, NEW channel \in [Cache -> Seq(S)], NEW c \in Cache, channel[c] # <<>>
  PROVE  Head(channel[c]) \in S
OBVIOUS

(* Steps of a cache's network thread keep the state well typed.             *)
LEMMA NetworkThreadType ==
  ASSUME TypeOK, NEW c \in Cache, NetworkThread(c)
  PROVE  TypeOK'
<1> USE DEF TypeOK, entryVars, dirVars, dramVars
<1>1. CASE RecvDataReply(c)
  <2>1. Head(toCache[c]).data \in Value
    <3>1. Head(toCache[c]) \in DirMsg
      BY <1>1, HeadType DEF RecvDataReply, Receives
    <3> QED BY <1>1, <3>1 DEF RecvDataReply, Receives, DirMsg
  <2>2. toCache' \in [Cache -> Seq(DirMsg)]
    BY <1>1, TailType DEF RecvDataReply, Receives
  <2>3. cstate' \in [Cache -> CState]
    BY <1>1 DEF RecvDataReply, CState
  <2> QED BY <1>1, <2>1, <2>2, <2>3 DEF RecvDataReply
<1>2. CASE RecvUpgradeReply(c)
  <2>1. toCache' \in [Cache -> Seq(DirMsg)]
    BY <1>2, TailType DEF RecvUpgradeReply, Receives
  <2> QED BY <1>2, <2>1 DEF RecvUpgradeReply, CState
<1>3. CASE UpgradeForWaiter(c)
  <2>1. toDir' \in [Cache -> Seq(CacheMsg)]
    BY <1>3, SendType, MsgType DEF UpgradeForWaiter, ReqType
  <2> QED BY <1>3, <2>1 DEF UpgradeForWaiter, CState
<1>4. CASE WakeWaiter(c)
  BY <1>4 DEF WakeWaiter, CState
<1>5. CASE DequeueWaiter(c)
  BY <1>5, TailType DEF DequeueWaiter
<1>6. CASE RecvInvReq(c)
  <2>1. Msg("INV_REP", NoData) \in CacheMsg /\ Msg("FLUSH_REP", cdata[c]) \in CacheMsg
    BY MsgType
  <2>2. toDir' \in [Cache -> Seq(CacheMsg)]
    <3>1. \A m \in CacheMsg : Send(toDir, c, m) \in [Cache -> Seq(CacheMsg)]
      BY SendType
    <3> QED BY <1>6, <2>1, <3>1 DEF RecvInvReq
  <2>3. toCache' \in [Cache -> Seq(DirMsg)]
    BY <1>6, TailType DEF RecvInvReq, Receives
  <2>4. cstate' \in [Cache -> CState]
    BY <1>6 DEF RecvInvReq, CState
  <2> QED BY <1>6, <2>2, <2>3, <2>4 DEF RecvInvReq
<1>7. CASE RecvWbReq(c)
  <2>1. \A v \in Value : Msg("WB_REP", v) \in CacheMsg
    BY MsgType
  <2>2. toDir' \in [Cache -> Seq(CacheMsg)]
    <3>1. CASE cstate[c] = "INVALID"
      BY <1>7, <3>1 DEF RecvWbReq
    <3>2. CASE cstate[c] # "INVALID"
      <4>1. PICK v \in Value : toDir' = Send(toDir, c, Msg("WB_REP", v))
        BY <1>7, <3>2 DEF RecvWbReq
      <4> QED BY <2>1, <4>1, SendType
    <3> QED BY <3>1, <3>2
  <2>3. toCache' \in [Cache -> Seq(DirMsg)]
    BY <1>7, TailType DEF RecvWbReq, Receives
  <2>4. cstate' \in [Cache -> CState]
    BY <1>7 DEF RecvWbReq, Downgraded, CState
  <2> QED BY <1>7, <2>2, <2>3, <2>4 DEF RecvWbReq
<1> QED BY <1>1, <1>2, <1>3, <1>4, <1>5, <1>6, <1>7 DEF NetworkThread

(* An eviction keeps the state well typed.                                  *)
LEMMA EvictType ==
  ASSUME TypeOK, NEW c \in Cache, Evict(c)
  PROVE  TypeOK'
<1>1. Msg("INV_REP", NoData) \in CacheMsg /\ Msg("FLUSH_REP", cdata[c]) \in CacheMsg
  BY MsgType DEF TypeOK
<1>2. toDir' \in [Cache -> Seq(CacheMsg)]
  BY <1>1, SendType DEF Evict, TypeOK
<1> QED BY <1>2 DEF Evict, TypeOK, CState, entryVars, dirVars, dramVars

-----------------------------------------------------------------------------
(* New requests are requests, and so is the one at the front of the queue.  *)
LEMMA NewReqType ==
  /\ \A t \in ReqType, c \in Cache : NewReq(t, c) \in ShmemReq
  /\ NewReq("NULLIFY_REQ", NoCore) \in ShmemReq
BY CoreAssumption DEF NewReq, ShmemReq, ReqType, Core

(* Marking the front request as waiting, forwarded or with stored data      *)
(* keeps the queue a queue of requests.                                     *)
LEMMA MarkReqType ==
  ASSUME TypeOK, reqs # <<>>
  PROVE  /\ [reqs EXCEPT ![1].wait = TRUE] \in Seq(ShmemReq)
         /\ [reqs EXCEPT ![1].stored = TRUE] \in Seq(ShmemReq)
         /\ \A f \in Core : [reqs EXCEPT ![1].fwd = f] \in Seq(ShmemReq)
<1>1. reqs[1] \in ShmemReq /\ 1 \in 1..Len(reqs)
  BY DEF TypeOK
<1>2. [reqs[1] EXCEPT !.wait = TRUE] \in ShmemReq
  BY <1>1 DEF ShmemReq
<1>3. [reqs[1] EXCEPT !.stored = TRUE] \in ShmemReq
  BY <1>1 DEF ShmemReq
<1>4. \A f \in Core : [reqs[1] EXCEPT !.fwd = f] \in ShmemReq
  BY <1>1 DEF ShmemReq
<1>5. \A q \in ShmemReq : [reqs EXCEPT ![1] = q] \in Seq(ShmemReq)
  BY <1>1 DEF TypeOK
<1> QED BY <1>1, <1>2, <1>3, <1>4, <1>5 DEF TypeOK

(* processNextReqFromL2Cache keeps the request queue well typed.            *)
LEMMA FinishReqType ==
  ASSUME TypeOK, reqs # <<>>, FinishReq(reqs)
  PROVE  reqs' \in Seq(ShmemReq) /\ dpc' \in {"idle", "process"} /\ dbuf' \in Buffer
BY DEF TypeOK, FinishReq, CallProcess, Return, Buffer

(* retrieveDataAndSendToL2Cache keeps what it touches well typed.           *)
LEMMA RetrieveType ==
  ASSUME TypeOK, reqs # <<>>, NEW reply \in {"EX_REP", "SH_REP"}, NEW r \in Cache,
         NEW ds, NEW buf \in Buffer, RetrieveDataAndSend(reply, r, ds, buf)
  PROVE  /\ reqs' \in Seq(ShmemReq) /\ dpc' \in {"idle", "process"} /\ dbuf' \in Buffer
         /\ toCache' \in [Cache -> Seq(DirMsg)]
         /\ forwarder' \in Core
         /\ fromDram' \in Seq(Value) /\ dram' \in Value
<1>1. CASE buf # NoData
  <2>1. toCache' = Send(toCache, r, Msg(reply, buf)) /\ forwarder' = r
        /\ FinishReq(reqs) /\ UNCHANGED dramVars
    BY <1>1 DEF RetrieveDataAndSend
  <2>2. Msg(reply, buf) \in DirMsg
    BY <1>1, MsgType DEF Buffer
  <2>3. toCache' \in [Cache -> Seq(DirMsg)]
    BY <2>1, <2>2, SendType DEF TypeOK
  <2> QED BY <2>1, <2>3, FinishReqType DEF TypeOK, dramVars, Core
<1>2. CASE buf = NoData /\ CanForward(ds)
  <2>1. /\ reqs' = [reqs EXCEPT ![1].fwd = forwarder]
        /\ toCache' = Send(toCache, forwarder, Msg("WB_REQ", NoData))
        /\ Return /\ UNCHANGED <<forwarder, dramVars>>
    BY <1>2 DEF RetrieveDataAndSend
  <2>2. forwarder \in Cache
    BY <1>2 DEF CanForward, TypeOK, Core
  <2>3. toCache' \in [Cache -> Seq(DirMsg)]
    BY <2>1, <2>2, MsgType, SendType DEF TypeOK
  <2>4. reqs' \in Seq(ShmemReq)
    BY <2>1, MarkReqType DEF TypeOK
  <2> QED BY <2>1, <2>3, <2>4 DEF TypeOK, dramVars, Return, Buffer
<1>3. CASE buf = NoData /\ ~ CanForward(ds)
  <2>1. /\ reqs' = [reqs EXCEPT ![1].wait = TRUE]
        /\ ReadDram /\ Return /\ UNCHANGED <<forwarder, toCache>>
    BY <1>3 DEF RetrieveDataAndSend
  <2>2. reqs' \in Seq(ShmemReq)
    BY <2>1, MarkReqType
  <2> QED BY <2>1, <2>2 DEF TypeOK, ReadDram, Return, Buffer
<1> QED BY <1>1, <1>2, <1>3

(* The front request of a cache names the cache that sent it.               *)
LEMMA RequesterType ==
  ASSUME TypeOK, NEW t \in ReqType, Processing(t)
  PROVE  Head(reqs).from \in Cache /\ reqs # <<>>
<1>1. Head(reqs) \in ShmemReq /\ reqs # <<>> /\ Head(reqs).type = t
  BY DEF TypeOK, Processing
<1> QED BY <1>1 DEF ShmemReq, ReqType, Core

(* Asking caches for copies or data keeps the state well typed.             *)
LEMMA AskCachesType ==
  ASSUME TypeOK, NEW channel \in [Cache -> Seq(DirMsg)], AskCaches(channel),
         UNCHANGED <<cacheVars, toDir>>
  PROVE  TypeOK'
BY DEF AskCaches, Return, TypeOK, cacheVars, entryVars, dramVars, Buffer

(* A well-formed entry in EXCLUSIVE or MODIFIED state has a cache as owner, *)
(* so that the messages to getOwner() go to a cache.                        *)
LEMMA OwnerIsCache ==
  ASSUME TypeOK, EntryWellFormed, dstate \in {"EXCLUSIVE", "MODIFIED"}
  PROVE  owner \in Cache
BY DEF TypeOK, EntryWellFormed

(* One request to one cache, or to several, is a legal use of AskCaches.    *)
LEMMA AskedType ==
  ASSUME TypeOK
  PROVE  /\ \A c \in Cache, t \in {"INV_REQ", "FLUSH_REQ", "WB_REQ"} :
              Send(toCache, c, Msg(t, NoData)) \in [Cache -> Seq(DirMsg)]
         /\ \A C \in SUBSET Cache :
              SendAll(C, Msg("INV_REQ", NoData)) \in [Cache -> Seq(DirMsg)]
<1>1. ASSUME NEW c \in Cache, NEW t \in {"INV_REQ", "FLUSH_REQ", "WB_REQ"}
      PROVE  Send(toCache, c, Msg(t, NoData)) \in [Cache -> Seq(DirMsg)]
  BY MsgType, SendType DEF TypeOK
<1>2. ASSUME NEW C \in SUBSET Cache
      PROVE  SendAll(C, Msg("INV_REQ", NoData)) \in [Cache -> Seq(DirMsg)]
  BY MsgType, SendAllType
<1> QED BY <1>1, <1>2

(* processExReqFromL2Cache keeps the state well typed.                      *)
LEMMA ProcessExReqType ==
  ASSUME TypeOK, EntryWellFormed, ProcessExReq
  PROVE  TypeOK'
<1> DEFINE r == Head(reqs).from
<1>1. r \in Cache /\ reqs # <<>>
  BY RequesterType DEF ProcessExReq, ReqType
<1>2. CASE dstate \in {"EXCLUSIVE", "MODIFIED"}
  BY <1>2, OwnerIsCache, AskedType, AskCachesType DEF ProcessExReq
<1>3. CASE dstate = "SHARED"
  <2>1. sharers \in SUBSET Cache
    BY DEF TypeOK
  <2> QED BY <1>3, <2>1, AskedType, AskCachesType DEF ProcessExReq
<1>4. CASE dstate = "UNCACHED"
  <2>1. /\ RetrieveDataAndSend("EX_REP", r, "MODIFIED", dbuf)
        /\ sharers' = sharers \cup {r} /\ owner' = r /\ dstate' = "MODIFIED"
        /\ UNCHANGED <<cacheVars, toDir>>
    BY <1>4 DEF ProcessExReq
  <2>2. dbuf \in Buffer
    BY DEF TypeOK
  <2> HIDE DEF r
  <2> QED BY <1>1, <2>1, <2>2, RetrieveType DEF TypeOK, cacheVars, DState, Core
<1> QED BY <1>2, <1>3, <1>4 DEF TypeOK, DState

(* processShReqFromL2Cache keeps the state well typed.                      *)
LEMMA ProcessShReqType ==
  ASSUME TypeOK, EntryWellFormed, ProcessShReq
  PROVE  TypeOK'
<1> DEFINE r == Head(reqs).from
<1>1. r \in Cache /\ reqs # <<>> /\ dbuf \in Buffer /\ sharers \in SUBSET Cache
  BY RequesterType DEF ProcessShReq, ReqType, TypeOK
<1>2. CASE dstate \in {"EXCLUSIVE", "MODIFIED"}
  BY <1>2, OwnerIsCache, AskedType, AskCachesType DEF ProcessShReq
<1>3. CASE dstate = "SHARED" /\ r \notin sharers /\ SharersFull
  <2>1. PICK s \in sharers : AskCaches(Send(toCache, s, Msg("INV_REQ", NoData)))
    BY <1>3 DEF ProcessShReq
  <2>2. UNCHANGED <<cacheVars, toDir>>
    BY DEF ProcessShReq
  <2> QED BY <1>1, <2>1, <2>2, AskedType, AskCachesType
<1>4. CASE dstate = "SHARED" /\ (r \in sharers \/ ~ SharersFull)
  <2>1. /\ RetrieveDataAndSend("SH_REP", r, "SHARED", dbuf)
        /\ sharers' \in {sharers, sharers \cup {r}} /\ UNCHANGED <<dstate, owner>>
        /\ UNCHANGED <<cacheVars, toDir>>
    BY <1>4 DEF ProcessShReq
  <2> HIDE DEF r
  <2> QED BY <1>1, <2>1, RetrieveType DEF TypeOK, cacheVars
<1>5. CASE dstate = "UNCACHED"
  <2>1. PICK reply \in {"EX_REP", "SH_REP"}, ds \in {"SHARED", "EXCLUSIVE"} :
           RetrieveDataAndSend(reply, r, ds, dbuf) /\ dstate' = ds
    BY <1>5 DEF ProcessShReq
  <2>2. sharers' = sharers \cup {r} /\ owner' = r /\ UNCHANGED <<cacheVars, toDir>>
    BY <1>5 DEF ProcessShReq
  <2> HIDE DEF r
  <2> QED BY <1>1, <2>1, <2>2, RetrieveType DEF TypeOK, cacheVars, DState, Core
<1> QED BY <1>2, <1>3, <1>4, <1>5 DEF TypeOK, DState

(* processUpgradeReqFromL2Cache keeps the state well typed.                 *)
LEMMA ProcessUpgradeReqType ==
  ASSUME TypeOK, EntryWellFormed, ProcessUpgradeReq
  PROVE  TypeOK'
<1> DEFINE r == Head(reqs).from
<1>1. r \in Cache /\ reqs # <<>> /\ dbuf \in Buffer /\ sharers \in SUBSET Cache
      /\ UNCHANGED <<cacheVars, toDir>>
  BY RequesterType DEF ProcessUpgradeReq, ReqType, TypeOK
<1>2. CASE dstate # "UNCACHED" /\ SoleSharer(r)
  <2>1. SendUpgradeReply(r)
    BY <1>2 DEF ProcessUpgradeReq, SoleSharer
  <2> HIDE DEF r
  <2>2. toCache' \in [Cache -> Seq(DirMsg)]
    BY <1>1, <2>1, MsgType, SendType DEF SendUpgradeReply, TypeOK
  <2>3. reqs' \in Seq(ShmemReq) /\ dpc' \in {"idle", "process"} /\ dbuf' \in Buffer
    BY <1>1, <2>1, FinishReqType DEF SendUpgradeReply
  <2> QED BY <1>1, <2>1, <2>2, <2>3
          DEF SendUpgradeReply, TypeOK, cacheVars, dramVars, DState, Core
<1>3. CASE dstate \in {"EXCLUSIVE", "MODIFIED"} /\ ~ SoleSharer(r)
  <2>1. AskCaches(Send(toCache, owner, Msg("FLUSH_REQ", NoData)))
    BY <1>3 DEF ProcessUpgradeReq
  <2> QED BY <1>1, <1>3, <2>1, OwnerIsCache, AskedType, AskCachesType
<1>4. CASE dstate = "SHARED" /\ r \in sharers /\ ~ SoleSharer(r)
  <2>1. AskCaches(SendAll(sharers \ {r}, Msg("INV_REQ", NoData)))
    BY <1>4 DEF ProcessUpgradeReq
  <2>2. sharers \ {r} \in SUBSET Cache
    BY <1>1
  <2> QED BY <1>1, <2>1, <2>2, AskedType, AskCachesType
<1>5. CASE dstate = "SHARED" /\ r \notin sharers
  <2> DEFINE flushed(f) == [c \in Cache |->
                IF c = f THEN Append(toCache[c], Msg("FLUSH_REQ", NoData))
                         ELSE SendAll(sharers, Msg("INV_REQ", NoData))[c]]
  <2>1. PICK f \in sharers : AskCaches(flushed(f))
    BY <1>5 DEF ProcessUpgradeReq, SoleSharer
  <2>2. SendAll(sharers, Msg("INV_REQ", NoData)) \in [Cache -> Seq(DirMsg)]
    BY <1>1, AskedType
  <2>3. flushed(f) \in [Cache -> Seq(DirMsg)]
    <3>1. ASSUME NEW c \in Cache PROVE flushed(f)[c] \in Seq(DirMsg)
      <4>1. Msg("FLUSH_REQ", NoData) \in DirMsg
        BY MsgType
      <4> QED BY <2>2, <4>1 DEF TypeOK
    <3> QED BY <3>1
  <2> HIDE DEF flushed
  <2> QED BY <1>1, <2>1, <2>3, AskCachesType
<1>6. CASE dstate = "UNCACHED"
  <2>1. PICK buf \in Buffer : RetrieveDataAndSend("EX_REP", r, "MODIFIED", buf)
    BY <1>1, <1>6 DEF ProcessUpgradeReq, Buffer
  <2>2. sharers' = sharers \cup {r} /\ owner' = r /\ dstate' = "MODIFIED"
    BY <1>6 DEF ProcessUpgradeReq
  <2> HIDE DEF r
  <2> QED BY <1>1, <2>1, <2>2, RetrieveType DEF TypeOK, cacheVars, DState, Core
<1> QED BY <1>2, <1>3, <1>4, <1>5, <1>6 DEF TypeOK, DState, SoleSharer

(* processNullifyReq keeps the state well typed.                            *)
LEMMA ProcessNullifyReqType ==
  ASSUME TypeOK, EntryWellFormed, ProcessNullifyReq
  PROVE  TypeOK'
<1>1. UNCHANGED <<cacheVars, toDir>> /\ sharers \in SUBSET Cache /\ reqs # <<>>
  BY DEF ProcessNullifyReq, Processing, TypeOK
<1>2. CASE dstate \in {"EXCLUSIVE", "MODIFIED"}
  BY <1>1, <1>2, OwnerIsCache, AskedType, AskCachesType DEF ProcessNullifyReq
<1>3. CASE dstate = "SHARED"
  BY <1>1, <1>3, AskedType, AskCachesType DEF ProcessNullifyReq
<1>4. CASE dstate = "UNCACHED"
  <2>1. FinishReq(reqs) /\ owner' = NoCore /\ forwarder' \in Core
        /\ UNCHANGED <<dstate, sharers, toCache, dramVars>>
    BY <1>4 DEF ProcessNullifyReq
  <2> QED BY <1>1, <2>1, FinishReqType DEF TypeOK, cacheVars, dramVars, Core
<1> QED BY <1>2, <1>3, <1>4 DEF TypeOK, DState

(* The home directory's handling of a message from a cache keeps the state  *)
(* well typed.                                                              *)
LEMMA HomeReceiveType ==
  ASSUME TypeOK, NEW c \in Cache, HomeReceive(c)
  PROVE  TypeOK'
<1> DEFINE m == Head(toDir[c])
<1>1. toDir[c] # <<>> /\ m \in CacheMsg /\ toDir' \in [Cache -> Seq(CacheMsg)]
  <2>1. toDir[c] # <<>> /\ Consume(c)
    BY DEF HomeReceive, DirRecvReq, ProcessInvRep, ProcessFlushRep, ProcessWbRep, Arrives
  <2> QED BY <2>1, HeadType, TailType DEF TypeOK, Consume
<1>2. CASE DirRecvReq(c)
  <2>1. m.type \in ReqType
    BY <1>2 DEF DirRecvReq, Arrives
  <2>2. reqs' \in Seq(ShmemReq)
    <3>1. reqs' = Append(reqs, NewReq(m.type, c))
      BY <1>2 DEF DirRecvReq, Enqueue
    <3>2. NewReq(m.type, c) \in ShmemReq
      BY <2>1, NewReqType
    <3> QED BY <3>1, <3>2 DEF TypeOK
  <2> QED BY <1>1, <1>2, <2>2
          DEF DirRecvReq, TypeOK, cacheVars, entryVars, dramVars, CallProcess, Return, Buffer
<1>3. CASE ProcessInvRep(c)
  BY <1>1, <1>3 DEF ProcessInvRep, TypeOK, cacheVars, dramVars, CallProcess, Return, Buffer,
                    ForwarderAfter, Core, DState
<1>4. CASE ProcessFlushRep(c)
  <2>1. m.data \in Value
    BY <1>1, <1>4 DEF ProcessFlushRep, Arrives, CacheMsg, ReqType
  <2>2. sharers' \in SUBSET Cache /\ forwarder' \in Core /\ owner' \in Core /\ dstate' \in DState
    BY <1>4 DEF ProcessFlushRep, TypeOK, Core, DState
  <2>3. dpc' \in {"idle", "process"} /\ dbuf' \in Buffer
    BY <2>1, <1>4 DEF ProcessFlushRep, CallProcess, Return, Buffer
  <2>4. dram' \in Value /\ fromDram' \in Seq(Value)
    BY <2>1, <1>4 DEF ProcessFlushRep, SendDataToDram, dramVars, TypeOK
  <2>5. reqs' \in Seq(ShmemReq)
    <3>1. reqs' = reqs \/ (reqs # <<>> /\ reqs' = [reqs EXCEPT ![1].stored = TRUE])
      BY <1>4 DEF ProcessFlushRep
    <3> QED BY <3>1, MarkReqType DEF TypeOK
  <2> QED BY <1>1, <1>4, <2>2, <2>3, <2>4, <2>5 DEF ProcessFlushRep, TypeOK, cacheVars
<1>5. CASE ProcessWbRep(c)
  <2>1. m.data \in Value
    BY <1>1, <1>5 DEF ProcessWbRep, Arrives, CacheMsg, ReqType
  <2> QED BY <1>1, <1>5, <2>1
          DEF ProcessWbRep, TypeOK, cacheVars, dramVars, CallProcess, Buffer, Core, DState
<1> QED BY <1>2, <1>3, <1>4, <1>5 DEF HomeReceive

(* processDRAMReply keeps the state well typed.                             *)
LEMMA DramReplyType ==
  ASSUME TypeOK, ProcessDRAMReply
  PROVE  TypeOK'
<1> DEFINE q == Head(reqs)
           reply == IF q.type = "SH_REQ" /\ dstate = "SHARED" THEN "SH_REP" ELSE "EX_REP"
<1>1. reqs # <<>> /\ q \in ShmemReq /\ q.type \in ReqType /\ Head(fromDram) \in Value
  BY DEF ProcessDRAMReply, ExpectsDramReply, TypeOK, ReqType
<1>2. q.from \in Cache
  BY <1>1 DEF ShmemReq, ReqType, Core
<1>3. Msg(reply, Head(fromDram)) \in DirMsg
  BY <1>1, MsgType
<1>4. toCache' \in [Cache -> Seq(DirMsg)]
  BY <1>2, <1>3, SendType DEF ProcessDRAMReply, TypeOK
<1>5. reqs' \in Seq(ShmemReq) /\ dpc' \in {"idle", "process"} /\ dbuf' \in Buffer
  BY <1>1, FinishReqType DEF ProcessDRAMReply
<1> QED BY <1>4, <1>5 DEF ProcessDRAMReply, TypeOK, cacheVars, entryVars

(* The replacement of the entry keeps the state well typed.                 *)
LEMMA ReplaceEntryType ==
  ASSUME TypeOK, DirReplaceEntry
  PROVE  TypeOK'
<1>1. reqs' \in Seq(ShmemReq)
  BY NewReqType DEF DirReplaceEntry
<1> QED BY <1>1 DEF DirReplaceEntry, CallProcess, TypeOK, cacheVars, entryVars, dramVars, Buffer

-----------------------------------------------------------------------------
(* Every step keeps the directory entry well formed.  The assertions of the *)
(* handlers are what makes this hold: an INV_REP is only accepted in state  *)
(* SHARED or EXCLUSIVE and from a sharer, a FLUSH_REP only from the last    *)
(* sharer or in state SHARED.                                               *)
LEMMA EntryStep ==
  ASSUME TypeOK, EntryWellFormed, [Next]_vars
  PROVE  EntryWellFormed'
<1> USE DEF EntryWellFormed
<1>1. ASSUME UNCHANGED entryVars
      PROVE  EntryWellFormed'
  BY <1>1 DEF entryVars
<1>2. ASSUME NEW c \in Cache, UserThread(c) \/ NetworkThread(c) \/ Evict(c)
      PROVE  EntryWellFormed'
  BY <1>1, <1>2 DEF UserThread, NetworkThread, WriteHit, Miss, RecvDataReply, RecvUpgradeReply,
                    UpgradeForWaiter, WakeWaiter, DequeueWaiter, RecvInvReq, RecvWbReq, Evict
<1>3. ASSUME NEW c \in Cache, HomeReceive(c)
      PROVE  EntryWellFormed'
  <2>1. CASE DirRecvReq(c)
    BY <1>1, <2>1 DEF DirRecvReq
  <2>2. CASE ProcessInvRep(c)
    BY <2>2 DEF ProcessInvRep, ExpectsInvRep
  <2>3. CASE ProcessFlushRep(c)
    BY <2>3 DEF ProcessFlushRep, ExpectsFlushRep
  <2>4. CASE ProcessWbRep(c)
    BY <2>4 DEF ProcessWbRep, ExpectsWbRep
  <2> QED BY <1>3, <2>1, <2>2, <2>3, <2>4 DEF HomeReceive
<1>4. CASE ProcessExReq
  BY <1>1, <1>4 DEF ProcessExReq, AskCaches
<1>5. CASE ProcessShReq
  BY <1>1, <1>5 DEF ProcessShReq, AskCaches
<1>6. CASE ProcessUpgradeReq
  BY <1>1, <1>6 DEF ProcessUpgradeReq, AskCaches, SendUpgradeReply, SoleSharer
<1>7. CASE ProcessNullifyReq
  BY <1>1, <1>7 DEF ProcessNullifyReq, AskCaches
<1>8. CASE ProcessDRAMReply \/ DirReplaceEntry \/ UNCHANGED vars
  BY <1>1, <1>8 DEF ProcessDRAMReply, DirReplaceEntry, vars
<1> QED BY <1>2, <1>3, <1>4, <1>5, <1>6, <1>7, <1>8 DEF Next, HomeProcess

(* Every step keeps the state well typed, given a well-formed entry.        *)
LEMMA TypeStep ==
  ASSUME TypeOK, EntryWellFormed, [Next]_vars
  PROVE  TypeOK'
<1>1. CASE UNCHANGED vars
  BY <1>1 DEF TypeOK, vars, cacheVars, entryVars, dirVars, dramVars
<1>2. ASSUME NEW c \in Cache, UserThread(c) \/ NetworkThread(c) \/ Evict(c) \/ HomeReceive(c)
      PROVE  TypeOK'
  BY <1>2, UserThreadType, NetworkThreadType, EvictType, HomeReceiveType
<1>3. CASE HomeProcess
  BY <1>3, ProcessExReqType, ProcessShReqType, ProcessUpgradeReqType, ProcessNullifyReqType
     DEF HomeProcess
<1>4. CASE ProcessDRAMReply \/ DirReplaceEntry
  BY <1>4, DramReplyType, ReplaceEntryType
<1> QED BY <1>1, <1>2, <1>3, <1>4 DEF Next

(* Type correctness: in particular every data reply of the directory        *)
(* carries data, and every message goes to a cache, never to                *)
(* INVALID_CORE_ID.                                                         *)
THEOREM TypeCorrect == Spec => []TypeOK
<1>1. Init => TypeOK /\ EntryWellFormed
  BY InitType DEF Init, EntryWellFormed
<1>2. TypeOK /\ EntryWellFormed /\ [Next]_vars => (TypeOK /\ EntryWellFormed)'
  BY EntryStep, TypeStep
<1> QED BY <1>1, <1>2, PTL DEF Spec

(* The directory entry never contradicts itself, for every number of        *)
(* caches, every protocol and every limit on the sharers.                   *)
THEOREM EntryAlwaysWellFormed == Spec => []EntryWellFormed
<1>1. Init => TypeOK /\ EntryWellFormed
  BY InitType DEF Init, EntryWellFormed
<1>2. TypeOK /\ EntryWellFormed /\ [Next]_vars => (TypeOK /\ EntryWellFormed)'
  BY EntryStep, TypeStep
<1> QED BY <1>1, <1>2, PTL DEF Spec
=============================================================================
