------------------------------ MODULE Network ------------------------------
(***************************************************************************)
(* Simulated messages between cores: Network::netSend routes a packet with *)
(* the network model (magic, bus, hop counter or the hop-by-hop mesh) and  *)
(* hands it to the shared-memory transport; the sim thread of the receiving*)
(* core pulls it, accounts for it and runs the callback of its type.  The  *)
(* sim threads are started by spawnSimThreads and ended by quitSimThreads. *)
(*                                                                         *)
(* A packet goes through the hops of the mesh inside one netSend, but each *)
(* routePacket takes the lock of another core's model, so every hop is a   *)
(* step here.  The delay a packet finds in front of a link is any value in *)
(* 0..nc.delay (QueueModels computes it); the other latencies are counted  *)
(* in the hop latency of one cycle.                                        *)
(***************************************************************************)
EXTENDS Integers, Sequences, SequencesExt, FiniteSets

CONSTANTS NetConfigs,    \* the networks explored
          Serialization  \* cycles to put a packet on a link

VARIABLES nc,        \* the network: model, width, height, conc, wrap, group, ...
          sent,      \* per thread, the packets it sent: receiver or Broadcast
          flight,    \* per thread, the hops its netSend still has to send
          queue,     \* SmNode::m_queue of every core
          sim,       \* the sim thread of every core
          active,    \* SimThreadManager::m_active_threads
          quit,      \* progress of quitSimThreads: terminate packets sent
          delivered  \* per sending thread and core, the packets processed

netVars == <<nc, sent, flight, queue, sim, active, quit, delivered>>

Broadcast == -1
Cores == 0 .. nc.width * nc.height * nc.conc - 1
Threads == Cores \X {"user", "sim"}

(* Values of quit besides the number of terminate packets sent. *)
Running == -1
Done == Cardinality(Cores) + 1

Magnitude(n) == IF n < 0 THEN -n ELSE n
Lesser(m, n) == IF m < n THEN m ELSE n
-----------------------------------------------------------------------------
(* The mesh of network_model_emesh_hop_by_hop.cc *)

FakeNode(c) == c % nc.conc # 0

PositionX(c) == (c \div nc.conc) % nc.width
PositionY(c) == (c \div nc.conc) \div nc.width

ComputeCoreId(x, y) == (((y + nc.height) % nc.height) * nc.width + ((x + nc.width) % nc.width)) * nc.conc

ComputeDistance(c, d) ==
  LET dx == Magnitude(PositionX(c) - PositionX(d))
      dy == Magnitude(PositionY(c) - PositionY(d))
  IN IF nc.wrap THEN Lesser(dx, nc.width - dx) + Lesser(dy, nc.height - dy) ELSE dx + dy

(* One dimension of the route: step towards d, the other way round when a  *)
(* torus makes that shorter.                                               *)
Towards(s, d, size) ==
  IF (s > d) # (nc.wrap /\ Magnitude(s - d) > (size + 1) \div 2) THEN -1 ELSE 1

(* Dimension-order routing: the next node, and whether a link leads to it. *)
GetNextDest(c, final) ==
  LET x == PositionX(c)  dx == PositionX(final)
      y == PositionY(c)  dy == PositionY(final)
  IN CASE c \div nc.conc = final \div nc.conc -> [next |-> final, link |-> FALSE]
       [] x # dx -> [next |-> ComputeCoreId(x + Towards(x, dx, nc.width), y), link |-> TRUE]
       [] OTHER  -> [next |-> ComputeCoreId(x, y + Towards(y, dy, nc.height)), link |-> TRUE]

(* routePacket of the mesh at core c, for a packet that has travelled      *)
(* `lat' so far: the injection port of the sender, then one link.          *)
MeshHop(c, sender, final, lat, hops, delay) ==
  IF FakeNode(c)
  THEN [final |-> final, next |-> final, lat |-> lat, hops |-> hops]
  ELSE LET n == GetNextDest(c, final)
           injection == IF c = sender /\ final # c THEN delay ELSE 0
       IN [final |-> final, next |-> n.next, hops |-> hops + 1,
           lat |-> lat + injection + (IF n.link THEN 1 + delay ELSE 0)]

(* routePacket of network_model_emesh_hop_counter.cc, network_model_bus.cc *)
(* and network_model_magic.cc: straight to the destination.                *)
HopCounterHop(sender, final, before) ==
  [final |-> final, next |-> final, hops |-> 1,
   lat |-> ComputeDistance(sender, final) + (IF final # sender THEN Serialization ELSE 0)
           + before * Serialization]

BusHop(sender, final, delay) ==
  [final |-> final, next |-> final, hops |-> 1,
   lat |-> IF sender = final THEN 0 ELSE delay + Serialization]

MagicHop(final) == [final |-> final, next |-> final, hops |-> 1, lat |-> 1]

Route(c, sender, final, before, delay) ==
  CASE nc.model = "hop"     -> MeshHop(c, sender, final, 0, 0, delay)
    [] nc.model = "counter" -> HopCounterHop(sender, final, before)
    [] nc.model = "bus"     -> BusHop(sender, final, delay)
    [] OTHER                -> MagicHop(final)

(* The hops routePacket returns: one, or one per core for a broadcast.     *)
RoutePacket(c, sender, receiver, delay) ==
  IF receiver = Broadcast
  THEN [i \in 1 .. Cardinality(Cores) |-> Route(c, sender, i - 1, i - 1, delay)]
  ELSE <<Route(c, sender, receiver, 0, delay)>>
-----------------------------------------------------------------------------
(* Network::netSend and SmNode::send *)

(* MemoryManager::sendMsg names the master of the cores sharing the last   *)
(* level cache as the sender; the packet leaves from the calling core.     *)
Sender(c) == c - (c % nc.group)

NetSend(t, receiver) ==
  /\ flight[t] = <<>>
  /\ sent' = [sent EXCEPT ![t] = Append(@, receiver)]
  /\ \E delay \in 0 .. nc.delay :
       flight' = [flight EXCEPT ![t] = RoutePacket(t[1], Sender(t[1]), receiver, delay)]
  /\ UNCHANGED <<nc, queue, sim, active, quit, delivered>>

(* One pass of netSend's inner loop: the model of the next node routes.    *)
Forward(t) ==
  /\ flight[t] # <<>>
  /\ LET h == Head(flight[t])
     IN /\ h.next # h.final
        /\ \E delay \in 0 .. nc.delay :
             flight' = [flight EXCEPT ![t][1] =
               MeshHop(h.next, Sender(t[1]), h.final, h.lat, h.hops, delay)]
  /\ UNCHANGED <<nc, sent, queue, sim, active, quit, delivered>>

PacketOf(t, h) ==
  [from |-> t, n |-> Len(sent[t]), receiver |-> h.final, terminate |-> FALSE, lat |-> h.lat,
   \* start_time is only filled in when the packet leaves from its sender
   stamped |-> Sender(t[1]) = t[1]]


TransportSend(c, packet) == queue' = [queue EXCEPT ![c] = Append(@, packet)]

Deliver(t) ==
  /\ flight[t] # <<>>
  /\ LET h == Head(flight[t])
     IN /\ h.next = h.final
        /\ TransportSend(h.next, PacketOf(t, h))
  /\ flight' = [flight EXCEPT ![t] = Tail(@)]
  /\ UNCHANGED <<nc, sent, sim, active, quit, delivered>>

(* A thread of the application sends while the simulation runs.            *)
UserSend(c) ==
  /\ quit = Running
  /\ c \in nc.senders
  /\ Len(sent[<<c, "user">>]) < nc.sends
  /\ \E r \in nc.dests : NetSend(<<c, "user">>, r)
-----------------------------------------------------------------------------
(* SimThread::run and Network::netPullFromTransport *)

SimStart(c) ==
  /\ sim[c].at = "unborn"
  /\ sim' = [sim EXCEPT ![c].at = "recv"]
  /\ active' = active + 1
  /\ UNCHANGED <<nc, sent, flight, queue, quit, delivered>>

(* processReceivedPacket: what the mesh adds to its contention statistics. *)
Contention(c, p, delay) ==
  p.lat - ComputeDistance(Sender(p.from[1]), c) + (IF Sender(p.from[1]) # c THEN delay ELSE 0)

(* recv, then the callback: the terminate packet clears cont, a message of *)
(* the memory system may be answered by the handler.                       *)
Recv(c) ==
  /\ sim[c].at = "recv"
  /\ queue[c] # <<>>
  /\ LET p == Head(queue[c])
     IN /\ sim' = [sim EXCEPT ![c] = [at |-> IF p.terminate THEN "query" ELSE "callback",
                                     cont |-> @.cont /\ ~p.terminate]]
        /\ IF p.terminate
           THEN UNCHANGED delivered
           ELSE \E delay \in 0 .. nc.delay :
                  delivered' = [delivered EXCEPT ![p.from][c] =
                    Append(@, [n |-> p.n, stamped |-> p.stamped,
                               contention |-> Contention(c, p, delay)])]
  /\ queue' = [queue EXCEPT ![c] = Tail(@)]
  /\ UNCHANGED <<nc, sent, flight, active, quit>>

CallbackSends(c) ==
  /\ sim[c].at = "callback"
  /\ Len(sent[<<c, "sim">>]) < nc.replies
  /\ \E r \in Cores : NetSend(<<c, "sim">>, r)

CallbackReturns(c) ==
  /\ sim[c].at = "callback"
  /\ flight[<<c, "sim">>] = <<>>
  /\ sim' = [sim EXCEPT ![c].at = "query"]
  /\ UNCHANGED <<nc, sent, flight, queue, active, quit, delivered>>

(* do ... while (query()) inside while (cont).                             *)
Query(c) ==
  /\ sim[c].at = "query"
  /\ sim' = [sim EXCEPT ![c].at = IF queue[c] # <<>> \/ sim[c].cont THEN "recv" ELSE "exit"]
  /\ UNCHANGED <<nc, sent, flight, queue, active, quit, delivered>>

SimExit(c) ==
  /\ sim[c].at = "exit"
  /\ sim' = [sim EXCEPT ![c].at = "gone"]
  /\ active' = active - 1
  /\ UNCHANGED <<nc, sent, flight, queue, quit, delivered>>
-----------------------------------------------------------------------------
(* SimThreadManager::quitSimThreads, from the Simulator's destructor: the  *)
(* application's threads are done, messages may still be under way.        *)

QuitBegins ==
  /\ quit = Running /\ nc.quits
  /\ \A c \in Cores : flight[<<c, "user">>] = <<>>
  /\ nc.early \/ \A c \in Cores : sim[c].at # "unborn"
  /\ quit' = 0
  /\ UNCHANGED <<nc, sent, flight, queue, sim, active, delivered>>

SendTerminate ==
  /\ quit \in Cores
  /\ TransportSend(quit, [from |-> <<0, "main">>, n |-> 0, receiver |-> quit, terminate |-> TRUE,
                          lat |-> 0, stamped |-> TRUE])
  /\ quit' = quit + 1
  /\ UNCHANGED <<nc, sent, flight, sim, active, delivered>>

QuitReturns ==
  /\ quit = Cardinality(Cores) /\ active = 0
  /\ quit' = Done
  /\ UNCHANGED <<nc, sent, flight, queue, sim, active, delivered>>

NetInit ==
  /\ nc \in NetConfigs
  /\ sent = [t \in Threads |-> <<>>]
  /\ flight = [t \in Threads |-> <<>>]
  /\ queue = [c \in Cores |-> <<>>]
  /\ sim = [c \in Cores |-> [at |-> IF nc.born THEN "recv" ELSE "unborn", cont |-> TRUE]]
  /\ active = IF nc.born THEN Cardinality(Cores) ELSE 0
  /\ quit = Running
  /\ delivered = [t \in Threads |-> [c \in Cores |-> <<>>]]

NetNext ==
  \/ \E c \in Cores : UserSend(c)
  \/ \E t \in Threads : Forward(t) \/ Deliver(t)
  \/ \E c \in Cores : \/ SimStart(c) \/ Recv(c) \/ CallbackSends(c) \/ CallbackReturns(c)
                      \/ Query(c) \/ SimExit(c)
  \/ QuitBegins
  \/ SendTerminate
  \/ QuitReturns

NetSpec == NetInit /\ [][NetNext]_netVars
-----------------------------------------------------------------------------
(* Memory controllers along the perimeter of the mesh                      *)

(* core_id_list_along_perimeter, clockwise from the corner (0,0).          *)
Perimeter(w, h) ==
  LET top == [i \in 1 .. w |-> i - 1]
      right == [i \in 1 .. h - 2 |-> i * w + w - 1]
      bottom == [i \in 1 .. w |-> (h - 1) * w + w - i]
      left == [i \in 1 .. h - 2 |-> (h - 1 - i) * w]
  IN IF h > 1 THEN top \o right \o bottom \o left ELSE top

(* computeMemoryControllerPositions: num controllers, evenly spaced.       *)
ControllerPositions(num) ==
  LET p == Perimeter(nc.width, nc.height)
      spacing == Len(p) \div num
  IN [i \in 1 .. num |->
        nc.conc * p[1 + (((i - 1) * spacing + (nc.width \div 2)) % Len(p))]]
-----------------------------------------------------------------------------
(* Properties *)

PacketIds(s, c) == SelectSeq([i \in 1 .. Len(s) |-> i], LAMBDA i : s[i] \in {c, Broadcast})

(* Every value has its type, and SmNode::send always hands a packet to the *)
(* core it is addressed to: netPullFromTransport never has to forward one. *)
NetTypeOK ==
  /\ nc \in NetConfigs
  /\ active \in 0 .. Cardinality(Cores)
  /\ quit \in Running .. Done
  /\ \A c \in Cores :
       /\ sim[c].at \in {"unborn", "recv", "callback", "query", "exit", "gone"}
       /\ \A i \in DOMAIN queue[c] : queue[c][i].receiver = c

(* Dimension-order routing brings a packet to its node in at most as many  *)
(* routePacket calls as the mesh has columns and rows, on a line, a mesh,  *)
(* a ring and a torus: netSend's loop over the nodes ends.                 *)
RoutesEnd ==
  \A t \in Threads : \A i \in DOMAIN flight[t] : flight[t][i].hops <= nc.width + nc.height

(* The contention a mesh node books for a packet it receives, its latency  *)
(* less the hops of the shortest way, is never negative (the times are     *)
(* unsigned): the route is at least as long as computeDistance says.       *)
ContentionNotNegative ==
  nc.model = "hop" =>
    \A t \in Threads, c \in Cores : \A i \in DOMAIN delivered[t][c] :
      delivered[t][c][i].stamped => delivered[t][c][i].contention >= 0

(* Whatever the interleaving of senders, hops and sim threads, a core      *)
(* processes the packets a thread sent to it once each and in the order of *)
(* the netSend calls: those processed, queued and still to be sent are, in *)
(* this order, all of them.                                                *)
InOrderOnce ==
  \A t \in Threads, c \in Cores :
    LET processed == [i \in DOMAIN delivered[t][c] |-> delivered[t][c][i].n]
        mine == SelectSeq(queue[c], LAMBDA p : p.from = t)
        queued == [i \in DOMAIN mine |-> mine[i].n]
        rest == SelectSeq(flight[t], LAMBDA h : h.final = c)
        coming == [i \in DOMAIN rest |-> Len(sent[t])]
    IN processed \o queued \o coming = PacketIds(sent[t], c)

(* When quitSimThreads returns and deletes the SimThread objects, none of  *)
(* the threads is running or still to run.                                 *)
QuitMeansGone == quit = Done => \A c \in Cores : sim[c].at = "gone"

(* The memory controllers of a mesh sit on different cores of the chip,    *)
(* and on the master core of their network node.                           *)
ControllersDistinct ==
  nc.model = "hop" => \A num \in 1 .. Len(Perimeter(nc.width, nc.height)) :
    LET p == ControllerPositions(num)
    IN IsInjective(p) /\ \A i \in 1 .. num : p[i] \in Cores /\ ~FakeNode(p[i])

(* ... and nobody finds packets of the running simulation in the queue of  *)
(* a sim thread that has left (~SmNode warns of unread messages).          *)
NothingUnread ==
  quit = Done => \A c \in Cores : queue[c] = <<>>
=============================================================================
