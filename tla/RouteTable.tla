------------------------------ MODULE RouteTable ------------------------------
(***************************************************************************)
(* What one announcement does to the routes an AS holds for one prefix: a  *)
(* pure operator on a table                                                *)
(*                                                                         *)
(*   [queue |-> received_queue_[prefix], best |-> local_rib_[prefix]]      *)
(*                                                                         *)
(* of class BGP (bgp.h, bgp.cpp).  A prefix without an entry in a map has  *)
(* the empty queue, respectively NoRoute.                                  *)
(***************************************************************************)
EXTENDS Announcements

EmptyTable == [queue |-> <<>>, best |-> NoRoute]

\* The positions that hold a route of this neighbour.
Slots(queue, nextHop) == {i \in DOMAIN queue : queue[i].next_hop = nextHop}

\* Faulty variant: the search for an earlier route of the neighbour is missing.
StoreAlwaysAppends(queue, ann) == Append(queue, ann)

\* The linear search: overwrite the neighbour's first route, or append.
Store(queue, ann) ==
  IF Slots(queue, ann.next_hop) = {}
  THEN Append(queue, ann)
  ELSE LET first == CHOOSE i \in Slots(queue, ann.next_hop) :
                      \A j \in Slots(queue, ann.next_hop) : i <= j
       IN  [queue EXCEPT ![first] = ann]

(***************************************************************************)
(* The route selectBestRoute's scan ends with: nothing in the queue        *)
(* outranks it, and it outranks everything in front of it.  Module         *)
(* SelectBestRoute has the scan itself.                                    *)
(***************************************************************************)
SelectBestRoute(queue) ==
  queue[CHOOSE i \in DOMAIN queue :
          /\ \A j \in DOMAIN queue : ~Outranks(queue[j], queue[i])
          /\ \A j \in 1..(i - 1) : Outranks(queue[i], queue[j])]

\* Faulty variant: no reselection when the best route is replaced by a worse one.
ReceiveWithoutReselect(table, ann) ==
  [queue |-> Store(table.queue, ann),
   best  |-> IF table.best = NoRoute \/ Better(ann, table.best) THEN ann ELSE table.best]

\* Faulty variant: the candidate replaces the best route of its neighbour
\* without a look at the other routes.
ReceiveKeepsNeighbour(table, ann) ==
  [queue |-> Store(table.queue, ann),
   best  |-> IF \/ table.best = NoRoute
                \/ Better(ann, table.best)
                \/ table.best.next_hop = ann.next_hop
             THEN ann ELSE table.best]

\* BGP::receiveAnnouncement: store, then install, promote, reselect or keep.
Receive(table, ann) ==
  LET queue        == Store(table.queue, ann)
      replacedBest == /\ Slots(table.queue, ann.next_hop) # {}
                      /\ table.best.next_hop = ann.next_hop
  IN  [queue |-> queue,
       best  |-> CASE table.best = NoRoute -> ann
                   [] table.best # NoRoute /\ Better(ann, table.best) -> ann
                   [] OTHER -> IF replacedBest THEN SelectBestRoute(queue) ELSE table.best]
-----------------------------------------------------------------------------
\* The queue as a partial function from next hops to routes.
NextHops(queue) == {queue[k].next_hop : k \in DOMAIN queue}

ByNextHop(queue) ==
  [n \in NextHops(queue) |-> queue[CHOOSE k \in DOMAIN queue : queue[k].next_hop = n]]

\* No neighbour has two routes in the queue.
OnePerNeighbour(queue) ==
  \A j, k \in DOMAIN queue : queue[j].next_hop = queue[k].next_hop => j = k

\* The best route is what a full selection over the queue would return.
BestIsSelection(table) ==
  table.best = IF table.queue = <<>> THEN NoRoute ELSE SelectBestRoute(table.queue)
=============================================================================
