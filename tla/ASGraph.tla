------------------------------- MODULE ASGraph -------------------------------
(***************************************************************************)
(* What every propagation is made of: the relationships between the ASes   *)
(* (as_graph.h, as_node.h), the filter in front of an AS's routes, what it *)
(* sends (as_node.cpp), and what a path may look like.                     *)
(*                                                                         *)
(* There is one prefix: the tables of different prefixes never touch, and  *)
(* a batch for a neighbour is one announcement per prefix.                 *)
(***************************************************************************)
EXTENDS RouteTable, FiniteSets

\* An empty graph has no ranks; the propagation returns at once.
ASSUME ASNFinite == IsFiniteSet(ASN) /\ ASN # {}
-----------------------------------------------------------------------------
\* The relationships, the ranks, and the ASes with the ROV policy.
Graph == [providers : [ASN -> SUBSET ASN],
          peers     : [ASN -> SUBSET ASN],
          rank      : [ASN -> Nat],
          rov       : SUBSET ASN]

\* addProvider and addCustomer are always called in pairs.
Customers(graph, n) == {m \in ASN : n \in graph.providers[m]}

\* What flattenGraph leaves behind on an acyclic graph (PreparationProofs:
\* RanksRise, RanksTight).
Flattened(graph) ==
  \A n \in ASN :
    /\ \A m \in Customers(graph, n) : graph.rank[m] < graph.rank[n]
    /\ graph.rank[n] > 0 => \E m \in Customers(graph, n) : graph.rank[n] = graph.rank[m] + 1

\* addPeer is called in pairs, too.
WellFormed(graph) ==
  /\ graph \in Graph
  /\ \A m, n \in ASN : m \in graph.peers[n] <=> n \in graph.peers[m]
  /\ Flattened(graph)

\* getMaxRank
MaxRank(graph) ==
  LET ranks == {graph.rank[n] : n \in ASN}
  IN  CHOOSE r \in ranks : \A s \in ranks : s <= r
-----------------------------------------------------------------------------
\* ROV::receiveAnnouncement in front of BGP::receiveAnnouncement.
Admit(graph, n, table, ann) ==
  IF n \in graph.rov /\ ann.rov_invalid THEN table ELSE Receive(table, ann)

\* The tables of an AS with this seed: seedAnnouncement, after deployROV.
Seeded(graph, seeds, n) ==
  IF seeds[n] = "none" THEN EmptyTable
  ELSE Admit(graph, n, EmptyTable,
             MakeAnnouncement(<<n>>, n, "ORIGIN", seeds[n] = "invalid"))

\* Faulty variant: the next hop the route came from is sent on.
ExportKeepsNextHop(n, best, rel) ==
  MakeAnnouncement(best.path, best.next_hop, rel, best.rov_invalid)

\* Faulty variant: the last argument of the constructor, false by default, is
\* forgotten.
ExportUnmarked(n, best, rel) == MakeAnnouncement(best.path, n, rel, FALSE)

\* What sendToProviders, sendToPeers and sendToCustomers make of a best route.
Export(n, best, rel) == MakeAnnouncement(best.path, n, rel, best.rov_invalid)
-----------------------------------------------------------------------------
\* The relationship by which m hands a route to n, by the edge's three kinds.
Climbs(graph, m, n)   == n \in graph.providers[m]
Crosses(graph, m, n)  == n \in graph.peers[m]
Descends(graph, m, n) == m \in graph.providers[n]

(***************************************************************************)
(* A path is valley-free if its edges, taken from the origin, first climb, *)
(* then at most one crosses, then all descend.  The origin is the last     *)
(* element; turn is where climbing ends.                                   *)
(***************************************************************************)
ValleyFree(graph, path) ==
  \E turn \in 1..Len(path) :
    /\ \A k \in (turn + 1)..Len(path) : Climbs(graph, path[k], path[k - 1])
    /\ \A k \in 1..(turn - 2) : Descends(graph, path[k + 1], path[k])
    /\ turn > 1 => \/ Crosses(graph, path[turn], path[turn - 1])
                   \/ Descends(graph, path[turn], path[turn - 1])

\* No AS is on the path twice.
LoopFree(path) == \A j, k \in 1..Len(path) : path[j] = path[k] => j = k
=============================================================================
