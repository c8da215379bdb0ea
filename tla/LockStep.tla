------------------------------- MODULE LockStep -------------------------------
(***************************************************************************)
(* The propagation as the authors describe it, "synchronous (lock-step)"   *)
(* (as_graph.cpp:685): every loop over a rank is one step in which all its *)
(* ASes act at once, an AS remembers the last route of each neighbour, and *)
(* its best route is the most preferred.  Nothing is left to chance after  *)
(* the initial state, so whatever implements this specification gives the  *)
(* same routes for every schedule of its threads.                          *)
(***************************************************************************)
EXTENDS ParallelLoops, Preference

CONSTANTS Graphs,  \* the graphs considered
          Seeds    \* the ways to seed them: AS -> "none", "valid" or "invalid"

ASSUME GraphsAssumption == \A g \in Graphs : WellFormed(g)

ASSUME SeedsAssumption == Seeds \subseteq [ASN -> {"none", "valid", "invalid"}]

VARIABLES graph,  \* never changes
          seeds,  \* never changes
          loop,   \* the parallel loop to run next
          heard,  \* AS -> announcements received and not yet processed
          routes, \* AS -> neighbour -> route
          best    \* AS -> most preferred route

vars == <<graph, seeds, loop, heard, routes, best>>

Init ==
  /\ graph \in Graphs
  /\ seeds \in Seeds
  /\ loop = FirstLoop
  /\ heard = [n \in ASN |-> {}]
  /\ best = [n \in ASN |-> Seeded(graph, seeds, n).best]
  /\ routes = [n \in ASN |-> IF best[n] = NoRoute THEN <<>> ELSE Remember(<<>>, best[n])]

\* The announcements an AS keeps of those it heard, with its own number added.
Kept(n) ==
  {PrependASN(ann, n, ann.next_hop, ann.received_from) :
     ann \in {a \in heard[n] : Accepts(n, a) /\ ~(n \in graph.rov /\ a.rov_invalid)}}

\* No neighbour is heard twice between two loops.
Learn(n) ==
  [m \in DOMAIN routes[n] \cup {ann.next_hop : ann \in Kept(n)} |->
     IF \E ann \in Kept(n) : ann.next_hop = m
     THEN CHOOSE ann \in Kept(n) : ann.next_hop = m
     ELSE routes[n][m]]

Acting == IF Processes(loop) THEN Members(graph, loop) ELSE {}

Step ==
  /\ loop.phase # "done"
  /\ routes' = [n \in ASN |-> IF n \in Acting THEN Learn(n) ELSE routes[n]]
  /\ best' = [n \in ASN |-> MostPreferred({routes'[n][m] : m \in DOMAIN routes'[n]})]
  /\ heard' = [n \in ASN |->
       (IF n \in Acting THEN {} ELSE heard[n])
         \cup {Export(m, best'[m], SentAs(loop)) :
                 m \in {a \in Members(graph, loop) :
                          n \in Receivers(graph, loop, a) /\ best'[a] # NoRoute}}]
  /\ loop' = NextLoop(graph, loop)
  /\ UNCHANGED <<graph, seeds>>

Next == Step

Spec == Init /\ [][Next]_vars
-----------------------------------------------------------------------------
(***************************************************************************)
(* The outcome the Gao-Rexford model defines: a set of routes that no AS   *)
(* would change, given that an AS hands routes of its customers and its    *)
(* own to everybody and other routes to customers only.  The program has   *)
(* no such export rule (as_node.cpp:365); the order of the loops has to    *)
(* have its effect.                                                        *)
(***************************************************************************)
HandsOn(m, rel) ==
  /\ best[m] # NoRoute
  /\ rel = "FROM_PROVIDER" \/ best[m].received_from \in {"ORIGIN", "FROM_CUSTOMER"}

RelationTo(n, m) ==
  CASE n \in graph.providers[m] -> "FROM_CUSTOMER"
    [] n \in graph.peers[m]     -> "FROM_PEER"
    [] m \in graph.providers[n] -> "FROM_PROVIDER"

Neighbours(n) == graph.providers[n] \cup graph.peers[n] \cup Customers(graph, n)

Own(n) == {ann \in {Seeded(graph, seeds, n).best} : ann # NoRoute}

Offered(n) ==
  {PrependASN(Export(m, best[m], RelationTo(n, m)), n, m, RelationTo(n, m)) :
     m \in {a \in Neighbours(n) :
              /\ HandsOn(a, RelationTo(n, a))
              /\ ~(n \in graph.rov /\ best[a].rov_invalid)}}

\* No pair is listed as peers and as provider and customer, and no AS as its
\* own peer.
SimplyRelated ==
  \A n \in ASN : graph.peers[n] \cap ({n} \cup graph.providers[n] \cup Customers(graph, n)) = {}

\* One pass up, across and down ends in the stable routes of the Gao-Rexford
\* model, with no export filter and hardly a look for loops (as_graph.cpp:714-755).
StableAtEnd ==
  SimplyRelated /\ loop.phase = "done" => \A n \in ASN : best[n] = MostPreferred(Own(n) \cup Offered(n))

\* No best route ever goes down and up again, or over two peerings: the order
\* of the loops stands in for the export rule (README.md:12).
BestAreValleyFree == \A n \in ASN : best[n] # NoRoute => ValleyFree(graph, best[n].path)

\* No best route goes through an AS twice, although paths shorter than
\* LoopCheckLen are accepted unseen (as_node.cpp:203-211).
BestAreLoopFree == \A n \in ASN : best[n] # NoRoute => LoopFree(best[n].path)

\* The last AS of a best route is the one that announced it (announcement.h:198),
\* and the ROV mark of that announcement came along, whoever handed it on; but
\* for full paths, which may have lost their origin.
OriginIsTruthful ==
  \A n \in ASN : best[n] # NoRoute /\ Len(best[n].path) < MaxPathLen =>
    seeds[GetOriginASN(best[n])] = IF best[n].rov_invalid THEN "invalid" ELSE "valid"

\* The route an AS uses is the one its next hop uses: at the end, traffic
\* follows the AS path that is written to the output.  A customer that is listed
\* as a peer, too, may change its provider's mind after the way up.
ForwardingFollowsPath ==
  SimplyRelated /\ loop.phase = "done" =>
    \A n \in ASN : best[n] # NoRoute /\ best[n].next_hop # n =>
      LET next == best[best[n].next_hop]
      IN  /\ next # NoRoute
          /\ best[n].path = PrependASN(next, n, best[n].next_hop, best[n].received_from).path
=============================================================================
