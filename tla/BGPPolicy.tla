------------------------------ MODULE BGPPolicy ------------------------------
(***************************************************************************)
(* The routing policy object of one AS: class BGP (bgp.cpp) and class ROV  *)
(* (rov.cpp), which filters in front of it.  A policy object is used by    *)
(* one thread at a time, so every call is one step.                        *)
(***************************************************************************)
EXTENDS RouteTable

CONSTANTS Prefix,         \* the prefix ids in use
          Wire,           \* the announcements that may be received
          Filtering,      \* TRUE for class ROV, FALSE for class BGP
          InlinePrepends  \* the arguments of receiveAnnouncementWithPrepend; it
                          \* is public, but nothing in src/ calls it

ASSUME WireAssumption == Wire \subseteq Announcement

ASSUME PolicyAssumption ==
  /\ Filtering \in BOOLEAN
  /\ InlinePrepends \subseteq
       [ann : Announcement, asn : ASN, next_hop : ASN, rel : Relationship]

VARIABLES received_queue,  \* prefix -> routes received, in order of arrival
          local_rib        \* prefix -> best route, or NoRoute

vars == <<received_queue, local_rib>>

Table(p) == [queue |-> received_queue[p], best |-> local_rib[p]]

TypeOK ==
  /\ received_queue \in [Prefix -> Seq(Announcement)]
  /\ local_rib \in [Prefix -> Announcement \cup {NoRoute}]

Init ==
  /\ received_queue = [p \in Prefix |-> <<>>]
  /\ local_rib = [p \in Prefix |-> NoRoute]

BGPReceive(p, ann) ==
  LET table == Receive(Table(p), ann)
  IN  /\ received_queue' = [received_queue EXCEPT ![p] = table.queue]
      /\ local_rib' = [local_rib EXCEPT ![p] = table.best]

\* Faulty variant: the filter looks at learned routes only.
DropsUnlessOrigin(ann) ==
  Filtering /\ ann.rov_invalid /\ ann.received_from # "ORIGIN"

\* ROV::receiveAnnouncement returns before the table is touched.
Drops(ann) == Filtering /\ ann.rov_invalid

ReceiveAnnouncement(p, ann) == ~Drops(ann) /\ BGPReceive(p, ann)

DropAnnouncement(ann) == Drops(ann) /\ UNCHANGED vars

\* Not virtual, so that ROV inherits it without its filter.
ReceiveAnnouncementWithPrepend(p, ann, asn, nextHop, rel) ==
  BGPReceive(p, PrependASN(ann, asn, nextHop, rel))

Clear ==
  /\ received_queue' = [p \in Prefix |-> <<>>]
  /\ local_rib' = [p \in Prefix |-> NoRoute]

Next ==
  \/ \E p \in Prefix, ann \in Wire : ReceiveAnnouncement(p, ann)
  \/ \E ann \in Wire : DropAnnouncement(ann)
  \/ \E p \in Prefix, a \in InlinePrepends :
        ReceiveAnnouncementWithPrepend(p, a.ann, a.asn, a.next_hop, a.rel)
  \/ Clear

Spec == Init /\ [][Next]_vars
-----------------------------------------------------------------------------
\* receiveAnnouncement replaces a neighbour's route in place (bgp.cpp:101), so
\* that no neighbour ever has two routes for one prefix.
OneRoutePerNeighbour == \A p \in Prefix : OnePerNeighbour(received_queue[p])

\* The three shortcuts of receiveAnnouncement (install, promote, reselect) keep
\* the route in use at what a full selection over everything received would
\* return (bgp.cpp:120-139): it is never stale.
BestIsSelected == \A p \in Prefix : BestIsSelection(Table(p))

\* With the ROV policy no invalid route is in use and none is kept from which
\* a later reselection could pick it (rov.cpp:90).  The unfiltered entry would
\* let one in (bgp.cpp:150).
InvalidKeptOut ==
  Filtering => \A p \in Prefix :
    /\ local_rib[p] # NoRoute => ~local_rib[p].rov_invalid
    /\ \A k \in DOMAIN received_queue[p] : ~received_queue[p][k].rov_invalid

\* The route a neighbour has in a queue.
Holds(queue, route) == \E k \in DOMAIN queue : queue[k] = route

\* A step that loses or worsens the route in use of a prefix has taken that
\* route out of the queue.
KeepsUnlessWithdrawn(p) ==
  /\ local_rib[p] # NoRoute
  /\ local_rib'[p] = NoRoute \/ Outranks(local_rib[p], local_rib'[p])
  => ~Holds(received_queue'[p], local_rib[p])

\* A route in use gives way to a less preferred one only if its own neighbour
\* has taken it back, or if everything is cleared (bgp.cpp:133).
WorsensOnlyWhenWithdrawn == [][\A p \in Prefix : KeepsUnlessWithdrawn(p)]_vars
-----------------------------------------------------------------------------
(***************************************************************************)
(* The implementation of AdjRibIn.  The queue of a prefix maps to the      *)
(* partial function from next hops to routes; ROV accepts valid            *)
(* announcements only, and whatever comes through the unfiltered entry.    *)
(***************************************************************************)
Prepended == {PrependASN(a.ann, a.asn, a.next_hop, a.rel) : a \in InlinePrepends}

Admitted ==
  {ann \in Wire : ~(Filtering /\ ann.rov_invalid)} \cup Prepended

Speaker == INSTANCE AdjRibIn WITH
  Incoming   <- Admitted,
  adj_rib_in <- [p \in Prefix |-> ByNextHop(received_queue[p])],
  loc_rib    <- local_rib

\* A policy object is a BGP speaker: whatever order announcements arrive in,
\* it remembers the last one of every neighbour and uses the most preferred.
IsSpeaker == Speaker!Spec
=============================================================================
