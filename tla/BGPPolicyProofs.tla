---------------------------- MODULE BGPPolicyProofs ----------------------------
(***************************************************************************)
(* The policy object, for every set of prefixes, ASes and announcements:   *)
(* its invariants, what may make a route worse, and that it implements the *)
(* BGP speaker of AdjRibIn.                                                *)
(***************************************************************************)
EXTENDS BGPPolicy, RouteTableProofs

\* The table of every prefix is consistent.
PolicyInv ==
  /\ TypeOK
  /\ \A p \in Prefix : Consistent(Table(p))

LEMMA EmptyConsistent == Consistent([queue |-> <<>>, best |-> NoRoute])
BY DEF Consistent, OnePerNeighbour, BestIsSelection

LEMMA InitPolicyInv == Init => PolicyInv
<1>1. SUFFICES ASSUME Init PROVE PolicyInv
  OBVIOUS
<1>2. ASSUME NEW p \in Prefix PROVE Consistent(Table(p))
  BY <1>1, EmptyConsistent DEF Init, Table
<1>3. QED BY <1>1, <1>2 DEF Init, PolicyInv, TypeOK

\* One announcement changes the table of its prefix as operator Receive says
\* and no other table.
LEMMA BGPReceiveStep ==
  ASSUME PolicyInv, NEW p \in Prefix, NEW ann \in Announcement, BGPReceive(p, ann)
  PROVE  /\ PolicyInv'
         /\ received_queue'[p] = Store(received_queue[p], ann)
         /\ local_rib'[p] = Receive(Table(p), ann).best
         /\ \A q \in Prefix \ {p} : /\ received_queue'[q] = received_queue[q]
                                    /\ local_rib'[q] = local_rib[q]
<1> DEFINE new == Receive(Table(p), ann)
<1>1. Consistent(Table(p))
  BY DEF PolicyInv
<1>2. Consistent(new)
  BY <1>1, ReceiveKeepsConsistent
<1>3. new.queue = Store(received_queue[p], ann)
  BY DEF Receive, Table
<1>4. new = [queue |-> new.queue, best |-> new.best]
  BY DEF Receive
<1> HIDE DEF new
<1>5. /\ received_queue' = [received_queue EXCEPT ![p] = new.queue]
      /\ local_rib' = [local_rib EXCEPT ![p] = new.best]
  BY DEF BGPReceive, new
<1>6. new.queue \in Seq(Announcement) /\ new.best \in Announcement \cup {NoRoute}
  BY <1>2, ConsistentBest DEF Consistent
<1>7. /\ TypeOK'
      /\ received_queue'[p] = new.queue
      /\ local_rib'[p] = new.best
      /\ \A q \in Prefix \ {p} : /\ received_queue'[q] = received_queue[q]
                                 /\ local_rib'[q] = local_rib[q]
  BY <1>5, <1>6 DEF PolicyInv, TypeOK
<1>8. ASSUME NEW q \in Prefix PROVE Consistent(Table(q)')
  <2>1. CASE q = p
    <3>1. Table(q)' = new
      BY <1>4, <1>7, <2>1 DEF Table
    <3>2. QED BY <1>2, <3>1
  <2>2. CASE q # p
    <3>1. Table(q)' = Table(q)
      BY <1>7, <2>2 DEF Table
    <3>2. QED BY <3>1 DEF PolicyInv
  <2>3. QED BY <2>1, <2>2
<1>9. PolicyInv'
  BY <1>7, <1>8 DEF PolicyInv, Consistent, OnePerNeighbour, BestIsSelection
<1>10. QED BY <1>3, <1>7, <1>9 DEF new

LEMMA ClearStep == Clear => PolicyInv'
<1>1. SUFFICES ASSUME Clear PROVE PolicyInv'
  OBVIOUS
<1>2. ASSUME NEW p \in Prefix PROVE Consistent(Table(p)')
  BY <1>1, EmptyConsistent DEF Clear, Table
<1>3. TypeOK'
  BY <1>1 DEF Clear, TypeOK
<1>4. QED BY <1>2, <1>3 DEF PolicyInv, Consistent, OnePerNeighbour, BestIsSelection

\* The announcements a call of receiveAnnouncementWithPrepend builds.
LEMMA PrependedType ==
  ASSUME NEW a \in InlinePrepends
  PROVE  /\ PrependASN(a.ann, a.asn, a.next_hop, a.rel) \in Announcement
         /\ PrependASN(a.ann, a.asn, a.next_hop, a.rel).rov_invalid = a.ann.rov_invalid
<1>1. /\ a.asn \in ASN /\ a.next_hop \in ASN /\ a.rel \in Relationship
      /\ a.ann \in Announcement
  BY PolicyAssumption
<1>2. QED BY <1>1, PrependResult DEF PrependASN

LEMMA NextPolicyInv == PolicyInv /\ [Next]_vars => PolicyInv'
<1>1. SUFFICES ASSUME PolicyInv, [Next]_vars PROVE PolicyInv'
  OBVIOUS
<1>2. ASSUME NEW p \in Prefix, NEW ann \in Wire, ReceiveAnnouncement(p, ann)
      PROVE  PolicyInv'
  BY <1>1, <1>2, BGPReceiveStep, WireAssumption DEF ReceiveAnnouncement
<1>3. ASSUME NEW ann \in Wire, DropAnnouncement(ann)
      PROVE  UNCHANGED vars
  BY <1>3 DEF DropAnnouncement
<1>4. ASSUME NEW p \in Prefix, NEW a \in InlinePrepends,
             ReceiveAnnouncementWithPrepend(p, a.ann, a.asn, a.next_hop, a.rel)
      PROVE  PolicyInv'
  BY <1>1, <1>4, BGPReceiveStep, PrependedType DEF ReceiveAnnouncementWithPrepend
<1>5. ASSUME UNCHANGED vars PROVE PolicyInv'
  BY <1>1, <1>5
     DEF vars, PolicyInv, TypeOK, Table, Consistent, OnePerNeighbour, BestIsSelection
<1>6. QED BY <1>1, <1>2, <1>3, <1>4, <1>5, ClearStep DEF Next

LEMMA PolicyInvariance == Spec => []PolicyInv
BY InitPolicyInv, NextPolicyInv, PTL DEF Spec
-----------------------------------------------------------------------------
\* The variables of a policy object hold what their declarations say.
THEOREM TypeCorrect == Spec => []TypeOK
BY PolicyInvariance, PTL DEF PolicyInv

\* A neighbour never has two routes for one prefix, whatever arrives and in
\* whatever order.
THEOREM NeighboursDistinct == Spec => []OneRoutePerNeighbour
<1>1. PolicyInv => OneRoutePerNeighbour
  BY DEF PolicyInv, Consistent, OneRoutePerNeighbour, Table
<1>2. QED BY <1>1, PolicyInvariance, PTL

\* The route in use is at all times the one a full selection over the received
\* routes would return.
THEOREM BestNeverStale == Spec => []BestIsSelected
<1>1. PolicyInv => BestIsSelected
  BY DEF PolicyInv, Consistent, BestIsSelected
<1>2. QED BY <1>1, PolicyInvariance, PTL
-----------------------------------------------------------------------------
\* Queues without invalid routes; the routes in use come from the queues.
QueuesValid ==
  \A p \in Prefix : \A k \in DOMAIN received_queue[p] : ~received_queue[p][k].rov_invalid

LEMMA ReceiveValid ==
  ASSUME PolicyInv, QueuesValid,
         NEW p \in Prefix, NEW ann \in Announcement, ~ann.rov_invalid, BGPReceive(p, ann)
  PROVE  QueuesValid'
<1>1. SUFFICES ASSUME NEW q \in Prefix, NEW k \in DOMAIN received_queue'[q]
               PROVE  ~received_queue'[q][k].rov_invalid
  BY DEF QueuesValid
<1>2. CASE q # p
  BY <1>1, <1>2, BGPReceiveStep DEF QueuesValid
<1>3. CASE q = p
  <2>1. received_queue[p] \in Seq(Announcement) /\ OnePerNeighbour(received_queue[p])
    BY DEF PolicyInv, Consistent, Table
  <2>2. received_queue'[q] = Store(received_queue[p], ann)
    BY <1>3, BGPReceiveStep
  <2>3. \/ received_queue'[q][k] = ann
        \/ \E j \in DOMAIN received_queue[p] : received_queue'[q][k] = received_queue[p][j]
    BY <1>1, <2>1, <2>2, StoreResult
  <2>4. QED BY <2>3 DEF QueuesValid
<1>4. QED BY <1>2, <1>3

(***************************************************************************)
(* A policy of class ROV never holds an invalid route (rov.cpp:90), as     *)
(* long as receiveAnnouncementWithPrepend, which has no filter, is called  *)
(* for valid announcements only.                                           *)
(***************************************************************************)
THEOREM RovFilters ==
  ASSUME \A a \in InlinePrepends : ~a.ann.rov_invalid
  PROVE  Spec => []InvalidKeptOut
<1> DEFINE Inv == PolicyInv /\ (Filtering => QueuesValid)
<1>1. Init => Inv
  BY InitPolicyInv DEF Init, QueuesValid
<1>2. Inv /\ [Next]_vars => Inv'
  <2>1. SUFFICES ASSUME Inv, [Next]_vars, Filtering PROVE QueuesValid'
    BY NextPolicyInv
  <2>2. ASSUME NEW p \in Prefix, NEW ann \in Wire, ReceiveAnnouncement(p, ann)
        PROVE  QueuesValid'
    BY <2>1, <2>2, ReceiveValid, WireAssumption DEF ReceiveAnnouncement, Drops
  <2>3. ASSUME NEW p \in Prefix, NEW a \in InlinePrepends,
               ReceiveAnnouncementWithPrepend(p, a.ann, a.asn, a.next_hop, a.rel)
        PROVE  QueuesValid'
    BY <2>1, <2>3, ReceiveValid, PrependedType DEF ReceiveAnnouncementWithPrepend
  <2>4. ASSUME Clear PROVE QueuesValid'
    BY <2>4 DEF Clear, QueuesValid
  <2>5. ASSUME UNCHANGED vars PROVE QueuesValid'
    BY <2>1, <2>5 DEF vars, QueuesValid
  <2>6. QED
    BY <2>1, <2>2, <2>3, <2>4, <2>5
       DEF Next, DropAnnouncement
<1>3. Inv => InvalidKeptOut
  <2>1. SUFFICES ASSUME Inv, Filtering, NEW p \in Prefix, local_rib[p] # NoRoute
                 PROVE  ~local_rib[p].rov_invalid
    BY DEF InvalidKeptOut, QueuesValid
  <2>2. \E k \in DOMAIN received_queue[p] : received_queue[p][k] = local_rib[p]
    <3>1. Consistent(Table(p)) /\ Table(p).best = local_rib[p]
      BY <2>1 DEF PolicyInv, Table
    <3>2. \E k \in DOMAIN Table(p).queue : Table(p).queue[k] = Table(p).best
      BY <2>1, <3>1, ConsistentBest
    <3>3. QED BY <3>1, <3>2 DEF Table
  <2>3. QED BY <2>1, <2>2 DEF QueuesValid
<1>4. QED BY <1>1, <1>2, <1>3, PTL DEF Spec
-----------------------------------------------------------------------------
\* It holds of every step after which the best route is unbeaten in its queue.
LEMMA ConsistentKeeps ==
  ASSUME PolicyInv', NEW p \in Prefix
  PROVE  KeepsUnlessWithdrawn(p)
<1>1. SUFFICES ASSUME local_rib[p] # NoRoute,
                      local_rib'[p] = NoRoute \/ Outranks(local_rib[p], local_rib'[p]),
                      NEW k \in DOMAIN received_queue'[p],
                      received_queue'[p][k] = local_rib[p]
               PROVE  FALSE
  BY DEF KeepsUnlessWithdrawn, Holds
<1> DEFINE table == [queue |-> received_queue'[p], best |-> local_rib'[p]]
<1>2. Consistent(table)
  BY DEF PolicyInv, Table, Consistent, OnePerNeighbour, BestIsSelection
<1>3. /\ local_rib'[p] = NoRoute <=> received_queue'[p] = <<>>
      /\ local_rib'[p] # NoRoute =>
           \A j \in DOMAIN received_queue'[p] : ~Outranks(received_queue'[p][j], local_rib'[p])
  BY <1>2, ConsistentBest
<1>4. QED BY <1>1, <1>3

\* A route in use is given up for a less preferred one only when its neighbour
\* has replaced it or the policy is cleared.
THEOREM NoSpontaneousLoss == Spec => WorsensOnlyWhenWithdrawn
<1>1. PolicyInv /\ [Next]_vars => [\A p \in Prefix : KeepsUnlessWithdrawn(p)]_vars
  BY NextPolicyInv, ConsistentKeeps
<1>2. QED
  BY <1>1, PolicyInvariance, PTL DEF Spec, WorsensOnlyWhenWithdrawn
-----------------------------------------------------------------------------
(***************************************************************************)
(* The refinement of AdjRibIn.                                             *)
(***************************************************************************)

\* The speaker reads preference and memory as module Preference has them.
LEMMA SpeakerReadsAlike ==
  /\ \A table, ann : Speaker!Remember(table, ann) = Remember(table, ann)
  /\ \A routes : Speaker!MostPreferred(routes) = MostPreferred(routes)
BY DEF Speaker!Remember, Remember, Speaker!MostPreferred, MostPreferred,
       Speaker!PreferredTo, PreferredTo, Speaker!Place, Place, Speaker!Precedence, Precedence

\* Receiving an admitted announcement is a step of the speaker.
LEMMA BGPReceiveAnnounces ==
  ASSUME PolicyInv, NEW p \in Prefix, NEW ann \in Announcement, BGPReceive(p, ann)
  PROVE  Speaker!Announce(p, ann)
<1> DEFINE adj == [q \in Prefix |-> ByNextHop(received_queue[q])]
           table == Speaker!Remember(adj[p], ann)
           new == Receive(Table(p), ann)
<1>1. Consistent(Table(p)) /\ Consistent(new)
  BY ReceiveKeepsConsistent DEF PolicyInv
<1>2. received_queue[p] \in Seq(Announcement) /\ OnePerNeighbour(received_queue[p])
  BY <1>1 DEF Consistent, Table
<1>3. new.queue = Store(received_queue[p], ann) /\ new.queue # <<>>
  BY <1>2, StoreResult DEF Receive, Table
<1>4. table = ByNextHop(new.queue)
  BY <1>2, <1>3, StoreIsRemember, SpeakerReadsAlike
<1>5. /\ new.queue \in Seq(Announcement)
      /\ OnePerNeighbour(new.queue)
      /\ new.best = SelectBestRoute(new.queue)
  BY <1>1, <1>3 DEF Consistent, BestIsSelection
<1>6. new.best = Speaker!MostPreferred({table[n] : n \in DOMAIN table})
  <2> HIDE DEF new, table
  <2>1. QED BY <1>3, <1>4, <1>5, MostPreferredIsSelected, SpeakerReadsAlike
<1>7. local_rib' = [local_rib EXCEPT ![p] = new.best]
  BY DEF BGPReceive
<1>8. received_queue' = [received_queue EXCEPT ![p] = new.queue]
  BY DEF BGPReceive
<1>9. [q \in Prefix |-> ByNextHop(received_queue'[q])] = [adj EXCEPT ![p] = table]
  <2> HIDE DEF new, table
  <2>1. DOMAIN received_queue = Prefix
    BY DEF PolicyInv, TypeOK
  <2>2. \A q \in Prefix :
          received_queue'[q] = IF q = p THEN new.queue ELSE received_queue[q]
    BY <1>8, <2>1
  <2>3. QED BY <1>4, <2>2
<1> HIDE DEF new
<1>10. QED BY <1>6, <1>7, <1>9 DEF Speaker!Announce

(***************************************************************************)
(* A policy object implements the BGP speaker of AdjRibIn: its queue is    *)
(* the memory of the last announcement of every neighbour, its best route  *)
(* the most preferred of those, with and without the ROV filter.           *)
(***************************************************************************)
THEOREM PolicyImplementsSpeaker == Spec => IsSpeaker
<1> DEFINE adj == [q \in Prefix |-> ByNextHop(received_queue[q])]
<1>1. ByNextHop(<<>>) = <<>>
  BY DEF ByNextHop, NextHops
<1>2. Init => Speaker!Init
  BY <1>1 DEF Init, Speaker!Init
<1>3. PolicyInv /\ [Next]_vars => [Speaker!Next]_(Speaker!vars)
  <2>1. SUFFICES ASSUME PolicyInv, Next \/ UNCHANGED vars
                 PROVE  Speaker!Next \/ UNCHANGED Speaker!vars
    OBVIOUS
  <2>2. ASSUME NEW p \in Prefix, NEW ann \in Wire, ReceiveAnnouncement(p, ann)
        PROVE  Speaker!Next
    <3>1. ann \in Announcement /\ ann \in Admitted
      BY <2>2, WireAssumption DEF ReceiveAnnouncement, Admitted, Drops
    <3>2. Speaker!Announce(p, ann)
      BY <2>1, <2>2, <3>1, BGPReceiveAnnounces DEF ReceiveAnnouncement
    <3>3. QED BY <3>1, <3>2 DEF Speaker!Next
  <2>3. ASSUME NEW p \in Prefix, NEW a \in InlinePrepends,
               ReceiveAnnouncementWithPrepend(p, a.ann, a.asn, a.next_hop, a.rel)
        PROVE  Speaker!Next
    <3> DEFINE built == PrependASN(a.ann, a.asn, a.next_hop, a.rel)
    <3>1. BGPReceive(p, built)
      BY <2>3 DEF ReceiveAnnouncementWithPrepend
    <3>2. built \in Announcement /\ built \in Prepended
      BY PrependedType DEF Prepended
    <3>3. built \in Admitted
      BY <3>2 DEF Admitted
    <3> HIDE DEF built
    <3>4. Speaker!Announce(p, built)
      BY <2>1, <3>1, <3>2, BGPReceiveAnnounces
    <3>5. QED BY <3>3, <3>4 DEF Speaker!Next
  <2>4. ASSUME Clear PROVE Speaker!Next
    BY <1>1, <2>4 DEF Clear, Speaker!Next, Speaker!Forget
  <2>5. ASSUME UNCHANGED vars PROVE UNCHANGED Speaker!vars
    BY <2>5 DEF vars, Speaker!vars
  <2>6. QED BY <2>1, <2>2, <2>3, <2>4, <2>5 DEF Next, DropAnnouncement
<1>4. QED BY <1>2, <1>3, PolicyInvariance, PTL DEF Spec, IsSpeaker, Speaker!Spec
=============================================================================
