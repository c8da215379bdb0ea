--------------------------- MODULE RouteTableProofs ---------------------------
(***************************************************************************)
(* Facts about the operators of Announcements, RouteTable, Preference and  *)
(* ASGraph, for every set of ASes, path bound and field width their        *)
(* assumptions allow: the comparisons and prependASN; what the scan        *)
(* selects, what storing an announcement does to a queue, that a table     *)
(* stays consistent when an announcement is received, and what an AS sends *)
(* to whom.                                                                *)
(***************************************************************************)
EXTENDS ASGraph, Preference, SequenceTheorems, FiniteSetTheorems, WellFoundedInduction, TLAPS


\* Multiplying by a base keeps the order of two naturals, with the whole base
\* between their images.
LEMMA StepOfBase ==
  ASSUME NEW base \in Nat, NEW x \in Nat, NEW y \in Nat, x < y
  PROVE  x * base + base <= y * base
<1>1. PICK d \in Nat : y = x + 1 + d
  <2>1. y - x - 1 \in Nat /\ y = x + 1 + (y - x - 1)
    OBVIOUS
  <2>2. QED BY <2>1
<1>2. y * base = x * base + base + d * base
  BY <1>1
<1>3. d * base >= 0 /\ x * base \in Int /\ d * base \in Int
  BY <1>1
<1>4. QED BY <1>2, <1>3

\* A number written as a high digit and a low digit is ordered by the high
\* digit first.  It is how each field of the score sits above the next.
LEMMA TwoDigits ==
  ASSUME NEW base \in Nat,
         NEW x \in Nat, NEW y \in Nat,
         NEW u \in Nat, NEW v \in Nat, u < base, v < base
  PROVE  x * base + u < y * base + v <=> x < y \/ (x = y /\ u < v)
<1> DEFINE X == x * base
           Y == y * base
<1>0. X \in Int /\ Y \in Int
  OBVIOUS
<1>1. CASE x < y
  <2>1. X + base <= Y
    BY <1>1, StepOfBase
  <2> HIDE DEF X, Y
  <2>2. X + u < Y + v
    BY <1>0, <2>1
  <2>3. QED BY <1>1, <2>2 DEF X, Y
<1>2. CASE y < x
  <2>1. Y + base <= X
    BY <1>2, StepOfBase
  <2> HIDE DEF X, Y
  <2>2. ~(X + u < Y + v)
    BY <1>0, <2>1
  <2>3. QED BY <1>2, <2>2 DEF X, Y
<1>3. CASE x = y
  <2>1. X = Y
    BY <1>3
  <2> HIDE DEF X, Y
  <2>2. X + u < Y + v <=> u < v
    BY <1>0, <2>1
  <2>3. QED BY <1>3, <2>2 DEF X, Y
<1>4. QED BY <1>1, <1>2, <1>3

\* The fields of an announcement the two orders read.
LEMMA FieldTypes ==
  ASSUME NEW a \in Announcement
  PROVE  /\ Len(a.path) \in Nat /\ Len(a.path) < LengthBase
         /\ a.next_hop \in Nat /\ a.next_hop < NextHopBase
         /\ a.received_from \in Relationship
         /\ RelationshipValue[a.received_from] \in Nat
<1>1. Len(a.path) \in 1..MaxPathLen
  BY DEF Announcement, Path
<1>2. a.next_hop \in ASN /\ a.received_from \in Relationship
  BY DEF Announcement
<1>3. RelationshipValue[a.received_from] \in Nat
  BY <1>2 DEF Relationship, RelationshipValue
<1>4. Len(a.path) \in Nat /\ Len(a.path) < LengthBase
  BY <1>1, MaxPathLenAssumption, FieldAssumption
<1>5. a.next_hop \in Nat /\ a.next_hop < NextHopBase
  BY <1>2, ASNAssumption, FieldAssumption
<1>6. QED BY <1>2, <1>3, <1>4, <1>5

LEMMA ScoreType ==
  ASSUME NEW a \in Announcement
  PROVE  Score(a) \in Nat
<1> DEFINE high == RelationshipValue[a.received_from] * LengthBase + Len(a.path)
<1>1. LengthBase \in Nat /\ NextHopBase \in Nat
  BY FieldAssumption
<1>2. high \in Nat
  BY <1>1, FieldTypes
<1> HIDE DEF high
<1>3. high * NextHopBase + a.next_hop \in Nat
  BY <1>1, <1>2, FieldTypes
<1>4. QED BY <1>3 DEF Score, high

(***************************************************************************)
(* The packed score (announcement.cpp:239) orders announcements exactly as *)
(* the step-by-step comparison of selectBestRoute (bgp.cpp:381) does:      *)
(* relationship, then length, then next hop.  The two are written apart in *)
(* the code, and receiveAnnouncement uses both.                            *)
(***************************************************************************)
THEOREM ScoreIsSelectionOrder ==
  ASSUME NEW a \in Announcement, NEW b \in Announcement
  PROVE  Better(a, b) <=> Outranks(a, b)
<1> DEFINE relA == RelationshipValue[a.received_from]
           relB == RelationshipValue[b.received_from]
           lenA == Len(a.path)
           lenB == Len(b.path)
           highA == relA * LengthBase + lenA
           highB == relB * LengthBase + lenB
           hopA == a.next_hop
           hopB == b.next_hop
<1>1. /\ relA \in Nat /\ relB \in Nat
      /\ lenA \in Nat /\ lenA < LengthBase /\ lenB \in Nat /\ lenB < LengthBase
      /\ hopA \in Nat /\ hopA < NextHopBase /\ hopB \in Nat /\ hopB < NextHopBase
      /\ a.received_from \in Relationship /\ b.received_from \in Relationship
  BY FieldTypes
<1>2. LengthBase \in Nat /\ NextHopBase \in Nat
  BY FieldAssumption
<1>3. /\ highA < highB <=> relA < relB \/ (relA = relB /\ lenA < lenB)
      /\ highB < highA <=> relB < relA \/ (relB = relA /\ lenB < lenA)
  <2> HIDE DEF relA, relB, lenA, lenB
  <2>1. QED BY <1>1, <1>2, TwoDigits
<1>4. highA \in Nat /\ highB \in Nat
  <2> HIDE DEF relA, relB, lenA, lenB
  <2>1. QED BY <1>1, <1>2
<1>5. highA = highB <=> relA = relB /\ lenA = lenB
  <2> HIDE DEF relA, relB, lenA, lenB, highA, highB
  <2>1. highA = highB => relA = relB /\ lenA = lenB
    BY <1>1, <1>3, <1>4
  <2>2. relA = relB /\ lenA = lenB => highA = highB
    BY DEF highA, highB
  <2>3. QED BY <2>1, <2>2
<1>6. Better(a, b) <=> highA < highB \/ (highA = highB /\ hopA < hopB)
  <2> HIDE DEF highA, highB, hopA, hopB
  <2>1. highA * NextHopBase + hopA < highB * NextHopBase + hopB
          <=> highA < highB \/ (highA = highB /\ hopA < hopB)
    BY <1>1, <1>2, <1>4, TwoDigits
  <2>2. QED BY <2>1 DEF Better, Score, highA, highB, hopA, hopB
<1>7. Better(a, b) <=> \/ relA < relB
                       \/ relA = relB /\ lenA < lenB
                       \/ relA = relB /\ lenA = lenB /\ hopA < hopB
  <2> HIDE DEF relA, relB, lenA, lenB, highA, highB
  <2>1. QED BY <1>3, <1>5, <1>6
<1>8. /\ relA = relB <=> a.received_from = b.received_from
      /\ relA < relB <=>
           \/ a.received_from = "ORIGIN" /\ b.received_from # "ORIGIN"
           \/ /\ a.received_from # "ORIGIN" /\ b.received_from # "ORIGIN"
              /\ EnumValue[a.received_from] < EnumValue[b.received_from]
  BY <1>1 DEF Relationship, RelationshipValue, EnumValue
<1>9. QED
  <2> HIDE DEF relA, relB
  <2>1. QED BY <1>7, <1>8 DEF Outranks, ShorterOrLowerNextHop

(***************************************************************************)
(* Prepending (announcement.cpp:272) yields an announcement again: the     *)
(* fixed array never overflows, the own AS is in front, and everything     *)
(* behind it is the old path, which loses its origin if it was full.       *)
(***************************************************************************)
THEOREM PrependResult ==
  ASSUME NEW ann \in Announcement, NEW asn \in ASN, NEW nextHop \in ASN,
         NEW rel \in Relationship
  PROVE  LET new == PrependASN(ann, asn, nextHop, rel)
         IN  /\ new \in Announcement
             /\ new.path[1] = asn
             /\ new.next_hop = nextHop
             /\ new.received_from = rel
             /\ new.rov_invalid = ann.rov_invalid
             /\ Len(new.path) = IF Len(ann.path) < MaxPathLen
                                THEN Len(ann.path) + 1 ELSE MaxPathLen
             /\ \A k \in 2..Len(new.path) : new.path[k] = ann.path[k - 1]
             /\ Len(ann.path) < MaxPathLen => GetOriginASN(new) = GetOriginASN(ann)
<1> DEFINE old == ann.path
           kept == IF Len(old) < MaxPathLen THEN Len(old) ELSE MaxPathLen - 1
           tail == SubSeq(old, 1, kept)
           new == PrependASN(ann, asn, nextHop, rel)
<1>1. old \in Seq(ASN) /\ Len(old) \in 1..MaxPathLen /\ MaxPathLen \in Nat \ {0}
  BY MaxPathLenAssumption DEF Announcement, Path
<1>2. kept \in Nat /\ kept <= Len(old) /\ kept + 1 <= MaxPathLen
  BY <1>1
<1>3. tail \in Seq(ASN) /\ Len(tail) = kept /\ \A k \in 1..kept : tail[k] = old[k]
  <2> HIDE DEF old, kept
  <2>1. QED BY <1>1, <1>2
<1>4. /\ <<asn>> \o tail \in Seq(ASN)
      /\ Len(<<asn>> \o tail) = kept + 1
      /\ (<<asn>> \o tail)[1] = asn
      /\ \A k \in 2..(kept + 1) : (<<asn>> \o tail)[k] = tail[k - 1]
  <2> HIDE DEF tail, kept, old
  <2>1. QED BY <1>2, <1>3
<1>5. new = [path |-> <<asn>> \o tail, next_hop |-> nextHop,
             received_from |-> rel, rov_invalid |-> ann.rov_invalid]
  BY DEF PrependASN, MakeAnnouncement
<1>6. /\ new.path = <<asn>> \o tail
      /\ new.next_hop = nextHop /\ new.received_from = rel
      /\ new.rov_invalid = ann.rov_invalid
  <2> HIDE DEF tail, new
  <2>1. QED BY <1>5
<1>7. <<asn>> \o tail \in Path
  <2> HIDE DEF tail, kept, old
  <2>1. kept + 1 \in 1..MaxPathLen
    BY <1>1, <1>2
  <2>2. QED BY <1>4, <2>1 DEF Path
<1>8. new \in Announcement
  <2> HIDE DEF tail
  <2>1. ann.rov_invalid \in BOOLEAN
    BY DEF Announcement
  <2>2. QED BY <1>5, <1>7, <2>1 DEF Announcement
<1>9. \A k \in 2..Len(new.path) : new.path[k] = old[k - 1]
  <2> HIDE DEF tail, kept, old, new
  <2>1. SUFFICES ASSUME NEW k \in 2..(kept + 1)
                 PROVE  new.path[k] = old[k - 1]
    BY <1>4, <1>6
  <2>2. k - 1 \in 1..kept
    BY <1>2
  <2>3. QED BY <1>3, <1>4, <1>6, <2>2
<1>10. Len(new.path) = IF Len(old) < MaxPathLen THEN Len(old) + 1 ELSE MaxPathLen
  <2>1. kept + 1 = IF Len(old) < MaxPathLen THEN Len(old) + 1 ELSE MaxPathLen
    BY <1>1
  <2> HIDE DEF tail, kept, old, new
  <2>2. QED BY <1>4, <1>6, <2>1
<1>11. Len(old) < MaxPathLen => GetOriginASN(new) = GetOriginASN(ann)
  <2>1. SUFFICES ASSUME Len(old) < MaxPathLen
                 PROVE  new.path[Len(new.path)] = old[Len(old)]
    BY DEF GetOriginASN
  <2> HIDE DEF tail, kept, old, new
  <2>2. QED BY <1>1, <1>9, <1>10, <2>1
<1>12. new.path[1] = asn
  <2> HIDE DEF tail, kept, new
  <2>1. QED BY <1>4, <1>6
<1>13. QED
  <2> HIDE DEF new
  <2>1. QED BY <1>6, <1>8, <1>9, <1>10, <1>11, <1>12 DEF new
-----------------------------------------------------------------------------
\* Position i of a queue holds what the scan ends with.
IsSelection(queue, i) ==
  /\ \A j \in DOMAIN queue : ~Outranks(queue[j], queue[i])
  /\ \A j \in 1..(i - 1) : Outranks(queue[i], queue[j])

\* The selection order read as an order on integers.
LEMMA OutranksByScore ==
  ASSUME NEW a \in Announcement, NEW b \in Announcement
  PROVE  /\ Score(a) \in Nat /\ Score(b) \in Nat
         /\ Outranks(a, b) <=> Score(a) < Score(b)
BY ScoreType, ScoreIsSelectionOrder DEF Better

\* Two routes neither of which outranks the other come from one neighbour.
LEMMA TieHasSameNextHop ==
  ASSUME NEW a \in Announcement, NEW b \in Announcement,
         ~Outranks(a, b), ~Outranks(b, a)
  PROVE  a.next_hop = b.next_hop
<1>1. a.received_from = b.received_from
  BY FieldTypes DEF Outranks, Relationship, EnumValue
<1>2. QED
  BY <1>1, FieldTypes DEF Outranks, ShorterOrLowerNextHop

LEMMA LeastElement ==
  ASSUME NEW S, S \subseteq Nat, S # {}
  PROVE  \E m \in S : \A n \in S : m <= n
<1>1. PICK m \in S : \A n \in S : ~(<<n, m>> \in OpToRel(<, Nat))
  BY NatLessThanWellFounded, WFMin
<1>2. ASSUME NEW n \in S
      PROVE  ~(n < m)
  <2>1. <<n, m>> \in Nat \X Nat
    OBVIOUS
  <2>2. <<n, m>>[1] < <<n, m>>[2] <=> n < m
    OBVIOUS
  <2>3. <<n, m>> \in Nat \X Nat /\ <<n, m>>[1] < <<n, m>>[2] => <<n, m>> \in OpToRel(<, Nat)
    BY Zenon DEF OpToRel
  <2>4. QED BY <1>1, <2>1, <2>2, <2>3
<1>3. m \in Nat /\ \A n \in S : n \in Nat
  OBVIOUS
<1>4. QED BY <1>2, <1>3

\* In every queue that is not empty the scan has something to select: take the
\* first of the routes with the lowest score.
LEMMA SelectionExists ==
  ASSUME NEW queue \in Seq(Announcement), queue # <<>>
  PROVE  \E i \in DOMAIN queue : IsSelection(queue, i)
<1> DEFINE scores == {Score(queue[j]) : j \in DOMAIN queue}
<1>1. /\ DOMAIN queue = 1..Len(queue) /\ Len(queue) \in Nat \ {0}
      /\ \A j \in DOMAIN queue : queue[j] \in Announcement /\ Score(queue[j]) \in Nat
  BY ScoreType
<1>2. scores \subseteq Nat /\ scores # {}
  BY <1>1
<1>3. PICK lowest \in scores : \A s \in scores : lowest <= s
  <2> HIDE DEF scores
  <2>1. QED BY <1>2, LeastElement
<1> DEFINE places == {j \in DOMAIN queue : Score(queue[j]) = lowest}
<1>4. places \subseteq Nat /\ places # {}
  BY <1>1
<1>5. PICK i \in places : \A j \in places : i <= j
  <2> HIDE DEF places
  <2>1. QED BY <1>4, LeastElement
<1>6. i \in DOMAIN queue /\ Score(queue[i]) = lowest /\ i \in Nat
  BY <1>1, <1>5
<1>7. ASSUME NEW j \in DOMAIN queue
      PROVE  lowest <= Score(queue[j])
  BY <1>3
<1>8. ASSUME NEW j \in DOMAIN queue
      PROVE  ~Outranks(queue[j], queue[i])
  BY <1>1, <1>2, <1>6, <1>7, OutranksByScore
<1>9. ASSUME NEW j \in 1..(i - 1)
      PROVE  Outranks(queue[i], queue[j])
  <2>1. j \in DOMAIN queue /\ j < i
    BY <1>1, <1>6
  <2>2. Score(queue[j]) # lowest
    BY <1>5, <2>1, <1>1
  <2>3. Score(queue[i]) < Score(queue[j])
    BY <1>1, <1>2, <1>6, <1>7, <2>1, <2>2
  <2>4. QED BY <1>1, <1>6, <2>1, <2>3, OutranksByScore
<1>10. QED BY <1>6, <1>8, <1>9 DEF IsSelection

\* The scan has one result only.
LEMMA SelectionUnique ==
  ASSUME NEW queue \in Seq(Announcement),
         NEW i \in DOMAIN queue, IsSelection(queue, i)
  PROVE  SelectBestRoute(queue) = queue[i]
<1>1. DOMAIN queue = 1..Len(queue) /\ Len(queue) \in Nat
  OBVIOUS
<1>2. ASSUME NEW k \in DOMAIN queue, IsSelection(queue, k)
      PROVE  k = i
  <2>1. ~(k < i)
    BY <1>1, <1>2 DEF IsSelection
  <2>2. ~(i < k)
    BY <1>1, <1>2 DEF IsSelection
  <2>3. QED BY <1>1, <2>1, <2>2
<1>3. (CHOOSE k \in DOMAIN queue : IsSelection(queue, k)) = i
  BY <1>2
<1>4. QED BY <1>3 DEF SelectBestRoute, IsSelection

LEMMA SelectionResult ==
  ASSUME NEW queue \in Seq(Announcement), queue # <<>>
  PROVE  /\ SelectBestRoute(queue) \in Announcement
         /\ \E i \in DOMAIN queue : /\ SelectBestRoute(queue) = queue[i]
                                    /\ IsSelection(queue, i)
<1>1. PICK i \in DOMAIN queue : IsSelection(queue, i)
  BY SelectionExists
<1>2. SelectBestRoute(queue) = queue[i]
  BY <1>1, SelectionUnique
<1>3. queue[i] \in Announcement
  OBVIOUS
<1>4. QED BY <1>1, <1>2, <1>3
-----------------------------------------------------------------------------
\* Storing an announcement (bgp.cpp:101-116) exchanges the route of its own
\* neighbour for it and keeps every other route.
LEMMA StoreResult ==
  ASSUME NEW queue \in Seq(Announcement), OnePerNeighbour(queue),
         NEW ann \in Announcement
  PROVE  LET new == Store(queue, ann)
         IN  /\ new \in Seq(Announcement)
             /\ new # <<>>
             /\ OnePerNeighbour(new)
             /\ \E k \in DOMAIN new : new[k] = ann
             /\ \A k \in DOMAIN new :
                  \/ new[k] = ann
                  \/ \E j \in DOMAIN queue : /\ new[k] = queue[j]
                                             /\ queue[j].next_hop # ann.next_hop
             /\ \A j \in DOMAIN queue :
                  queue[j].next_hop # ann.next_hop => \E k \in DOMAIN new : new[k] = queue[j]
<1> DEFINE new == Store(queue, ann)
           slots == Slots(queue, ann.next_hop)
<1>1. DOMAIN queue = 1..Len(queue) /\ Len(queue) \in Nat
  OBVIOUS
<1>2. CASE slots = {}
  <2>1. new = Append(queue, ann)
    BY <1>2 DEF Store
  <2>2. /\ new \in Seq(Announcement)
        /\ DOMAIN new = 1..(Len(queue) + 1)
        /\ new[Len(queue) + 1] = ann
        /\ \A j \in 1..Len(queue) : new[j] = queue[j]
    BY <1>1, <2>1
  <2>3. \A j \in DOMAIN queue : queue[j].next_hop # ann.next_hop
    BY <1>2 DEF Slots
  <2> HIDE DEF new
  <2>4. \A k \in DOMAIN new : (k \in DOMAIN queue /\ new[k] = queue[k]) \/ (k = Len(queue) + 1 /\ new[k] = ann)
    BY <1>1, <2>2
  <2>5. OnePerNeighbour(new)
    BY <1>1, <2>3, <2>4 DEF OnePerNeighbour
  <2>6. \E k \in DOMAIN new : new[k] = ann
    BY <1>1, <2>2
  <2>7. \A j \in DOMAIN queue : \E k \in DOMAIN new : new[k] = queue[j]
    BY <1>1, <2>2
  <2>8. new # <<>>
    BY <2>6
  <2>9. QED BY <2>2, <2>3, <2>4, <2>5, <2>6, <2>7, <2>8 DEF new
<1>3. CASE slots # {}
  <2>1. PICK i \in slots : TRUE
    BY <1>3
  <2>2. i \in DOMAIN queue /\ queue[i].next_hop = ann.next_hop
    BY DEF Slots
  <2>3. slots = {i}
    BY <2>2 DEF Slots, OnePerNeighbour
  <2>4. (CHOOSE k \in slots : \A j \in slots : k <= j) = i
    BY <1>1, <2>2, <2>3
  <2>5. new = [queue EXCEPT ![i] = ann]
    BY <1>3, <2>4 DEF Store
  <2>6. /\ new \in Seq(Announcement)
        /\ DOMAIN new = DOMAIN queue
        /\ new[i] = ann
        /\ \A j \in DOMAIN queue : j # i => new[j] = queue[j]
    BY <1>1, <2>2, <2>5
  <2>7. \A j \in DOMAIN queue : queue[j].next_hop = ann.next_hop <=> j = i
    BY <2>2 DEF OnePerNeighbour
  <2> HIDE DEF new
  <2>8. OnePerNeighbour(new)
    BY <2>2, <2>6, <2>7 DEF OnePerNeighbour
  <2>9. new # <<>>
    BY <2>2, <2>6
  <2>10. QED BY <2>2, <2>6, <2>7, <2>8, <2>9 DEF new
<1>4. QED BY <1>2, <1>3

\* In a queue with one route per neighbour a route that is not outranked is
\* the only one, hence the one the scan selects.
LEMMA UnbeatenIsSelected ==
  ASSUME NEW queue \in Seq(Announcement), OnePerNeighbour(queue),
         NEW k \in DOMAIN queue, \A j \in DOMAIN queue : ~Outranks(queue[j], queue[k])
  PROVE  SelectBestRoute(queue) = queue[k]
<1>1. queue # <<>>
  OBVIOUS
<1>2. PICK i \in DOMAIN queue : /\ SelectBestRoute(queue) = queue[i]
                                /\ IsSelection(queue, i)
  BY <1>1, SelectionResult
<1>3. ~Outranks(queue[k], queue[i]) /\ ~Outranks(queue[i], queue[k])
  BY <1>2 DEF IsSelection
<1>4. queue[k].next_hop = queue[i].next_hop
  BY <1>3, TieHasSameNextHop
<1>5. k = i
  BY <1>4 DEF OnePerNeighbour
<1>6. QED BY <1>2, <1>5

\* What the policy keeps true of the table of a prefix.
Consistent(table) ==
  /\ table.queue \in Seq(Announcement)
  /\ OnePerNeighbour(table.queue)
  /\ BestIsSelection(table)

LEMMA ConsistentBest ==
  ASSUME NEW table, Consistent(table)
  PROVE  /\ table.best \in Announcement \cup {NoRoute}
         /\ table.best = NoRoute <=> table.queue = <<>>
         /\ table.best # NoRoute =>
              \E i \in DOMAIN table.queue :
                /\ table.queue[i] = table.best
                /\ \A j \in DOMAIN table.queue : ~Outranks(table.queue[j], table.best)
<1>1. CASE table.queue = <<>>
  BY <1>1 DEF Consistent, BestIsSelection
<1>2. CASE table.queue # <<>>
  <2>1. table.best = SelectBestRoute(table.queue)
    BY <1>2 DEF Consistent, BestIsSelection
  <2>2. table.queue \in Seq(Announcement)
    BY DEF Consistent
  <2>3. QED BY <1>2, <2>1, <2>2, SelectionResult, NoRouteAssumption DEF IsSelection
<1>3. QED BY <1>1, <1>2

(***************************************************************************)
(* The incremental decision is a full decision: receiveAnnouncement        *)
(* installs, promotes, reselects or keeps (bgp.cpp:120-139), and whichever *)
(* it does the best route is again what a scan of the whole queue selects. *)
(***************************************************************************)
THEOREM ReceiveKeepsConsistent ==
  ASSUME NEW table, Consistent(table), NEW ann \in Announcement
  PROVE  Consistent(Receive(table, ann))
<1> DEFINE old == table.queue
           best == table.best
           queue == Store(old, ann)
           new == Receive(table, ann)
<1>1. old \in Seq(Announcement) /\ OnePerNeighbour(old)
  BY DEF Consistent
<1>2. /\ queue \in Seq(Announcement) /\ queue # <<>> /\ OnePerNeighbour(queue)
      /\ \E k \in DOMAIN queue : queue[k] = ann
      /\ \A k \in DOMAIN queue :
           \/ queue[k] = ann
           \/ \E j \in DOMAIN old : queue[k] = old[j] /\ old[j].next_hop # ann.next_hop
      /\ \A j \in DOMAIN old :
           old[j].next_hop # ann.next_hop => \E k \in DOMAIN queue : queue[k] = old[j]
  <2> HIDE DEF old
  <2>1. QED BY <1>1, StoreResult, ZenonT(60)
<1>3. new.queue = queue
  BY DEF Receive
<1>4. SUFFICES new.best = SelectBestRoute(queue)
  <2> HIDE DEF new, queue
  <2>1. Consistent(new)
    BY <1>2, <1>3, <1>4 DEF Consistent, BestIsSelection
  <2>2. QED BY <2>1 DEF new
<1>5. /\ best \in Announcement \cup {NoRoute}
      /\ best = NoRoute <=> old = <<>>
      /\ best # NoRoute =>
           \E i \in DOMAIN old : /\ old[i] = best
                                 /\ \A j \in DOMAIN old : ~Outranks(old[j], best)
  BY ConsistentBest
<1>6. PICK k \in DOMAIN queue : queue[k] = ann
  BY <1>2
<1>7. CASE best = NoRoute
  <2>1. new.best = ann
    BY <1>7 DEF Receive
  <2> HIDE DEF new, queue, best
  <2>2. \A j \in DOMAIN queue : queue[j] = ann
    BY <1>2, <1>5, <1>7
  <2>3. \A j \in DOMAIN queue : ~Outranks(queue[j], queue[k])
    BY <1>6, <2>2, OutranksByScore
  <2>4. QED BY <1>2, <1>6, <2>1, <2>3, UnbeatenIsSelected
<1>8. CASE best # NoRoute /\ Better(ann, best)
  <2>1. new.best = ann
    BY <1>8 DEF Receive
  <2> HIDE DEF new, queue, best, old
  <2>2. ASSUME NEW j \in DOMAIN queue
        PROVE  ~Outranks(queue[j], queue[k])
    <3>1. CASE queue[j] = ann
      BY <1>6, <3>1, OutranksByScore
    <3>2. CASE \E l \in DOMAIN old : queue[j] = old[l]
      <4>1. PICK l \in DOMAIN old : queue[j] = old[l]
        BY <3>2
      <4>2. old[l] \in Announcement /\ ~Outranks(old[l], best)
        BY <1>1, <1>5, <1>8
      <4>3. Score(ann) < Score(best)
        BY <1>8 DEF Better
      <4>4. QED BY <1>5, <1>6, <1>8, <4>1, <4>2, <4>3, OutranksByScore
    <3>3. QED BY <1>2, <3>1, <3>2
  <2>3. QED BY <1>2, <1>6, <2>1, <2>2, UnbeatenIsSelected
<1>9. CASE best # NoRoute /\ ~Better(ann, best)
  <2>1. PICK i \in DOMAIN old : /\ old[i] = best
                                /\ \A j \in DOMAIN old : ~Outranks(old[j], best)
    BY <1>5, <1>9
  <2>2. Slots(old, ann.next_hop) # {} <=> \E j \in DOMAIN old : old[j].next_hop = ann.next_hop
    BY DEF Slots
  <2>3. CASE best.next_hop = ann.next_hop
    <3>1. Slots(old, ann.next_hop) # {}
      BY <2>1, <2>2, <2>3
    <3>2. QED BY <1>9, <2>3, <3>1 DEF Receive
  <2>4. CASE best.next_hop # ann.next_hop
    <3>1. new.best = best
      BY <1>9, <2>4 DEF Receive
    <3> HIDE DEF new, queue, best, old
    <3>2. PICK l \in DOMAIN queue : queue[l] = best
      BY <1>2, <2>1, <2>4
    <3>3. ASSUME NEW j \in DOMAIN queue
          PROVE  ~Outranks(queue[j], queue[l])
      <4>1. CASE queue[j] = ann
        BY <1>5, <1>9, <3>2, <4>1, ScoreIsSelectionOrder
      <4>2. CASE \E m \in DOMAIN old : queue[j] = old[m]
        BY <2>1, <3>2, <4>2
      <4>3. QED BY <1>2, <4>1, <4>2
    <3>4. QED BY <1>2, <3>1, <3>2, <3>3, UnbeatenIsSelected
  <2>5. QED BY <2>3, <2>4
<1>10. QED BY <1>7, <1>8, <1>9
-----------------------------------------------------------------------------
LEMMA PlaceValues ==
  /\ Place("ORIGIN") = 1 /\ Place("FROM_CUSTOMER") = 2
  /\ Place("FROM_PEER") = 3 /\ Place("FROM_PROVIDER") = 4
<1>1. DOMAIN Precedence = 1..4
  BY DEF Precedence
<1>2. /\ Precedence[1] = "ORIGIN" /\ Precedence[2] = "FROM_CUSTOMER"
      /\ Precedence[3] = "FROM_PEER" /\ Precedence[4] = "FROM_PROVIDER"
  BY DEF Precedence
<1>3. \A k \in 1..4 : k = 1 \/ k = 2 \/ k = 3 \/ k = 4
  OBVIOUS
<1>4. QED BY <1>1, <1>2, <1>3 DEF Place

\* The published order of preference is the one the policy decides by.
LEMMA PreferredIsOutranks ==
  ASSUME NEW a \in Announcement, NEW b \in Announcement
  PROVE  PreferredTo(a, b) <=> Outranks(a, b)
<1>1. /\ Place("ORIGIN") = 1 /\ Place("FROM_CUSTOMER") = 2
      /\ Place("FROM_PEER") = 3 /\ Place("FROM_PROVIDER") = 4
  BY PlaceValues
<1>2. a.received_from \in Relationship /\ b.received_from \in Relationship
  BY FieldTypes
<1>3. /\ Place(a.received_from) < Place(b.received_from) <=>
           \/ a.received_from = "ORIGIN" /\ b.received_from # "ORIGIN"
           \/ /\ a.received_from # "ORIGIN" /\ b.received_from # "ORIGIN"
              /\ EnumValue[a.received_from] < EnumValue[b.received_from]
  BY <1>1, <1>2 DEF Relationship, EnumValue
<1>4. QED
  BY <1>3 DEF PreferredTo, Outranks, ShorterOrLowerNextHop

\* The function a queue with one route per neighbour maps to.
LEMMA ByNextHopValue ==
  ASSUME NEW queue, OnePerNeighbour(queue), NEW k \in DOMAIN queue
  PROVE  /\ queue[k].next_hop \in DOMAIN ByNextHop(queue)
         /\ ByNextHop(queue)[queue[k].next_hop] = queue[k]
<1>1. queue[k].next_hop \in NextHops(queue)
  BY DEF NextHops
<1>2. (CHOOSE j \in DOMAIN queue : queue[j].next_hop = queue[k].next_hop) = k
  BY DEF OnePerNeighbour
<1>3. QED BY <1>1, <1>2 DEF ByNextHop

LEMMA StoreIsRemember ==
  ASSUME NEW queue \in Seq(Announcement), OnePerNeighbour(queue),
         NEW ann \in Announcement
  PROVE  ByNextHop(Store(queue, ann)) = Remember(ByNextHop(queue), ann)
<1> DEFINE new == Store(queue, ann)
           left == ByNextHop(new)
           right == Remember(ByNextHop(queue), ann)
<1>1. /\ new \in Seq(Announcement) /\ OnePerNeighbour(new)
      /\ \E k \in DOMAIN new : new[k] = ann
      /\ \A k \in DOMAIN new :
           \/ new[k] = ann
           \/ \E j \in DOMAIN queue : new[k] = queue[j] /\ queue[j].next_hop # ann.next_hop
      /\ \A j \in DOMAIN queue :
           queue[j].next_hop # ann.next_hop => \E k \in DOMAIN new : new[k] = queue[j]
  BY StoreResult, ZenonT(60)
<1> HIDE DEF new
<1>2. DOMAIN left = NextHops(new) /\ DOMAIN ByNextHop(queue) = NextHops(queue)
  BY DEF ByNextHop
<1>3. NextHops(new) = NextHops(queue) \cup {ann.next_hop}
  BY <1>1, SMTT(30) DEF NextHops
<1>4. right = [n \in NextHops(queue) \cup {ann.next_hop} |->
                 IF n = ann.next_hop THEN ann ELSE ByNextHop(queue)[n]]
  BY <1>2 DEF Remember
<1>5. ASSUME NEW n \in NextHops(new)
      PROVE  left[n] = IF n = ann.next_hop THEN ann ELSE ByNextHop(queue)[n]
  <2>1. PICK k \in DOMAIN new : new[k].next_hop = n
    BY DEF NextHops
  <2>2. left[n] = new[k]
    BY <1>1, <2>1, ByNextHopValue
  <2>3. CASE n = ann.next_hop
    BY <1>1, <2>1, <2>2, <2>3 DEF OnePerNeighbour
  <2>4. CASE n # ann.next_hop
    <3>1. PICK j \in DOMAIN queue : new[k] = queue[j]
      BY <1>1, <2>1, <2>4
    <3>2. ByNextHop(queue)[n] = queue[j]
      BY <2>1, <3>1, ByNextHopValue
    <3>3. QED BY <2>2, <2>4, <3>1, <3>2
  <2>5. QED BY <2>3, <2>4
<1>6. left = [n \in NextHops(new) |->
                IF n = ann.next_hop THEN ann ELSE ByNextHop(queue)[n]]
  <2>1. left = [n \in NextHops(new) |-> left[n]]
    BY DEF ByNextHop
  <2> HIDE DEF left
  <2>2. QED BY <1>5, <2>1
<1>7. QED BY <1>3, <1>4, <1>6 DEF new

\* The most preferred of the remembered routes is the one the scan selects.
LEMMA MostPreferredIsSelected ==
  ASSUME NEW queue \in Seq(Announcement), queue # <<>>, OnePerNeighbour(queue)
  PROVE  MostPreferred({ByNextHop(queue)[n] : n \in DOMAIN ByNextHop(queue)})
           = SelectBestRoute(queue)
<1> DEFINE routes == {ByNextHop(queue)[n] : n \in DOMAIN ByNextHop(queue)}
<1>1. \A r : r \in routes <=> \E k \in DOMAIN queue : r = queue[k]
  <2>1. ASSUME NEW k \in DOMAIN queue PROVE queue[k] \in routes
    BY ByNextHopValue
  <2>2. ASSUME NEW n \in DOMAIN ByNextHop(queue)
        PROVE  \E k \in DOMAIN queue : ByNextHop(queue)[n] = queue[k]
    <3>1. PICK k \in DOMAIN queue : queue[k].next_hop = n
      BY DEF ByNextHop, NextHops
    <3>2. QED BY <3>1, ByNextHopValue
  <2>3. QED BY <2>1, <2>2
<1> HIDE DEF routes
<1>2. PICK i \in DOMAIN queue : SelectBestRoute(queue) = queue[i] /\ IsSelection(queue, i)
  BY SelectionResult
<1>3. routes # {} /\ \A r \in routes : r \in Announcement
  <2>1. \A k \in DOMAIN queue : queue[k] \in Announcement
    OBVIOUS
  <2>2. queue[i] \in routes
    BY <1>1
  <2>3. QED BY <1>1, <2>1, <2>2
<1>4. ASSUME NEW r \in routes
      PROVE  (\A b \in routes : ~PreferredTo(b, r)) <=> r = queue[i]
  <2>1. PICK k \in DOMAIN queue : r = queue[k]
    BY <1>1
  <2>2. (\A b \in routes : ~PreferredTo(b, r))
          <=> \A j \in DOMAIN queue : ~Outranks(queue[j], queue[k])
    BY <1>1, <1>3, <2>1, PreferredIsOutranks
  <2>3. (\A j \in DOMAIN queue : ~Outranks(queue[j], queue[k])) => queue[k] = queue[i]
    BY <1>2, UnbeatenIsSelected
  <2>4. queue[k] = queue[i] => \A j \in DOMAIN queue : ~Outranks(queue[j], queue[k])
    BY <1>2 DEF IsSelection
  <2>5. QED BY <2>1, <2>2, <2>3, <2>4
<1>5. queue[i] \in routes
  BY <1>1
<1>6. (CHOOSE a \in routes : \A b \in routes : ~PreferredTo(b, a)) = queue[i]
  BY <1>4, <1>5
<1>7. QED BY <1>2, <1>3, <1>6 DEF MostPreferred, routes

\* There is a most preferred route in every set of routes that is not empty.
LEMMA MostPreferredResult ==
  ASSUME NEW routes, routes \subseteq Announcement, routes # {}
  PROVE  /\ MostPreferred(routes) \in routes
         /\ \A b \in routes : ~PreferredTo(b, MostPreferred(routes))
<1> DEFINE scores == {Score(a) : a \in routes}
<1>1. scores \subseteq Nat /\ scores # {}
  BY ScoreType
<1>2. PICK lowest \in scores : \A s \in scores : lowest <= s
  <2> HIDE DEF scores
  <2>1. QED BY <1>1, LeastElement
<1>3. PICK a \in routes : Score(a) = lowest
  OBVIOUS
<1>4. ASSUME NEW b \in routes PROVE ~PreferredTo(b, a)
  <2>1. Score(a) <= Score(b) /\ a \in Announcement /\ b \in Announcement
    BY <1>2, <1>3
  <2>2. QED BY <2>1, OutranksByScore, PreferredIsOutranks
<1>5. QED BY <1>3, <1>4 DEF MostPreferred

\* It is the only one if no two routes come from one neighbour.
LEMMA MostPreferredUnique ==
  ASSUME NEW routes, routes \subseteq Announcement,
         \A a, b \in routes : a.next_hop = b.next_hop => a = b,
         NEW best \in routes, \A b \in routes : ~PreferredTo(b, best)
  PROVE  MostPreferred(routes) = best
<1>1. /\ MostPreferred(routes) \in routes
      /\ \A b \in routes : ~PreferredTo(b, MostPreferred(routes))
  BY MostPreferredResult
<1>2. ~Outranks(best, MostPreferred(routes)) /\ ~Outranks(MostPreferred(routes), best)
  BY <1>1, PreferredIsOutranks
<1>3. MostPreferred(routes) \in Announcement /\ best \in Announcement
  BY <1>1
<1>4. QED BY <1>1, <1>2, <1>3, TieHasSameNextHop
\* An AS sends its route under its own number, with the path as it is.
LEMMA ExportResult ==
  ASSUME NEW n \in ASN, NEW route \in Announcement, NEW rel \in Relationship
  PROVE  LET ann == Export(n, route, rel)
         IN  /\ ann \in Announcement
             /\ ann.path = route.path /\ ann.next_hop = n
             /\ ann.received_from = rel /\ ann.rov_invalid = route.rov_invalid
BY DEF Export, MakeAnnouncement, Announcement

-----------------------------------------------------------------------------
\* Somebody has the largest rank.
LEMMA MaxRankType ==
  ASSUME NEW g, WellFormed(g)
  PROVE  /\ MaxRank(g) \in Nat
         /\ \A n \in ASN : g.rank[n] <= MaxRank(g)
<1> DEFINE above(n) == {m \in ASN : g.rank[m] > g.rank[n]}
           sizes == {Cardinality(above(n)) : n \in ASN}
           ranks == {g.rank[n] : n \in ASN}
<1>1. \A n \in ASN : g.rank[n] \in Nat
  BY DEF WellFormed, Graph
<1>2. \A n \in ASN : IsFiniteSet(above(n)) /\ Cardinality(above(n)) \in Nat
  BY ASNFinite, FS_Subset, FS_CardinalityType
<1>3. PICK n \in ASN : \A m \in ASN : Cardinality(above(n)) <= Cardinality(above(m))
  <2>1. sizes \subseteq Nat /\ sizes # {}
    BY <1>2, ASNFinite
  <2>2. PICK least \in sizes : \A s \in sizes : least <= s
    <3> HIDE DEF sizes
    <3>1. QED BY <2>1, LeastElement
  <2>3. QED BY <2>2
<1>4. ASSUME NEW m \in above(n) PROVE FALSE
  <2>1. m \in ASN /\ above(m) \subseteq above(n) /\ above(m) # above(n)
    BY <1>1, <1>4
  <2> HIDE DEF above
  <2>2. Cardinality(above(m)) < Cardinality(above(n))
    BY <1>2, <2>1, FS_Subset
  <2>3. QED BY <1>2, <1>3, <2>1, <2>2
<1>5. g.rank[n] \in ranks /\ \A s \in ranks : s <= g.rank[n]
  BY <1>1, <1>4
<1>6. ranks \subseteq Nat
  BY <1>1
<1>7. \E r \in ranks : \A s \in ranks : s <= r
  BY <1>5
<1>8. MaxRank(g) = CHOOSE r \in ranks : \A s \in ranks : s <= r
  BY DEF MaxRank
<1>9. \A m \in ASN : g.rank[m] \in ranks
  OBVIOUS
<1> HIDE DEF ranks
<1>10. MaxRank(g) \in ranks /\ \A s \in ranks : s <= MaxRank(g)
  BY <1>7, <1>8
<1>11. QED BY <1>6, <1>9, <1>10
=============================================================================
