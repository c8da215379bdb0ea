--------------------------- MODULE ConvergenceProofs ---------------------------
(***************************************************************************)
(* propagateToConvergence forgets no change of a best route and stops with *)
(* nothing left over, for any number of ASes and rounds.                   *)
(***************************************************************************)
EXTENDS Convergence, RouteTableProofs

\* Where received announcements may be left: once all have settled, only a loop
\* that sends can leave some again, and it leaves its mark in roundHadWork.
QuietInv ==
  /\ DOMAIN received_queue = ASN
  /\ loop.phase = "settle" => \A n \in ASN \ todo : received_queue[n] = <<>>
  /\ loop.phase = "down" /\ ~roundHadWork => \A n \in ASN : received_queue[n] = <<>>
  /\ loop.phase = "done" /\ ~hitRoundLimit =>
       /\ \A n \in ASN : received_queue[n] = <<>>
       /\ \A d \in Direction : pending[d] = {}

LEMMA InitQuietInv == Init => QuietInv
<1>1. SUFFICES ASSUME Init PROVE QuietInv
  OBVIOUS
<1>2. received_queue = [n \in ASN |-> <<>>] /\ loop.phase = "up"
  BY <1>1 DEF Init, Loop
<1>3. QED BY <1>2 DEF QuietInv

LEMMA NextQuietInv == QuietInv /\ [Next]_vars => QuietInv'
<1>1. SUFFICES ASSUME QuietInv, [Next]_vars PROVE QuietInv'
  OBVIOUS
<1>2. ASSUME NEW n \in ASN, ProcessAndSend(n) PROVE QuietInv'
  <2>1. PICK table \in {Processed(n)} :
          LET sends   == n \in pending[loop.phase] \/ Changed(n, table)
              cleared == [received_queue EXCEPT ![n] = <<>>]
          IN  /\ received_queue' = IF sends THEN Delivered(cleared, loop.phase, n, table.best)
                                   ELSE cleared
              /\ roundHadWork' = (roundHadWork \/ sends)
    BY <1>2 DEF ProcessAndSend
  <2>2. loop.phase \in {"up", "down"} /\ loop' = loop
    BY <1>2 DEF ProcessAndSend, Take
  <2>3. DOMAIN received_queue' = ASN
    BY <1>1, <2>1 DEF QuietInv, Delivered
  <2>4. ASSUME loop.phase = "down", ~roundHadWork', NEW m \in ASN PROVE received_queue'[m] = <<>>
    <3>1. ~roundHadWork /\ received_queue' = [received_queue EXCEPT ![n] = <<>>]
      BY <2>1, <2>4
    <3>2. QED BY <1>1, <2>4, <3>1 DEF QuietInv
  <2>5. QED BY <2>2, <2>3, <2>4 DEF QuietInv
<1>3. ASSUME NEW n \in ASN, SendAcross(n) PROVE QuietInv'
  <2>1. loop.phase = "across" /\ loop' = loop
    BY <1>3 DEF SendAcross, Take
  <2>2. DOMAIN received_queue' = ASN
    BY <1>1, <1>3 DEF SendAcross, QuietInv, Delivered
  <2>3. QED BY <2>1, <2>2 DEF QuietInv
<1>4. ASSUME NEW n \in ASN, Settle(n) PROVE QuietInv'
  BY <1>1, <1>4 DEF Settle, Take, QuietInv
<1>5. CASE NextLoop
  <2>1. /\ todo = {} /\ UNCHANGED <<received_queue, roundHadWork>>
        /\ \/ loop'.phase = "up"
           \/ loop'.phase = "across"
           \/ loop'.phase = "settle" /\ todo' = ASN
           \/ loop'.phase = "down" /\ loop.phase \in {"settle", "down"}
    BY <1>5 DEF NextLoop, Enter, Loop, Layer
  <2>2. QED BY <1>1, <2>1 DEF QuietInv
<1>6. CASE EndRound
  <2>1. /\ loop.phase = "down" /\ UNCHANGED <<received_queue, pending>>
        /\ \/ Quiet /\ loop'.phase = "done"
           \/ loop'.phase = "done" /\ hitRoundLimit'
           \/ loop'.phase = "up"
    BY <1>6 DEF EndRound, Enter, Loop
  <2>2. QED BY <1>1, <2>1 DEF QuietInv, Quiet
<1>7. CASE UNCHANGED vars
  BY <1>1, <1>7 DEF vars, QuietInv
<1>8. QED BY <1>1, <1>2, <1>3, <1>4, <1>5, <1>6, <1>7 DEF Next

\* When the rounds end by themselves, every announcement received has been
\* processed and every change has been sent (as_graph.cpp:884).
THEOREM ConvergenceEndsQuiet == Spec => []EndsQuiet
<1>1. QuietInv => EndsQuiet
  BY DEF QuietInv, EndsQuiet
<1>2. QED BY <1>1, InitQuietInv, NextQuietInv, PTL DEF Spec
-----------------------------------------------------------------------------
(***************************************************************************)
(* processReceivedQueueWithDiff, announcement by announcement.             *)
(***************************************************************************)

\* The tables that processing a queue goes through up to an announcement.
GoesThrough(after, n, table, queue, last) ==
  after = [k \in 0..last |-> IF k = 0 THEN table ELSE AbsorbChecked(n, after[k - 1], queue[k])]

LEMMA AfterEach ==
  ASSUME NEW n, NEW queue, NEW table, NEW last \in Nat
  PROVE  \E after : GoesThrough(after, n, table, queue, last)
<1> DEFINE Follows(f, to) == GoesThrough(f, n, table, queue, to)
           missing == {j \in Nat : ~\E f : Follows(f, j)}
<1>1. SUFFICES missing = {}
  BY DEF missing
<1>2. SUFFICES ASSUME missing # {} PROVE FALSE
  OBVIOUS
<1>3. PICK j \in missing : \A i \in missing : j <= i
  BY <1>2, LeastElement
<1>4. CASE j = 0
  <2> DEFINE f == [k \in 0..0 |-> table]
  <2>1. Follows(f, 0)
    BY DEF GoesThrough
  <2>2. QED BY <1>4, <2>1
<1>5. CASE j # 0
  <2>1. j \in Nat /\ j - 1 \in Nat /\ j - 1 \notin missing
    BY <1>3, <1>5
  <2>2. PICK f : Follows(f, j - 1)
    BY <2>1
  <2> DEFINE g == [k \in 0..j |-> IF k < j THEN f[k] ELSE AbsorbChecked(n, f[j - 1], queue[j])]
  <2>3. ASSUME NEW k \in 0..j
        PROVE  g[k] = IF k = 0 THEN table ELSE AbsorbChecked(n, g[k - 1], queue[k])
    <3>1. CASE k = j
      BY <1>5, <2>1, <3>1
    <3>2. CASE k # j
      <4>1. k \in 0..(j - 1) /\ k < j /\ (k # 0 => k - 1 \in 0..j /\ k - 1 < j)
        BY <2>1, <3>2
      <4>2. f[k] = IF k = 0 THEN table ELSE AbsorbChecked(n, f[k - 1], queue[k])
        BY <2>2, <4>1 DEF GoesThrough
      <4>3. QED BY <4>1, <4>2
    <3>3. QED BY <3>1, <3>2
  <2>4. Follows(g, j)
    <3>1. g = [k \in 0..j |-> g[k]]
      OBVIOUS
    <3> HIDE DEF g
    <3>2. QED BY <2>3, <3>1 DEF GoesThrough
  <2>5. QED BY <1>3, <2>4
<1>6. QED BY <1>4, <1>5

Holds(table, route) == \E k \in DOMAIN table.queue : table.queue[k] = route

\* An AS puts itself in front of every path it takes in.
OwnPaths(n, table) == \A k \in DOMAIN table.queue : table.queue[k].path[1] = n

AsLearned(n, ann) == PrependASN(ann, n, ann.next_hop, ann.received_from)

\* A route is taken in, unless it is refused, and routes of others stay.
LEMMA AbsorbResult ==
  ASSUME NEW n \in ASN, NEW table, Consistent(table), OwnPaths(n, table), NEW ann \in Announcement
  PROVE  LET new == AbsorbChecked(n, table, ann)
         IN  /\ Consistent(new)
             /\ OwnPaths(n, new)
             /\ ~Refuses(n, ann) => Holds(new, AsLearned(n, ann))
             /\ \A route : Holds(table, route) /\ route.next_hop # ann.next_hop => Holds(new, route)
<1> DEFINE new == AbsorbChecked(n, table, ann)
           learned == AsLearned(n, ann)
<1>1. ann.next_hop \in ASN /\ ann.received_from \in Relationship
  BY DEF Announcement
<1>2. /\ learned \in Announcement /\ learned.path[1] = n
      /\ learned.next_hop = ann.next_hop /\ learned.rov_invalid = ann.rov_invalid
  BY <1>1, PrependResult DEF AsLearned
<1>3. new = IF Refuses(n, ann) THEN table ELSE Receive(table, learned)
  BY <1>2 DEF AbsorbChecked, Admit, Refuses, AsLearned
<1> HIDE DEF new, learned
<1>4. CASE Refuses(n, ann)
  BY <1>3, <1>4 DEF new
<1>5. CASE ~Refuses(n, ann)
  <2>1. Consistent(new)
    BY <1>2, <1>3, <1>5, ReceiveKeepsConsistent
  <2>2. new.queue = Store(table.queue, learned)
    BY <1>3, <1>5 DEF Receive
  <2>3. table.queue \in Seq(Announcement) /\ OnePerNeighbour(table.queue)
    BY DEF Consistent
  <2> DEFINE old == table.queue
             stored == Store(old, learned)
  <2>4. /\ \E k \in DOMAIN stored : stored[k] = learned
        /\ \A k \in DOMAIN stored :
             \/ stored[k] = learned
             \/ \E j \in DOMAIN old : /\ stored[k] = old[j]
                                      /\ old[j].next_hop # learned.next_hop
        /\ \A j \in DOMAIN old :
             old[j].next_hop # learned.next_hop => \E k \in DOMAIN stored : stored[k] = old[j]
    <3> HIDE DEF old
    <3>1. QED BY <1>2, <2>3, StoreResult DEF old
  <2>5. OwnPaths(n, new)
    BY <1>2, <2>2, <2>4 DEF OwnPaths
  <2>6. Holds(new, learned)
    BY <2>2, <2>4 DEF Holds
  <2>7. \A route : Holds(table, route) /\ route.next_hop # ann.next_hop => Holds(new, route)
    BY <1>2, <2>2, <2>4 DEF Holds
  <2>8. QED BY <2>1, <2>5, <2>6, <2>7 DEF new, learned
<1>6. QED BY <1>4, <1>5

\* What an AS knows of a neighbour's route before it processes its queue, and
\* does not refuse, is among its routes afterwards.
LEMMA ProcessedResult ==
  ASSUME NEW n \in ASN, Consistent(tables[n]), OwnPaths(n, tables[n]),
         received_queue[n] \in Seq(Announcement)
  PROVE  LET new == Processed(n)
         IN  /\ Consistent(new)
             /\ OwnPaths(n, new)
             /\ \A ann \in Announcement :
                  ~Refuses(n, ann) /\ Knows(n, ann.next_hop, ann) => Holds(new, AsLearned(n, ann))
<1> DEFINE queue == received_queue[n]
           table == tables[n]
           after == CHOOSE f : GoesThrough(f, n, table, queue, Len(queue))
           Waiting(k, ann) == {i \in 1..k : queue[i].next_hop = ann.next_hop}
           Known(k, ann) == IF Waiting(k, ann) # {}
                            THEN \E last \in Waiting(k, ann) :
                                   queue[last] = ann /\ \A i \in Waiting(k, ann) : i <= last
                            ELSE Holds(table, AsLearned(n, ann))
           Good(k) == /\ Consistent(after[k])
                      /\ OwnPaths(n, after[k])
                      /\ \A ann \in Announcement :
                           ~Refuses(n, ann) /\ Known(k, ann) => Holds(after[k], AsLearned(n, ann))
           bad == {k \in 0..Len(queue) : ~Good(k)}
<1>1. Processed(n) = after[Len(queue)]
  BY DEF Processed, GoesThrough
<1>2. /\ Len(queue) \in Nat /\ DOMAIN queue = 1..Len(queue)
      /\ \A k \in 1..Len(queue) : queue[k] \in Announcement
  OBVIOUS
<1>3. GoesThrough(after, n, table, queue, Len(queue))
  <2>1. \E f : GoesThrough(f, n, table, queue, Len(queue))
    BY <1>2, AfterEach
  <2> HIDE DEF queue, table
  <2>2. QED BY <2>1
<1> HIDE DEF after
<1>4. /\ after[0] = table
      /\ \A k \in 1..Len(queue) : after[k] = AbsorbChecked(n, after[k - 1], queue[k])
  <2> HIDE DEF queue, table
  <2>1. 0 \in 0..Len(queue) /\ \A k \in 1..Len(queue) : k \in 0..Len(queue) /\ k # 0
    BY <1>2
  <2>2. QED BY <1>3, <2>1 DEF GoesThrough
<1>5. bad = {}
  <2>1. SUFFICES ASSUME bad # {} PROVE FALSE
    OBVIOUS
  <2>2. PICK j \in bad : \A i \in bad : j <= i
    <3>1. bad \subseteq Nat
      BY <1>2
    <3> HIDE DEF bad
    <3>2. QED BY <2>1, <3>1, LeastElement
  <2>3. j \in 0..Len(queue) /\ ~Good(j)
    BY <2>2
  <2>4. CASE j = 0
    <3>1. \A ann : Waiting(0, ann) = {}
      OBVIOUS
    <3> HIDE DEF queue, table, Waiting
    <3>2. Good(0)
      BY <1>4, <3>1 DEF table
    <3>3. QED BY <2>3, <2>4, <3>2
  <2>5. CASE j # 0
    <3>1. j \in 1..Len(queue) /\ j - 1 \in 0..Len(queue) /\ j - 1 \notin bad
      <4> HIDE DEF queue, bad
      <4>1. QED BY <1>2, <2>2, <2>3, <2>5
    <3>2. Good(j - 1)
      <4> HIDE DEF queue, Good
      <4>1. QED BY <3>1
    <3>3. queue[j] \in Announcement /\ after[j] = AbsorbChecked(n, after[j - 1], queue[j])
      BY <1>2, <1>4, <3>1
    <3>4. /\ Consistent(after[j])
          /\ OwnPaths(n, after[j])
          /\ ~Refuses(n, queue[j]) => Holds(after[j], AsLearned(n, queue[j]))
          /\ \A route : Holds(after[j - 1], route) /\ route.next_hop # queue[j].next_hop
                          => Holds(after[j], route)
      <4> HIDE DEF queue, table, Known
      <4>1. QED BY <3>2, <3>3, AbsorbResult
    <3>5. ASSUME NEW ann \in Announcement, ~Refuses(n, ann), Known(j, ann)
          PROVE  Holds(after[j], AsLearned(n, ann))
      <4>1. CASE queue[j].next_hop = ann.next_hop
        <5>1. j \in Waiting(j, ann) /\ \A i \in Waiting(j, ann) : i <= j /\ i \in Nat
          BY <3>1, <4>1
        <5>2. queue[j] = ann
          <6> HIDE DEF queue, table, Waiting
          <6>1. PICK last \in Waiting(j, ann) :
                  queue[last] = ann /\ \A i \in Waiting(j, ann) : i <= last
            BY <3>5, <5>1
          <6>2. last = j
            BY <3>1, <5>1, <6>1
          <6>3. QED BY <6>1, <6>2
        <5>3. QED BY <3>4, <3>5, <5>2
      <4>2. CASE queue[j].next_hop # ann.next_hop
        <5>1. Waiting(j, ann) = Waiting(j - 1, ann)
          BY <3>1, <4>2
        <5>2. Known(j - 1, ann)
          <6> HIDE DEF queue, table, Waiting
          <6>1. QED BY <3>5, <5>1
        <5>3. Holds(after[j - 1], AsLearned(n, ann))
          BY <3>2, <3>5, <5>2
        <5>4. AsLearned(n, ann).next_hop = ann.next_hop
          BY DEF AsLearned, PrependASN, MakeAnnouncement
        <5>5. QED BY <3>4, <4>2, <5>3, <5>4
      <4>3. QED BY <4>1, <4>2
    <3>6. Good(j)
      <4> HIDE DEF queue, table, Known
      <4>1. QED BY <3>4, <3>5
    <3>7. QED BY <2>3, <3>6
  <2>6. QED BY <2>4, <2>5
<1>6. Good(Len(queue))
  BY <1>2, <1>5
<1>7. \A ann : Known(Len(queue), ann) <=> Knows(n, ann.next_hop, ann)
  BY <1>2 DEF Knows, Holds, AsLearned
<1> HIDE DEF queue, table, Known
<1>8. QED BY <1>1, <1>6, <1>7
-----------------------------------------------------------------------------
(***************************************************************************)
(* No change of a best route is lost.  The invariant is the property with  *)
(* what it takes to know that tables and queues are what they look like.   *)
(***************************************************************************)
RoutesInv ==
  /\ graph \in Graphs
  /\ DOMAIN pending = Direction
  /\ DOMAIN received_queue = ASN
  /\ DOMAIN tables = ASN
  /\ \A n \in ASN : /\ received_queue[n] \in Seq(Announcement)
                    /\ Consistent(tables[n])
                    /\ OwnPaths(n, tables[n])

\* What n's neighbours in a direction are to hear.
Current(n, d) == Export(n, tables[n].best, SentAs(d))

LEMMA ReceiverFacts ==
  ASSUME RoutesInv
  PROVE  /\ \A n \in ASN, d \in Direction : Receivers(d, n) \subseteq ASN
         /\ SimplyRelated => \A n \in ASN, d, e \in Direction :
              d # e => Receivers(d, n) \cap Receivers(e, n) = {}
         /\ SimplyRelated => \A n \in ASN : n \notin Receivers("up", n) \cup Receivers("down", n)
<1>1. graph.providers \in [ASN -> SUBSET ASN] /\ graph.peers \in [ASN -> SUBSET ASN]
  BY GraphsAssumption DEF RoutesInv
<1>2. \A n \in ASN : /\ Receivers("up", n) = graph.providers[n]
                     /\ Receivers("across", n) = graph.peers[n]
                     /\ Receivers("down", n) = Customers(graph, n)
  BY DEF Receivers
<1>3. \A n \in ASN, d \in Direction : Receivers(d, n) \subseteq ASN
  BY <1>1, <1>2 DEF Direction, Customers
<1>4. SimplyRelated => \A n \in ASN, d, e \in Direction :
        d # e => Receivers(d, n) \cap Receivers(e, n) = {}
  <2>1. SUFFICES ASSUME SimplyRelated, NEW n \in ASN, NEW d \in Direction, NEW e \in Direction,
                        d # e
                 PROVE  Receivers(d, n) \cap Receivers(e, n) = {}
    OBVIOUS
  <2>2. /\ graph.peers[n] \cap graph.providers[n] = {}
        /\ graph.peers[n] \cap Customers(graph, n) = {}
        /\ graph.providers[n] \cap Customers(graph, n) = {}
    BY <2>1 DEF SimplyRelated
  <2>3. QED BY <1>2, <2>1, <2>2 DEF Direction
<1>5. SimplyRelated => \A n \in ASN : n \notin Receivers("up", n) \cup Receivers("down", n)
  <2>1. SUFFICES ASSUME SimplyRelated, NEW n \in ASN
                 PROVE  n \notin Receivers("up", n) \cup Receivers("down", n)
    OBVIOUS
  <2>2. graph.providers[n] \cap Customers(graph, n) = {}
    BY <2>1 DEF SimplyRelated
  <2>3. n \in graph.providers[n] <=> n \in Customers(graph, n)
    BY DEF Customers
  <2>4. QED BY <1>2, <2>2, <2>3
<1>6. QED BY <1>3, <1>4, <1>5

LEMMA CurrentResult ==
  ASSUME NEW n \in ASN, NEW table, Consistent(table), OwnPaths(n, table),
         table.best # NoRoute, NEW d \in Direction
  PROVE  LET ann == Export(n, table.best, SentAs(d))
         IN  /\ ann \in Announcement
             /\ ann.next_hop = n
             /\ Refuses(n, ann)
<1> DEFINE ann == Export(n, table.best, SentAs(d))
<1>1. table.best \in Announcement /\ table.best.path[1] = n
  BY ConsistentBest DEF OwnPaths
<1>2. SentAs(d) \in Relationship
  BY DEF SentAs, Direction, Relationship
<1>3. ann \in Announcement /\ ann.next_hop = n /\ ann.path = table.best.path
  BY <1>1, <1>2, ExportResult
<1> HIDE DEF ann
<1>4. Len(ann.path) \in Nat \ {0}
  BY <1>3, MaxPathLenAssumption DEF Announcement, Path
<1>5. ContainsASN(ann, n)
  BY <1>1, <1>3, <1>4 DEF ContainsASN
<1>6. QED BY <1>3, <1>5 DEF Refuses, ann

\* The last announcement of a neighbour is known.
LEMMA KnowsLast ==
  ASSUME NEW m, received_queue[m] \in Seq(Announcement), NEW ann \in Announcement,
         received_queue'[m] = Append(received_queue[m], ann)
  PROVE  Knows(m, ann.next_hop, ann)'
<1> DEFINE queue == received_queue'[m]
           last == Len(received_queue[m]) + 1
           waiting == {k \in DOMAIN queue : queue[k].next_hop = ann.next_hop}
<1>1. last \in DOMAIN queue /\ queue[last] = ann /\ DOMAIN queue = 1..last /\ last \in Nat
  OBVIOUS
<1> HIDE DEF queue, last
<1>2. last \in waiting /\ \A k \in waiting : k <= last
  BY <1>1
<1>3. QED BY <1>1, <1>2 DEF Knows, queue

\* It stays so while only others announce.
LEMMA KnowsKept ==
  ASSUME NEW m, NEW n, NEW ann, Knows(m, n, ann), tables'[m] = tables[m],
         received_queue[m] \in Seq(Announcement),
         \/ received_queue'[m] = received_queue[m]
         \/ \E b : received_queue'[m] = Append(received_queue[m], b) /\ b.next_hop # n
  PROVE  Knows(m, n, ann)'
<1>1. CASE received_queue'[m] = received_queue[m]
  BY <1>1 DEF Knows
<1>2. ASSUME NEW b, received_queue'[m] = Append(received_queue[m], b), b.next_hop # n
      PROVE  Knows(m, n, ann)'
  <2> DEFINE old == received_queue[m]
             queue == received_queue'[m]
  <2>1. /\ DOMAIN old = 1..Len(old) /\ DOMAIN queue = 1..(Len(old) + 1) /\ Len(old) \in Nat
        /\ \A k \in DOMAIN old : queue[k] = old[k]
        /\ queue[Len(old) + 1] = b
    BY <1>2
  <2> HIDE DEF old, queue
  <2>2. {k \in DOMAIN queue : queue[k].next_hop = n} = {k \in DOMAIN old : old[k].next_hop = n}
    BY <1>2, <2>1
  <2>3. QED BY <2>1, <2>2 DEF Knows, old, queue
<1>3. QED BY <1>1, <1>2

\* And when the AS processes its queue.
LEMMA KnowsProcessed ==
  ASSUME RoutesInv, NEW m \in ASN, NEW ann \in Announcement, ~Refuses(m, ann),
         Knows(m, ann.next_hop, ann),
         tables'[m] = Processed(m), received_queue'[m] = <<>>
  PROVE  Knows(m, ann.next_hop, ann)'
<1>1. Holds(Processed(m), AsLearned(m, ann))
  BY ProcessedResult DEF RoutesInv
<1>2. QED BY <1>1 DEF Knows, Holds, AsLearned

LEMMA InitRoutesInv == Init => RoutesInv
<1>1. SUFFICES ASSUME Init PROVE RoutesInv
  OBVIOUS
<1>2. PICK seeds \in Seeds : tables = [n \in ASN |-> Seeded(graph, seeds, n)]
  BY <1>1 DEF Init
<1>3. /\ graph \in Graphs
      /\ DOMAIN pending = Direction
      /\ received_queue = [n \in ASN |-> <<>>]
  BY <1>1 DEF Init
<1>4. ASSUME NEW n \in ASN PROVE Consistent(tables[n]) /\ OwnPaths(n, tables[n])
  <2> DEFINE ann == MakeAnnouncement(<<n>>, n, "ORIGIN", seeds[n] = "invalid")
  <2>1. ann \in Announcement /\ ann.path[1] = n
    <3>1. <<n>> \in Path
      BY MaxPathLenAssumption DEF Path
    <3>2. QED BY <3>1 DEF MakeAnnouncement, Announcement, Relationship
  <2>2. Consistent(EmptyTable) /\ OwnPaths(n, EmptyTable) /\ EmptyTable.queue = <<>>
    BY DEF Consistent, EmptyTable, OnePerNeighbour, BestIsSelection, OwnPaths
  <2>3. tables[n] \in {EmptyTable, Receive(EmptyTable, ann)}
    BY <1>2 DEF Seeded, Admit
  <2> HIDE DEF ann
  <2>4. Consistent(Receive(EmptyTable, ann))
    BY <2>1, <2>2, ReceiveKeepsConsistent
  <2>5. OwnPaths(n, Receive(EmptyTable, ann))
    <3>1. Receive(EmptyTable, ann).queue = <<ann>>
      BY <2>2 DEF Receive, Store, Slots
    <3>2. QED BY <2>1, <3>1 DEF OwnPaths
  <2>6. QED BY <2>2, <2>3, <2>4, <2>5
<1>5. QED BY <1>2, <1>3, <1>4 DEF RoutesInv

\* A step of one AS: what it leaves of its own table and queue, and what it adds
\* to the queues of its receivers.
ByOne(n, table, d, sends) ==
  /\ graph' = graph
  /\ DOMAIN tables' = ASN
  /\ \A k \in ASN : tables'[k] = IF k = n THEN table ELSE tables[k]
  /\ \A k \in ASN \ {n} : received_queue'[k] =
       IF sends /\ table.best # NoRoute /\ k \in Receivers(d, n)
       THEN Append(received_queue[k], Export(n, table.best, SentAs(d)))
       ELSE received_queue[k]

LEMMA ProcessAndSendIsByOne ==
  ASSUME RoutesInv, NEW n \in ASN, ProcessAndSend(n)
  PROVE  LET table == Processed(n)
             d == loop.phase
             sends == n \in pending[d] \/ Changed(n, table)
         IN  /\ d \in {"up", "down"}
             /\ ByOne(n, table, d, sends)
             /\ DOMAIN received_queue' = ASN
             /\ DOMAIN pending' = Direction
             /\ n \notin Receivers(d, n) => received_queue'[n] = <<>>
             /\ received_queue'[n] \in {<<>>, Append(<<>>, Export(n, table.best, SentAs(d)))}
             /\ received_queue'[n] # <<>> => table.best # NoRoute
             /\ \A k \in ASN \ {n}, e \in Direction : k \in pending[e] => k \in pending'[e]
             /\ Changed(n, table) => \A e \in Direction \ {d} : n \in pending'[e]
             /\ \A e \in Direction \ {d} : n \in pending[e] => n \in pending'[e]
<1> DEFINE table == Processed(n)
           d == loop.phase
           sends == n \in pending[d] \/ Changed(n, table)
           others == IF Changed(n, table) THEN Pend(n, Direction \ {d}) ELSE pending
           cleared == [received_queue EXCEPT ![n] = <<>>]
<1>1. /\ d \in {"up", "down"} /\ graph' = graph
      /\ tables' = [tables EXCEPT ![n] = table]
      /\ pending' = [others EXCEPT ![d] = @ \ {n}]
      /\ received_queue' = IF sends THEN Delivered(cleared, d, n, table.best) ELSE cleared
  BY DEF ProcessAndSend, Take
<1> HIDE DEF table, sends
<1>2. DOMAIN others = Direction /\ DOMAIN pending = Direction /\ d \in Direction
  BY <1>1 DEF RoutesInv, Pend, Direction
<1>3. /\ DOMAIN pending' = Direction
      /\ \A e \in Direction : pending'[e] = IF e = d THEN others[e] \ {n} ELSE others[e]
  BY <1>1, <1>2
<1>4. \A e \in Direction : others[e] = IF Changed(n, table) /\ e # d THEN pending[e] \cup {n}
                                       ELSE pending[e]
  BY DEF Pend
<1> HIDE DEF others
<1>5. /\ \A k \in ASN \ {n}, e \in Direction : k \in pending[e] => k \in pending'[e]
      /\ Changed(n, table) => \A e \in Direction \ {d} : n \in pending'[e]
      /\ \A e \in Direction \ {d} : n \in pending[e] => n \in pending'[e]
  BY <1>3, <1>4
<1>6. /\ DOMAIN cleared = ASN /\ cleared[n] = <<>>
      /\ \A k \in ASN \ {n} : cleared[k] = received_queue[k]
  BY DEF RoutesInv
<1> HIDE DEF cleared
<1>7. /\ DOMAIN received_queue' = ASN
      /\ \A k \in ASN : received_queue'[k] =
           IF sends /\ table.best # NoRoute /\ k \in Receivers(d, n)
           THEN Append(cleared[k], Export(n, table.best, SentAs(d))) ELSE cleared[k]
  <2>1. CASE sends
    BY <1>1, <2>1 DEF Delivered
  <2>2. CASE ~sends
    BY <1>1, <1>6, <2>2
  <2>3. QED BY <2>1, <2>2
<1>8. ByOne(n, table, d, sends)
  <2>1. DOMAIN tables' = ASN /\ \A k \in ASN : tables'[k] = IF k = n THEN table ELSE tables[k]
    BY <1>1 DEF RoutesInv
  <2>2. QED BY <1>1, <1>6, <1>7, <2>1 DEF ByOne
<1>9. QED BY <1>1, <1>3, <1>5, <1>6, <1>7, <1>8 DEF table, sends

\* What a neighbour in a direction has to do with the best route of an AS.
Settled(n, d, m) ==
  n \in pending[d] \/ Refuses(m, Current(n, d)) \/ Knows(m, n, Current(n, d))

LEMMA NoChangeLostIsSettled ==
  NoChangeLost <=>
    (SimplyRelated =>
       \A n \in ASN, d \in Direction :
         tables[n].best # NoRoute => \A m \in Receivers(d, n) : Settled(n, d, m))
BY DEF NoChangeLost, Settled, Current

LEMMA ByOneKeepsRoutes ==
  ASSUME RoutesInv, NEW x \in ASN, NEW table, NEW d \in Direction, NEW sends,
         Consistent(table), OwnPaths(x, table), ByOne(x, table, d, sends),
         DOMAIN received_queue' = ASN, DOMAIN pending' = Direction,
         received_queue'[x] \in Seq(Announcement)
  PROVE  RoutesInv'
<1>1. /\ graph' = graph /\ graph \in Graphs
      /\ DOMAIN tables' = ASN
      /\ \A n \in ASN : tables'[n] = IF n = x THEN table ELSE tables[n]
  BY DEF ByOne, RoutesInv
<1>2. \A n \in ASN : Consistent(tables'[n]) /\ OwnPaths(n, tables'[n])
  BY <1>1 DEF RoutesInv
<1>3. ASSUME NEW n \in ASN PROVE received_queue'[n] \in Seq(Announcement)
  <2>1. received_queue[n] \in Seq(Announcement)
    BY DEF RoutesInv
  <2>2. table.best # NoRoute => Export(x, table.best, SentAs(d)) \in Announcement
    BY CurrentResult
  <2>3. CASE n = x
    BY <2>3
  <2> DEFINE sent == Export(x, table.best, SentAs(d))
  <2>4. CASE n # x
    <3>1. received_queue'[n] = received_queue[n]
            \/ (table.best # NoRoute /\ received_queue'[n] = Append(received_queue[n], sent))
      BY <2>4 DEF ByOne
    <3>2. table.best # NoRoute => sent \in Announcement
      BY <2>2
    <3> HIDE DEF sent
    <3>3. \A a \in Announcement : Append(received_queue[n], a) \in Seq(Announcement)
      BY <2>1
    <3>4. QED BY <2>1, <3>1, <3>2, <3>3
  <2>5. QED BY <2>3, <2>4
<1>4. QED BY <1>1, <1>2, <1>3 DEF RoutesInv

\* What others announced stays known, to the AS of the step and to the others.
LEMMA ByOneKeepsOthers ==
  ASSUME RoutesInv, NEW x \in ASN, NEW table, NEW d \in Direction, NEW sends,
         Consistent(table), OwnPaths(x, table), ByOne(x, table, d, sends),
         \/ table = Processed(x) /\ received_queue'[x] = <<>>
         \/ /\ table = tables[x]
            /\ \/ received_queue'[x] = received_queue[x]
               \/ \E b : received_queue'[x] = Append(received_queue[x], b) /\ b.next_hop = x,
         NEW n \in ASN \ {x}, NEW e \in Direction, NEW m \in ASN, tables[n].best # NoRoute,
         n \in pending[e] => n \in pending'[e],
         Settled(n, e, m)
  PROVE  Settled(n, e, m)'
<1>1. /\ graph' = graph
      /\ \A k \in ASN : tables'[k] = IF k = x THEN table ELSE tables[k]
  BY DEF ByOne, RoutesInv
<1>2. Current(n, e)' = Current(n, e)
  BY <1>1 DEF Current
<1> DEFINE ann == Current(n, e)
<1>3. ann \in Announcement /\ ann.next_hop = n
  BY CurrentResult DEF RoutesInv, Current
<1> HIDE DEF ann
<1>4. Refuses(m, ann) <=> Refuses(m, ann)'
  BY <1>1, <1>2 DEF Refuses, ann
<1>5. SUFFICES ASSUME Knows(m, n, ann), ~Refuses(m, ann) PROVE Knows(m, n, ann)'
  BY <1>2, <1>4 DEF Settled, ann
<1>6. received_queue[m] \in Seq(Announcement)
  BY DEF RoutesInv
<1>7. CASE m # x
  <2>1. table.best # NoRoute => Export(x, table.best, SentAs(d)).next_hop = x
    BY CurrentResult
  <2>2. \/ received_queue'[m] = received_queue[m]
        \/ \E b : received_queue'[m] = Append(received_queue[m], b) /\ b.next_hop # n
    BY <1>7, <2>1 DEF ByOne
  <2>3. tables'[m] = tables[m]
    BY <1>1, <1>7
  <2>4. Knows(m, n, Current(n, e))'
    BY <1>2, <1>5, <1>6, <2>2, <2>3, KnowsKept DEF ann
  <2>5. QED BY <2>4 DEF ann
<1>8. CASE m = x /\ table = Processed(x) /\ received_queue'[x] = <<>>
  BY <1>1, <1>2, <1>3, <1>5, <1>8, KnowsProcessed DEF ann
<1>9. CASE /\ m = x /\ table = tables[x]
           /\ \/ received_queue'[x] = received_queue[x]
              \/ \E b : received_queue'[x] = Append(received_queue[x], b) /\ b.next_hop = x
  BY <1>1, <1>2, <1>5, <1>6, <1>9, KnowsKept DEF ann
<1>10. QED BY <1>7, <1>8, <1>9

\* The AS of the step: it sent its best route, or has it pending, or still has
\* the one its neighbours know.
LEMMA ByOneKeepsOwn ==
  ASSUME RoutesInv, SimplyRelated, NEW x \in ASN, NEW table, NEW d \in Direction, NEW sends,
         Consistent(table), OwnPaths(x, table), ByOne(x, table, d, sends),
         table.best # NoRoute,
         NEW e \in Direction, NEW m \in Receivers(e, x),
         \/ x \in pending'[e]
         \/ e = d /\ sends
         \/ x \notin pending[e] /\ table.best = tables[x].best,
         tables[x].best # NoRoute => Settled(x, e, m)
  PROVE  Settled(x, e, m)'
<1>1. /\ graph' = graph
      /\ tables'[x] = table
      /\ \A k \in ASN \ {x} : tables'[k] = tables[k]
  BY DEF ByOne, RoutesInv
<1> DEFINE ann == Export(x, table.best, SentAs(e))
<1>2. ann \in Announcement /\ ann.next_hop = x /\ Refuses(x, ann)
  BY CurrentResult
<1>3. Current(x, e)' = ann /\ (Refuses(m, ann)' <=> Refuses(m, ann))
  BY <1>1 DEF Current, Refuses
<1>4. table.best = tables[x].best => Current(x, e) = ann
  BY DEF Current
<1> HIDE DEF ann
<1>5. m \in ASN /\ received_queue[m] \in Seq(Announcement)
  BY ReceiverFacts DEF RoutesInv
<1>6. CASE m = x \/ x \in pending'[e]
  BY <1>2, <1>3, <1>6 DEF Settled
<1>7. CASE m # x /\ e = d /\ sends
  <2>1. received_queue'[m] = Append(received_queue[m], ann)
    BY <1>5, <1>7 DEF ByOne, ann
  <2>2. Knows(m, x, ann)'
    BY <1>2, <1>5, <2>1, KnowsLast
  <2>3. QED BY <1>3, <2>2 DEF Settled
<1>8. CASE m # x /\ ~(e = d /\ sends) /\ x \notin pending[e] /\ table.best = tables[x].best
  <2>1. e # d => m \notin Receivers(d, x)
    BY ReceiverFacts
  <2>2. received_queue'[m] = received_queue[m] /\ tables'[m] = tables[m]
    BY <1>1, <1>5, <1>8, <2>1 DEF ByOne
  <2>3. Refuses(m, ann) \/ Knows(m, x, ann)
    BY <1>4, <1>8 DEF Settled
  <2>4. Knows(m, x, ann) => Knows(m, x, ann)'
    BY <1>5, <2>2, KnowsKept
  <2>5. QED BY <1>3, <2>3, <2>4 DEF Settled
<1>9. QED BY <1>6, <1>7, <1>8

LEMMA ByOneLosesNothing ==
  ASSUME RoutesInv, NoChangeLost, NEW x \in ASN, NEW table, NEW d \in Direction, NEW sends,
         Consistent(table), OwnPaths(x, table), ByOne(x, table, d, sends),
         DOMAIN received_queue' = ASN, DOMAIN pending' = Direction,
         received_queue'[x] \in Seq(Announcement),
         \A k \in ASN \ {x}, e \in Direction : k \in pending[e] => k \in pending'[e],
         \A e \in Direction :
           \/ x \in pending'[e]
           \/ e = d /\ sends
           \/ x \notin pending[e] /\ table.best = tables[x].best,
         SimplyRelated =>
           \/ table = Processed(x) /\ received_queue'[x] = <<>>
           \/ /\ table = tables[x]
              /\ \/ received_queue'[x] = received_queue[x]
                 \/ \E b : received_queue'[x] = Append(received_queue[x], b) /\ b.next_hop = x
  PROVE  RoutesInv' /\ NoChangeLost'
<1>1. RoutesInv'
  BY ByOneKeepsRoutes
<1>2. /\ graph' = graph
      /\ tables'[x] = table
      /\ \A k \in ASN \ {x} : tables'[k] = tables[k]
  BY DEF ByOne, RoutesInv
<1>3. SimplyRelated' <=> SimplyRelated
  BY <1>2 DEF SimplyRelated
<1>4. ASSUME SimplyRelated, NEW n \in ASN, NEW e \in Direction, tables'[n].best # NoRoute,
             NEW m \in Receivers(e, n)
      PROVE  Settled(n, e, m)'
  <2>1. m \in ASN
    BY ReceiverFacts
  <2>2. tables[n].best # NoRoute => Settled(n, e, m)
    BY <1>4, NoChangeLostIsSettled
  <2>3. CASE n = x
    BY <1>2, <1>4, <2>2, <2>3, ByOneKeepsOwn
  <2>4. CASE n # x
    BY <1>2, <1>4, <2>1, <2>2, <2>4, ByOneKeepsOthers
  <2>5. QED BY <2>3, <2>4
<1>5. \A n \in ASN, e \in Direction : Receivers(e, n)' = Receivers(e, n)
  BY <1>2 DEF Receivers
<1>6. NoChangeLost'
  BY <1>3, <1>4, <1>5 DEF NoChangeLost, Settled, Current
<1>7. QED BY <1>1, <1>6

LEMMA ProcessAndSendLosesNothing ==
  ASSUME RoutesInv, NoChangeLost, NEW n \in ASN, ProcessAndSend(n)
  PROVE  RoutesInv' /\ NoChangeLost'
<1> DEFINE table == Processed(n)
           d == loop.phase
           sends == n \in pending[d] \/ Changed(n, table)
           sent == Export(n, table.best, SentAs(d))
<1>1. Consistent(table) /\ OwnPaths(n, table)
  BY ProcessedResult DEF RoutesInv
<1> HIDE DEF table
<1>2. /\ d \in {"up", "down"}
      /\ ByOne(n, table, d, sends)
      /\ DOMAIN received_queue' = ASN
      /\ DOMAIN pending' = Direction
      /\ n \notin Receivers(d, n) => received_queue'[n] = <<>>
      /\ received_queue'[n] \in {<<>>, Append(<<>>, sent)}
      /\ received_queue'[n] # <<>> => table.best # NoRoute
      /\ \A k \in ASN \ {n}, e \in Direction : k \in pending[e] => k \in pending'[e]
      /\ Changed(n, table) => \A e \in Direction \ {d} : n \in pending'[e]
      /\ \A e \in Direction \ {d} : n \in pending[e] => n \in pending'[e]
  BY ProcessAndSendIsByOne DEF table
<1>3. \A e \in Direction :
        \/ n \in pending'[e]
        \/ e = d /\ sends
        \/ n \notin pending[e] /\ table.best = tables[n].best
  BY <1>2 DEF Changed
<1>4. d \in Direction
  BY <1>2 DEF Direction
<1>5. received_queue'[n] \in Seq(Announcement)
  <2>1. table.best # NoRoute => sent \in Announcement
    BY <1>1, <1>4, CurrentResult
  <2> HIDE DEF sent
  <2>2. \A a \in Announcement : Append(<<>>, a) \in Seq(Announcement)
    OBVIOUS
  <2>3. <<>> \in Seq(Announcement)
    OBVIOUS
  <2>4. QED BY <1>2, <2>1, <2>2, <2>3
<1>6. SimplyRelated => received_queue'[n] = <<>>
  BY <1>2, ReceiverFacts
<1> HIDE DEF sends, d
<1>7. QED BY <1>1, <1>2, <1>3, <1>4, <1>5, <1>6, ByOneLosesNothing DEF table

LEMMA SendAcrossLosesNothing ==
  ASSUME RoutesInv, NoChangeLost, NEW n \in ASN, SendAcross(n)
  PROVE  RoutesInv' /\ NoChangeLost'
<1> DEFINE table == tables[n]
           sends == n \in pending["across"]
           sent == Export(n, table.best, SentAs("across"))
<1>1. Consistent(table) /\ OwnPaths(n, table) /\ "across" \in Direction
  BY DEF RoutesInv, Direction
<1>2. /\ graph' = graph /\ tables' = tables
      /\ pending' = [pending EXCEPT !["across"] = @ \ {n}]
      /\ received_queue' = IF sends THEN Delivered(received_queue, "across", n, table.best)
                           ELSE received_queue
  BY DEF SendAcross, Take
<1>3. /\ DOMAIN received_queue' = ASN
      /\ \A k \in ASN : received_queue'[k] =
           IF sends /\ table.best # NoRoute /\ k \in Receivers("across", n)
           THEN Append(received_queue[k], sent) ELSE received_queue[k]
  BY <1>2 DEF Delivered, RoutesInv
<1>4. DOMAIN tables' = ASN /\ \A k \in ASN : tables'[k] = IF k = n THEN table ELSE tables[k]
  BY <1>2 DEF RoutesInv
<1>5. ByOne(n, table, "across", sends)
  BY <1>2, <1>3, <1>4 DEF ByOne
<1>6. /\ DOMAIN pending' = Direction
      /\ \A k \in ASN \ {n}, e \in Direction : k \in pending[e] => k \in pending'[e]
      /\ \A e \in Direction : \/ n \in pending'[e]
                              \/ e = "across" /\ sends
                              \/ n \notin pending[e]
  BY <1>2 DEF RoutesInv, Direction
<1>7. table.best # NoRoute => sent \in Announcement /\ sent.next_hop = n
  BY <1>1, CurrentResult
<1> HIDE DEF sent
<1>8. \/ received_queue'[n] = received_queue[n]
      \/ \E b : received_queue'[n] = Append(received_queue[n], b) /\ b.next_hop = n
  BY <1>3, <1>7
<1>9. received_queue'[n] \in Seq(Announcement)
  <2>1. received_queue[n] \in Seq(Announcement)
    BY DEF RoutesInv
  <2>2. \A a \in Announcement : Append(received_queue[n], a) \in Seq(Announcement)
    BY <2>1
  <2>3. QED BY <1>3, <1>7, <2>1, <2>2
<1> HIDE DEF sends
<1>10. QED BY <1>1, <1>5, <1>6, <1>3, <1>8, <1>9, ByOneLosesNothing

LEMMA SettleLosesNothing ==
  ASSUME RoutesInv, NoChangeLost, NEW n \in ASN, Settle(n)
  PROVE  RoutesInv' /\ NoChangeLost'
<1> DEFINE table == Processed(n)
<1>1. Consistent(table) /\ OwnPaths(n, table)
  BY ProcessedResult DEF RoutesInv
<1> HIDE DEF table
<1>2. /\ graph' = graph /\ tables' = [tables EXCEPT ![n] = table]
      /\ pending' = IF Changed(n, table) THEN Pend(n, Direction) ELSE pending
      /\ received_queue' = [received_queue EXCEPT ![n] = <<>>]
  BY DEF Settle, Take, table
<1>3. ByOne(n, table, "up", FALSE)
  BY <1>2 DEF ByOne, RoutesInv
<1>4. /\ DOMAIN received_queue' = ASN
      /\ received_queue'[n] = <<>>
      /\ received_queue'[n] \in Seq(Announcement)
  BY <1>2 DEF RoutesInv
<1>5. /\ DOMAIN pending' = Direction
      /\ \A k \in ASN, e \in Direction : k \in pending[e] => k \in pending'[e]
      /\ Changed(n, table) => \A e \in Direction : n \in pending'[e]
  BY <1>2 DEF RoutesInv, Pend
<1>6. \A e \in Direction : n \in pending'[e] \/ (n \notin pending[e] /\ table.best = tables[n].best)
  BY <1>5 DEF Changed
<1>7. "up" \in Direction
  BY DEF Direction
<1>8. QED BY <1>1, <1>3, <1>4, <1>5, <1>6, <1>7, ByOneLosesNothing DEF table

LEMMA RestLosesNothing ==
  ASSUME RoutesInv, NoChangeLost, UNCHANGED <<graph, pending, received_queue, tables>>
  PROVE  RoutesInv' /\ NoChangeLost'
<1>1. RoutesInv'
  BY DEF RoutesInv
<1>2. /\ SimplyRelated' <=> SimplyRelated
      /\ \A n \in ASN, d \in Direction :
           Receivers(d, n)' = Receivers(d, n) /\ (tables[n].best)' = tables[n].best
      /\ \A n \in ASN, d \in Direction : \A m : Settled(n, d, m)' <=> Settled(n, d, m)
  BY DEF SimplyRelated, Receivers, Settled, Current, Refuses, Knows
<1>3. QED BY <1>1, <1>2, NoChangeLostIsSettled DEF NoChangeLost, Settled, Current

LEMMA InitNoChangeLost == Init => NoChangeLost
<1>1. SUFFICES ASSUME Init PROVE NoChangeLost
  OBVIOUS
<1>2. pending = [d \in Direction |-> {n \in ASN : tables[n].best # NoRoute}]
  BY <1>1 DEF Init
<1>3. QED BY <1>2 DEF NoChangeLost

\* Every change of a best route reaches the neighbours it is for, unless it is
\* still pending (as_graph.cpp:811-870), in every round, whatever was lost sight
\* of between the diff, the three pending maps and the queues.
THEOREM ChangesAreNotLost == Spec => []NoChangeLost
<1>1. Init => RoutesInv /\ NoChangeLost
  BY InitRoutesInv, InitNoChangeLost
<1>2. RoutesInv /\ NoChangeLost /\ [Next]_vars => RoutesInv' /\ NoChangeLost'
  <2>1. SUFFICES ASSUME RoutesInv, NoChangeLost, [Next]_vars PROVE RoutesInv' /\ NoChangeLost'
    OBVIOUS
  <2>2. ASSUME NEW n \in ASN, ProcessAndSend(n) PROVE RoutesInv' /\ NoChangeLost'
    BY <2>1, <2>2, ProcessAndSendLosesNothing
  <2>3. ASSUME NEW n \in ASN, SendAcross(n) PROVE RoutesInv' /\ NoChangeLost'
    BY <2>1, <2>3, SendAcrossLosesNothing
  <2>4. ASSUME NEW n \in ASN, Settle(n) PROVE RoutesInv' /\ NoChangeLost'
    BY <2>1, <2>4, SettleLosesNothing
  <2>5. CASE NextLoop \/ EndRound \/ UNCHANGED vars
    BY <2>1, <2>5, RestLosesNothing DEF NextLoop, EndRound, vars
  <2>6. QED BY <2>1, <2>2, <2>3, <2>4, <2>5 DEF Next
<1>3. QED BY <1>1, <1>2, PTL DEF Spec
=============================================================================
