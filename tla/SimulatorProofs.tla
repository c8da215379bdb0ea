---------------------------- MODULE SimulatorProofs ----------------------------
(***************************************************************************)
(* What main hands on from step to step is in order, calls of the library  *)
(* leave the routes in order, and the rows main writes agree with each     *)
(* other, for any number of ASes, any files and any calls.                 *)
(***************************************************************************)
EXTENDS Simulator, RouteTableProofs

(***************************************************************************)
(* Loops.  Step[k] is what the k-th round of a loop makes of a state.      *)
(***************************************************************************)

LEMMA UpTo ==
  ASSUME NEW last \in Nat, NEW P, 0 \in P, \A k \in 1..last : k - 1 \in P => k \in P
  PROVE  \A k \in 0..last : k \in P
<1> DEFINE missing == {k \in 0..last : k \notin P}
<1>1. SUFFICES ASSUME missing # {} PROVE FALSE
  BY DEF missing
<1>2. PICK j \in missing : \A i \in missing : j <= i
  <2>1. missing \subseteq Nat
    OBVIOUS
  <2> HIDE DEF missing
  <2>2. QED BY <1>1, <2>1, LeastElement
<1>3. j \in 1..last /\ j - 1 \in 0..last /\ j - 1 < j
  BY <1>2
<1>4. j - 1 \notin missing
  BY <1>2, <1>3
<1>5. QED BY <1>2, <1>3, <1>4

\* The states before and after the rounds of a loop.
Rounds(f, from, Step, last) ==
  f[0] = from /\ \A k \in 1..last : f[k] = Step[k][f[k - 1]]

LEMMA LoopRuns ==
  ASSUME NEW S, NEW from \in S, NEW last \in Nat, NEW Step \in [1..last -> [S -> S]]
  PROVE  \E f \in [0..last -> S] : Rounds(f, from, Step, last)
<1> DEFINE P == {k \in Nat : k <= last => \E f \in [0..k -> S] : Rounds(f, from, Step, k)}
<1>1. 0 \in P
  <2> DEFINE f == [k \in 0..0 |-> from]
  <2>1. f \in [0..0 -> S] /\ Rounds(f, from, Step, 0)
    BY DEF Rounds
  <2> HIDE DEF f
  <2>2. QED BY <2>1
<1>2. ASSUME NEW k \in 1..last, k - 1 \in P PROVE k \in P
  <2>1. PICK f \in [0..(k - 1) -> S] : Rounds(f, from, Step, k - 1)
    BY <1>2
  <2>2. f[k - 1] \in S /\ Step[k] \in [S -> S]
    BY <1>2
  <2> DEFINE g == [j \in 0..k |-> IF j < k THEN f[j] ELSE Step[k][f[k - 1]]]
  <2>3. g \in [0..k -> S]
    BY <1>2, <2>2
  <2>4. g[0] = from
    BY <1>2, <2>1 DEF Rounds
  <2>5. ASSUME NEW j \in 1..k PROVE g[j] = Step[j][g[j - 1]]
    <3>1. j \in 0..k /\ j - 1 \in 0..k /\ j - 1 < k
      BY <1>2
    <3>2. g[j - 1] = f[j - 1]
      BY <3>1
    <3>3. CASE j = k
      BY <3>1, <3>2, <3>3
    <3>4. CASE j < k
      <4>1. j \in 1..(k - 1)
        BY <1>2, <3>4
      <4>2. QED BY <2>1, <3>1, <3>2, <3>4, <4>1 DEF Rounds
    <3>5. QED BY <1>2, <3>3, <3>4
  <2> HIDE DEF g
  <2>6. \E h \in [0..k -> S] : Rounds(h, from, Step, k)
    BY <2>3, <2>4, <2>5 DEF Rounds
  <2>7. QED BY <1>2, <2>6
<1> HIDE DEF P
<1>3. last \in P
  <2>1. \A k \in 0..last : k \in P
    BY <1>1, <1>2, UpTo
  <2>2. last \in 0..last
    OBVIOUS
  <2>3. QED BY <2>1, <2>2
<1>4. QED BY <1>3 DEF P

\* They are what the loop's recursive function says, and never leave S.
LEMMA LoopStays ==
  ASSUME NEW S, NEW from \in S, NEW last \in Nat, NEW Step \in [1..last -> [S -> S]],
         NEW g, g[0] = from, \A k \in 1..last : g[k - 1] \in S => g[k] = Step[k][g[k - 1]]
  PROVE  \A k \in 0..last : g[k] \in S
<1> DEFINE P == {k \in 0..last : g[k] \in S}
<1>1. 0 \in P
  OBVIOUS
<1>2. ASSUME NEW k \in 1..last, k - 1 \in P PROVE k \in P
  BY <1>2
<1> HIDE DEF P
<1>3. \A k \in 0..last : k \in P
  BY <1>1, <1>2, UpTo
<1>4. QED BY <1>3 DEF P
-----------------------------------------------------------------------------
(***************************************************************************)
(* The routes of all ASes between two calls, and inside one.               *)
(***************************************************************************)

Table == [queue : Seq(Announcement), best : Announcement \cup {NoRoute}]

\* What an AS may hold: own is the set of ASes that announce the prefix.
GoodTable(g, own, n, table) ==
  /\ Consistent(table)
  /\ n \in g.rov => \A k \in DOMAIN table.queue : ~table.queue[k].rov_invalid
  /\ \A k \in DOMAIN table.queue :
       table.queue[k].received_from = "ORIGIN" =>
         table.queue[k].path = <<n>> /\ table.queue[k].next_hop = n
  /\ n \in own /\ n \notin g.peers[n] =>
       \E k \in DOMAIN table.queue : table.queue[k].received_from = "ORIGIN"

\* What may be on its way to an AS: nothing comes from itself but over a peering
\* with itself.
GoodMessage(g, n, ann) ==
  /\ ann \in Announcement
  /\ ann.received_from # "ORIGIN"
  /\ ann.next_hop = n => n \in g.peers[n]

GoodQueue(g, n, queue) ==
  queue \in Seq(Announcement) /\ \A k \in DOMAIN queue : GoodMessage(g, n, queue[k])

States(g, own) ==
  {s \in [tables : [ASN -> Table], queues : [ASN -> Seq(Announcement)]] :
     \A n \in ASN : GoodTable(g, own, n, s.tables[n]) /\ GoodQueue(g, n, s.queues[n])}

LEMMA EmptyIsGood ==
  ASSUME NEW g, NEW own, NEW n, n \notin own
  PROVE  EmptyTable \in Table /\ GoodTable(g, own, n, EmptyTable)
<1>1. /\ EmptyTable.queue = <<>> /\ EmptyTable.best = NoRoute
      /\ EmptyTable \in Table
  BY DEF EmptyTable, Table
<1>2. DOMAIN EmptyTable.queue = {}
  BY <1>1
<1>3. QED
  BY <1>1, <1>2 DEF GoodTable, Consistent, OnePerNeighbour, BestIsSelection

\* StoreResult, without the routes' next hops.
LEMMA StoreKeeps ==
  ASSUME NEW old \in Seq(Announcement), OnePerNeighbour(old), NEW ann \in Announcement
  PROVE  /\ Store(old, ann) \in Seq(Announcement)
         /\ \E k \in DOMAIN Store(old, ann) : Store(old, ann)[k] = ann
         /\ \A k \in DOMAIN Store(old, ann) :
              \/ Store(old, ann)[k] = ann
              \/ \E j \in DOMAIN old : Store(old, ann)[k] = old[j]
         /\ \A j \in DOMAIN old :
              old[j].next_hop # ann.next_hop =>
                \E k \in DOMAIN Store(old, ann) : Store(old, ann)[k] = old[j]
<1> DEFINE queue == Store(old, ann)
<1>1. /\ queue \in Seq(Announcement) /\ queue # <<>> /\ OnePerNeighbour(queue)
      /\ \E k \in DOMAIN queue : queue[k] = ann
      /\ \A k \in DOMAIN queue :
           \/ queue[k] = ann
           \/ \E j \in DOMAIN old : queue[k] = old[j] /\ old[j].next_hop # ann.next_hop
      /\ \A j \in DOMAIN old :
           old[j].next_hop # ann.next_hop => \E k \in DOMAIN queue : queue[k] = old[j]
  BY StoreResult, ZenonT(60)
<1> HIDE DEF queue
<1>2. /\ queue \in Seq(Announcement)
      /\ \E k \in DOMAIN queue : queue[k] = ann
      /\ \A k \in DOMAIN queue : queue[k] = ann \/ \E j \in DOMAIN old : queue[k] = old[j]
      /\ \A j \in DOMAIN old :
           old[j].next_hop # ann.next_hop => \E k \in DOMAIN queue : queue[k] = old[j]
  BY <1>1
<1>3. QED BY <1>2 DEF queue

\* What an AS takes in keeps its table good; adding its own announcement makes
\* it one of those that announce the prefix.
LEMMA ReceiveIsGood ==
  ASSUME NEW g, NEW own, NEW n \in ASN, NEW table \in Table, GoodTable(g, own, n, table),
         NEW ann \in Announcement,
         n \in g.rov => ~ann.rov_invalid,
         \/ ann.received_from # "ORIGIN" /\ (ann.next_hop = n => n \in g.peers[n])
         \/ ann.received_from = "ORIGIN" /\ ann.path = <<n>> /\ ann.next_hop = n
  PROVE  LET new == Receive(table, ann)
         IN  /\ new \in Table
             /\ GoodTable(g, own, n, new)
             /\ ann.received_from = "ORIGIN" => GoodTable(g, own \cup {n}, n, new)
<1> DEFINE new == Receive(table, ann)
           old == table.queue
           queue == Store(old, ann)
<1>1. old \in Seq(Announcement) /\ OnePerNeighbour(old)
  BY DEF GoodTable, Consistent
<1>2. /\ queue \in Seq(Announcement)
      /\ \E k \in DOMAIN queue : queue[k] = ann
      /\ \A k \in DOMAIN queue : queue[k] = ann \/ \E j \in DOMAIN old : queue[k] = old[j]
      /\ \A j \in DOMAIN old :
           old[j].next_hop # ann.next_hop => \E k \in DOMAIN queue : queue[k] = old[j]
  <2> HIDE DEF old
  <2>1. QED BY <1>1, StoreKeeps, ZenonT(60)
<1>3. Consistent(new)
  <2>1. Consistent(table)
    BY DEF GoodTable
  <2>2. QED BY <2>1, ReceiveKeepsConsistent
<1>4. new.queue = queue /\ new = [queue |-> queue, best |-> new.best]
  BY DEF Receive
<1>5. new.best \in Announcement \cup {NoRoute}
  BY <1>3, ConsistentBest
<1> HIDE DEF new, queue, old
<1>6. new \in Table
  BY <1>2, <1>4, <1>5 DEF Table
<1>7. n \in g.rov => \A k \in DOMAIN queue : ~queue[k].rov_invalid
  BY <1>2 DEF GoodTable, old
<1>8. \A k \in DOMAIN queue :
        queue[k].received_from = "ORIGIN" => queue[k].path = <<n>> /\ queue[k].next_hop = n
  BY <1>2 DEF GoodTable, old
<1>9. ASSUME n \in own, n \notin g.peers[n]
      PROVE  \E k \in DOMAIN queue : queue[k].received_from = "ORIGIN"
  <2>1. PICK j \in DOMAIN old : old[j].received_from = "ORIGIN" /\ old[j].next_hop = n
    BY <1>9 DEF GoodTable, old
  <2>2. CASE ann.received_from = "ORIGIN"
    BY <1>2, <2>2
  <2>3. CASE ann.received_from # "ORIGIN"
    <3>1. ann.next_hop # n
      BY <1>9, <2>3
    <3>2. QED BY <1>2, <2>1, <3>1
  <2>4. QED BY <2>2, <2>3
<1>10. GoodTable(g, own, n, new)
  BY <1>3, <1>4, <1>7, <1>8, <1>9 DEF GoodTable
<1>11. ann.received_from = "ORIGIN" => GoodTable(g, own \cup {n}, n, new)
  BY <1>2, <1>3, <1>4, <1>7, <1>8 DEF GoodTable
<1>12. QED BY <1>6, <1>10, <1>11 DEF new

LEMMA AbsorbIsGood ==
  ASSUME NEW g, NEW own, NEW n \in ASN, NEW table \in Table, GoodTable(g, own, n, table),
         NEW ann, GoodMessage(g, n, ann)
  PROVE  Absorb(g, n, table, ann) \in Table /\ GoodTable(g, own, n, Absorb(g, n, table, ann))
<1> DEFINE learned == PrependASN(ann, n, ann.next_hop, ann.received_from)
<1>1. ann \in Announcement /\ ann.next_hop \in ASN /\ ann.received_from \in Relationship
  BY DEF GoodMessage, Announcement
<1>2. /\ learned \in Announcement
      /\ learned.next_hop = ann.next_hop
      /\ learned.received_from = ann.received_from
  BY <1>1, PrependResult
<1>3. CASE Accepts(n, ann) /\ ~(n \in g.rov /\ learned.rov_invalid)
  <2>1. Absorb(g, n, table, ann) = Receive(table, learned)
    BY <1>3 DEF Absorb, Admit
  <2> HIDE DEF learned
  <2>2. QED BY <1>2, <1>3, <2>1, ReceiveIsGood DEF GoodMessage
<1>4. CASE ~(Accepts(n, ann) /\ ~(n \in g.rov /\ learned.rov_invalid))
  <2>1. Absorb(g, n, table, ann) = table
    BY <1>4 DEF Absorb, Admit
  <2>2. QED BY <2>1
<1>5. QED BY <1>3, <1>4

\* A set of tables that no announcement of a queue leads out of holds the result.
LEMMA AbsorbedStays ==
  ASSUME NEW g, NEW n, NEW queue, Len(queue) \in Nat, NEW S, NEW table \in S,
         \A k \in 1..Len(queue), t \in S : Absorb(g, n, t, queue[k]) \in S
  PROVE  /\ Absorbed(g, n, table, queue) \in S
         /\ Len(queue) = 0 => Absorbed(g, n, table, queue) = table
<1> DEFINE Step == [k \in 1..Len(queue) |-> [t \in S |-> Absorb(g, n, t, queue[k])]]
           Says(f) == f = [k \in 0..Len(queue) |->
                             IF k = 0 THEN table ELSE Absorb(g, n, f[k - 1], queue[k])]
           after == CHOOSE f : Says(f)
<1>1. /\ Step \in [1..Len(queue) -> [S -> S]]
      /\ \A k \in 1..Len(queue), t \in S : Step[k][t] = Absorb(g, n, t, queue[k])
  OBVIOUS
<1> HIDE DEF Step
<1>2. PICK f \in [0..Len(queue) -> S] : Rounds(f, table, Step, Len(queue))
  BY <1>1, LoopRuns
<1>3. Says(f)
  <2>1. ASSUME NEW k \in 0..Len(queue)
        PROVE  f[k] = IF k = 0 THEN table ELSE Absorb(g, n, f[k - 1], queue[k])
    <3>1. CASE k = 0
      BY <1>2, <3>1 DEF Rounds
    <3>2. CASE k # 0
      <4>1. k \in 1..Len(queue) /\ k - 1 \in 0..Len(queue)
        BY <3>2
      <4>2. f[k - 1] \in S
        BY <4>1
      <4>3. QED BY <1>1, <1>2, <3>2, <4>1, <4>2 DEF Rounds
    <3>3. QED BY <3>1, <3>2
  <2>2. f = [k \in 0..Len(queue) |-> f[k]]
    OBVIOUS
  <2>3. QED BY <2>1, <2>2
<1>4. Says(after)
  BY <1>3
<1>5. Absorbed(g, n, table, queue) = after[Len(queue)]
  BY DEF Absorbed
<1> HIDE DEF after
<1>6. /\ after[0] = table
      /\ \A k \in 1..Len(queue) : after[k] = Absorb(g, n, after[k - 1], queue[k])
  <2>1. 0 \in 0..Len(queue) /\ \A k \in 1..Len(queue) : k \in 0..Len(queue) /\ k # 0
    OBVIOUS
  <2>2. QED BY <1>4, <2>1
<1>7. \A k \in 0..Len(queue) : after[k] \in S
  <2>1. \A k \in 1..Len(queue) : after[k - 1] \in S => after[k] = Step[k][after[k - 1]]
    BY <1>1, <1>6
  <2>2. QED BY <1>1, <1>6, <2>1, LoopStays
<1>8. Len(queue) \in 0..Len(queue)
  OBVIOUS
<1>9. QED BY <1>5, <1>6, <1>7, <1>8

\* Processing a queue keeps a table good.
LEMMA AbsorbedIsGood ==
  ASSUME NEW g, NEW own, NEW n \in ASN, NEW table \in Table, GoodTable(g, own, n, table),
         NEW queue, GoodQueue(g, n, queue)
  PROVE  /\ Absorbed(g, n, table, queue) \in Table
         /\ GoodTable(g, own, n, Absorbed(g, n, table, queue))
         /\ queue = <<>> => Absorbed(g, n, table, queue) = table
<1> DEFINE S == {t \in Table : GoodTable(g, own, n, t)}
<1>1. Len(queue) \in Nat /\ DOMAIN queue = 1..Len(queue) /\ queue \in Seq(Announcement)
  BY DEF GoodQueue
<1>2. table \in S
  OBVIOUS
<1>3. ASSUME NEW k \in 1..Len(queue), NEW t \in S PROVE Absorb(g, n, t, queue[k]) \in S
  BY <1>1, AbsorbIsGood DEF GoodQueue
<1>4. Absorbed(g, n, table, queue) \in S
  <2> HIDE DEF S
  <2>1. QED BY <1>1, <1>2, <1>3, AbsorbedStays
<1>5. queue = <<>> => Absorbed(g, n, table, queue) = table
  <2> HIDE DEF S
  <2>1. queue = <<>> => Len(queue) = 0
    OBVIOUS
  <2>2. Len(queue) = 0 => Absorbed(g, n, table, queue) = table
    BY <1>1, <1>2, <1>3, AbsorbedStays, ZenonT(60)
  <2>3. QED BY <2>1, <2>2
<1>6. QED BY <1>4, <1>5
-----------------------------------------------------------------------------
(***************************************************************************)
(* Processing and sending, at some ASes after the other.                   *)
(***************************************************************************)

LEMMA SameFunction ==
  ASSUME NEW D, NEW T, NEW f \in [D -> T], NEW h \in [D -> T], \A x \in D : f[x] = h[x]
  PROVE  f = h
OBVIOUS

LEMMA SetToSeqType ==
  ASSUME NEW S, IsFiniteSet(S)
  PROVE  SetToSeq(S) \in Seq(S) /\ (S = {} => SetToSeq(S) = <<>>)
<1>1. /\ Cardinality(S) \in Nat
      /\ \E f : f \in Bijection(1..Cardinality(S), S)
  BY FS_CardinalityType DEF ExistsBijection
<1>2. \E f \in [1..Cardinality(S) -> S] : IsInjective(f)
  BY <1>1 DEF Bijection, Injection
<1>3. SetToSeq(S) \in [1..Cardinality(S) -> S]
  BY <1>2 DEF SetToSeq
<1>4. SetToSeq(S) \in Seq(S)
  BY <1>1, <1>3
<1>5. S = {} => SetToSeq(S) = <<>>
  BY <1>4
<1>6. QED BY <1>4, <1>5

LEMMA StateParts ==
  ASSUME NEW g, NEW own, NEW s \in States(g, own)
  PROVE  /\ s = [tables |-> s.tables, queues |-> s.queues]
         /\ s.tables \in [ASN -> Table]
         /\ s.queues \in [ASN -> Seq(Announcement)]
         /\ \A n \in ASN : /\ s.tables[n] \in Table
                           /\ GoodTable(g, own, n, s.tables[n])
                           /\ GoodQueue(g, n, s.queues[n])
BY DEF States

LEMMA SameState ==
  ASSUME NEW g, NEW own, NEW s \in States(g, own), NEW t \in States(g, own),
         \A n \in ASN : s.tables[n] = t.tables[n] /\ s.queues[n] = t.queues[n]
  PROVE  s = t
<1>1. s.tables = t.tables
  BY StateParts, SameFunction
<1>2. s.queues = t.queues
  BY StateParts, SameFunction
<1>3. QED BY <1>1, <1>2, StateParts

LEMMA MakeState ==
  ASSUME NEW g, NEW own, NEW tabs \in [ASN -> Table], NEW qs \in [ASN -> Seq(Announcement)],
         \A n \in ASN : GoodTable(g, own, n, tabs[n]) /\ GoodQueue(g, n, qs[n])
  PROVE  [tables |-> tabs, queues |-> qs] \in States(g, own)
BY DEF States

LEMMA EmptyQueueIsGood ==
  ASSUME NEW g, NEW n
  PROVE  <<>> \in Seq(Announcement) /\ GoodQueue(g, n, <<>>)
BY DEF GoodQueue

\* Processing empties the queues of those that process and changes nothing else
\* but their tables; without queues it changes nothing.
LEMMA AllProcessResult ==
  ASSUME NEW g, NEW own, NEW s \in States(g, own), NEW members
  PROVE  LET t == AllProcess(g, s, members)
         IN  /\ t \in States(g, own)
             /\ \A n \in ASN : t.queues[n] = IF n \in members THEN <<>> ELSE s.queues[n]
             /\ (\A n \in ASN : s.queues[n] = <<>>) => t = s
<1> DEFINE tabs == [n \in ASN |-> IF n \in members
                                  THEN Absorbed(g, n, s.tables[n], s.queues[n]) ELSE s.tables[n]]
           qs == [n \in ASN |-> IF n \in members THEN <<>> ELSE s.queues[n]]
           t == AllProcess(g, s, members)
<1>1. t = [tables |-> tabs, queues |-> qs]
  BY DEF AllProcess
<1>2. ASSUME NEW n \in ASN
      PROVE  /\ s.tables[n] \in Table /\ GoodTable(g, own, n, s.tables[n])
             /\ GoodQueue(g, n, s.queues[n]) /\ s.queues[n] \in Seq(Announcement)
  BY StateParts DEF GoodQueue
<1>3. ASSUME NEW n \in ASN
      PROVE  /\ tabs[n] \in Table /\ GoodTable(g, own, n, tabs[n])
             /\ s.queues[n] = <<>> => tabs[n] = s.tables[n]
  <2> DEFINE table == s.tables[n]
             queue == s.queues[n]
  <2>1. table \in Table /\ GoodTable(g, own, n, table) /\ GoodQueue(g, n, queue)
    BY <1>2
  <2> HIDE DEF table, queue
  <2>2. /\ Absorbed(g, n, table, queue) \in Table
        /\ GoodTable(g, own, n, Absorbed(g, n, table, queue))
        /\ queue = <<>> => Absorbed(g, n, table, queue) = table
    BY <2>1, AbsorbedIsGood
  <2>3. tabs[n] = IF n \in members THEN Absorbed(g, n, table, queue) ELSE table
    BY DEF table, queue
  <2>4. QED BY <2>1, <2>2, <2>3 DEF table, queue
<1>4. ASSUME NEW n \in ASN
      PROVE  qs[n] \in Seq(Announcement) /\ GoodQueue(g, n, qs[n])
  BY <1>2, EmptyQueueIsGood
<1>5. \A n \in ASN : qs[n] = IF n \in members THEN <<>> ELSE s.queues[n]
  OBVIOUS
<1>6. tabs \in [ASN -> Table] /\ qs \in [ASN -> Seq(Announcement)]
  BY <1>3, <1>4
<1> HIDE DEF tabs, qs, t
<1>7. t \in States(g, own)
  BY <1>1, <1>3, <1>4, <1>6, MakeState
<1>8. (\A n \in ASN : s.queues[n] = <<>>) => t = s
  BY <1>1, <1>3, <1>5, <1>7, SameState
<1>9. QED BY <1>1, <1>5, <1>7, <1>8 DEF t

\* Sending adds to the queues of the targets and changes nothing else.
LEMMA AllSendResult ==
  ASSUME NEW g, NEW own, NEW s \in States(g, own), NEW members \in SUBSET ASN, NEW targets,
         \A n \in members : n \in targets[n] => n \in g.peers[n],
         NEW rel \in Relationship \ {"ORIGIN"},
         NEW t, t = AllSend(s, members, targets, rel)
  PROVE  /\ t \in States(g, own)
         /\ \A n \in ASN : (\A m \in members : n \notin targets[m]) =>
                             t.queues[n] = s.queues[n]
         /\ (\A m \in members, n \in ASN : n \notin targets[m]) => t = s
<1> DEFINE senders(n) == SetToSeq({m \in members : n \in targets[m] /\ s.tables[m].best # NoRoute})
           sent(n) == [k \in DOMAIN senders(n) |->
                         Export(senders(n)[k], s.tables[senders(n)[k]].best, rel)]
           qs == [n \in ASN |-> s.queues[n] \o sent(n)]
<1>1. t = [tables |-> s.tables, queues |-> qs]
  BY DEF AllSend
<1>2. ASSUME NEW n \in ASN
      PROVE  /\ senders(n) \in Seq({m \in members : n \in targets[m] /\ s.tables[m].best # NoRoute})
             /\ (\A m \in members : n \notin targets[m]) => senders(n) = <<>>
  <2> DEFINE S == {m \in members : n \in targets[m] /\ s.tables[m].best # NoRoute}
  <2>1. IsFiniteSet(S) /\ ((\A m \in members : n \notin targets[m]) => S = {})
    BY ASNFinite, FS_Subset
  <2> HIDE DEF S
  <2>2. SetToSeq(S) \in Seq(S) /\ (S = {} => SetToSeq(S) = <<>>)
    BY <2>1, SetToSeqType
  <2>3. QED BY <2>1, <2>2 DEF S
<1>3. ASSUME NEW n \in ASN
      PROVE  GoodQueue(g, n, sent(n)) /\ sent(n) \in Seq(Announcement)
  <2>1. DOMAIN senders(n) = 1..Len(senders(n)) /\ Len(senders(n)) \in Nat
    BY <1>2
  <2>2. ASSUME NEW k \in DOMAIN senders(n)
        PROVE  GoodMessage(g, n, Export(senders(n)[k], s.tables[senders(n)[k]].best, rel))
    <3> DEFINE S == {m \in members : n \in targets[m] /\ s.tables[m].best # NoRoute}
               m == senders(n)[k]
    <3>1. m \in S
      <4>1. senders(n) \in Seq(S)
        BY <1>2
      <4> HIDE DEF senders, S
      <4>2. QED BY <2>1, <4>1
    <3>2. m \in members /\ n \in targets[m] /\ s.tables[m].best # NoRoute
      <4> HIDE DEF m
      <4>1. QED BY <3>1
    <3> HIDE DEF m, S
    <3>3. m \in ASN /\ s.tables[m] \in Table
      BY <3>2, StateParts
    <3>4. s.tables[m].best \in Announcement
      BY <3>2, <3>3 DEF Table
    <3>5. LET ann == Export(m, s.tables[m].best, rel)
          IN  ann \in Announcement /\ ann.next_hop = m /\ ann.received_from = rel
      BY <3>3, <3>4, ExportResult
    <3>6. GoodMessage(g, n, Export(m, s.tables[m].best, rel))
      BY <3>2, <3>5 DEF GoodMessage
    <3>7. QED BY <3>6 DEF m
  <2>3. \A k \in DOMAIN senders(n) :
          Export(senders(n)[k], s.tables[senders(n)[k]].best, rel) \in Announcement
    BY <2>2 DEF GoodMessage
  <2> HIDE DEF senders
  <2>4. sent(n) \in [1..Len(senders(n)) -> Announcement]
    BY <2>1, <2>3
  <2>5. sent(n) \in Seq(Announcement)
    BY <2>1, <2>4
  <2>6. QED BY <2>1, <2>2, <2>5 DEF GoodQueue
<1>4. ASSUME NEW n \in ASN
      PROVE  /\ qs[n] \in Seq(Announcement) /\ GoodQueue(g, n, qs[n])
             /\ (\A m \in members : n \notin targets[m]) => qs[n] = s.queues[n]
  <2> DEFINE q == s.queues[n]
             r == sent(n)
  <2>1. q \in Seq(Announcement) /\ GoodQueue(g, n, q)
    BY StateParts
  <2>2. qs[n] = q \o r
    OBVIOUS
  <2>3. (\A m \in members : n \notin targets[m]) => r = <<>>
    BY <1>2
  <2>4. r \in Seq(Announcement) /\ GoodQueue(g, n, r)
    BY <1>3
  <2> HIDE DEF q, r, qs
  <2>5. q \o r \in Seq(Announcement)
    BY <2>1, <2>4
  <2>6. \A k \in DOMAIN (q \o r) :
          (\E j \in DOMAIN q : (q \o r)[k] = q[j]) \/ (\E j \in DOMAIN r : (q \o r)[k] = r[j])
    <3>1. SUFFICES ASSUME NEW k \in 1..(Len(q) + Len(r))
                   PROVE  \/ \E j \in 1..Len(q) : (q \o r)[k] = q[j]
                          \/ \E j \in 1..Len(r) : (q \o r)[k] = r[j]
      <4>1. DOMAIN q = 1..Len(q) /\ DOMAIN r = 1..Len(r)
        BY <2>1, <2>4
      <4>2. DOMAIN (q \o r) = 1..(Len(q) + Len(r))
        BY <2>1, <2>4
      <4>3. QED BY <4>1, <4>2
    <3>2. Len(q) \in Nat /\ Len(r) \in Nat
      BY <2>1, <2>4
    <3>3. CASE k <= Len(q)
      BY <2>1, <2>4, <3>2, <3>3
    <3>4. CASE k > Len(q)
      <4>1. k - Len(q) \in 1..Len(r) /\ (q \o r)[k] = r[k - Len(q)]
        BY <2>1, <2>4, <3>2, <3>4
      <4>2. QED BY <4>1
    <3>5. QED BY <3>2, <3>3, <3>4
  <2>7. GoodQueue(g, n, q \o r)
    BY <2>1, <2>4, <2>5, <2>6 DEF GoodQueue
  <2>8. r = <<>> => q \o r = q
    BY <2>1
  <2>9. QED BY <2>2, <2>3, <2>5, <2>7, <2>8 DEF q
<1> HIDE DEF senders, sent
<1>5. qs \in [ASN -> Seq(Announcement)]
  BY <1>4
<1> HIDE DEF qs
<1>6. t \in States(g, own)
  <2>1. s.tables \in [ASN -> Table]
    BY StateParts
  <2>2. \A n \in ASN : GoodTable(g, own, n, s.tables[n]) /\ GoodQueue(g, n, qs[n])
    BY <1>4, StateParts
  <2>3. [tables |-> s.tables, queues |-> qs] \in States(g, own)
    BY <1>5, <2>1, <2>2, MakeState
  <2>4. QED BY <1>1, <2>3
<1>7. (\A m \in members, n \in ASN : n \notin targets[m]) => t = s
  BY <1>1, <1>4, <1>6, SameState
<1>8. QED BY <1>1, <1>4, <1>6, <1>7
-----------------------------------------------------------------------------
(***************************************************************************)
(* The phases as calls.                                                    *)
(***************************************************************************)

\* Nobody below, or above, this rank has anything to process.
NothingBelow(g, s, r) == \A n \in ASN : g.rank[n] < r => s.queues[n] = <<>>

NothingAbove(g, s, r) == \A n \in ASN : g.rank[n] > r => s.queues[n] = <<>>

Nothing(s) == \A n \in ASN : s.queues[n] = <<>>

LEMMA RankTypes ==
  ASSUME NEW g, WellFormed(g)
  PROVE  /\ MaxRank(g) \in Nat
         /\ \A n \in ASN : g.rank[n] \in Nat /\ g.rank[n] <= MaxRank(g)
         /\ \A n, m \in ASN : m \in g.providers[n] => g.rank[n] < g.rank[m]
<1>1. g.rank \in [ASN -> Nat]
  BY DEF WellFormed, Graph
<1>2. \A n, m \in ASN : m \in g.providers[n] => g.rank[n] < g.rank[m]
  BY DEF WellFormed, Flattened, Customers
<1>3. QED BY <1>1, <1>2, MaxRankType

LEMMA LinkTypes ==
  ASSUME NEW g, WellFormed(g)
  PROVE  /\ g.providers = [n \in ASN |-> g.providers[n]]
         /\ g.peers = [n \in ASN |-> g.peers[n]]
         /\ CustomersOfAll(g) = [n \in ASN |-> Customers(g, n)]
         /\ \A n, m \in ASN : m \in CustomersOfAll(g)[n] <=> n \in g.providers[m]
<1>1. g.providers \in [ASN -> SUBSET ASN] /\ g.peers \in [ASN -> SUBSET ASN]
  BY DEF WellFormed, Graph
<1>2. QED BY <1>1 DEF Customers, CustomersOfAll

LEMMA RankUpResult ==
  ASSUME NEW g, WellFormed(g), NEW own, NEW s \in States(g, own), NEW r \in Nat
  PROVE  /\ RankUp(g, s, r) \in States(g, own)
         /\ NothingBelow(g, s, r) => NothingBelow(g, RankUp(g, s, r), r + 1)
<1> DEFINE t == AllProcess(g, s, Bucket(g, r))
           above == g.providers
           u == AllSend(t, Bucket(g, r), above, "FROM_CUSTOMER")
<1>1. /\ t \in States(g, own)
      /\ \A n \in ASN : t.queues[n] = IF n \in Bucket(g, r) THEN <<>> ELSE s.queues[n]
  BY AllProcessResult
<1>2. Bucket(g, r) \in SUBSET ASN /\ \A n \in ASN : n \in Bucket(g, r) <=> g.rank[n] = r
  BY DEF Bucket
<1>0. /\ \A n \in ASN : g.rank[n] \in Nat
      /\ \A n, m \in ASN : m \in g.providers[n] => g.rank[n] < g.rank[m]
  BY RankTypes
<1>3. ASSUME NEW n \in Bucket(g, r) PROVE n \notin above[n]
  <2>1. n \in ASN
    BY <1>2
  <2>2. QED BY <1>0, <2>1
<1> HIDE DEF above
<1>4. "FROM_CUSTOMER" \in Relationship \ {"ORIGIN"}
  BY DEF Relationship
<1>9. u = AllSend(t, Bucket(g, r), above, "FROM_CUSTOMER")
  OBVIOUS
<1> HIDE DEF t, u
<1>5. /\ u \in States(g, own)
      /\ \A n \in ASN : (\A m \in Bucket(g, r) : n \notin above[m]) =>
                          u.queues[n] = t.queues[n]
  <2>1. Bucket(g, r) \in SUBSET ASN
    BY <1>2
  <2>2. \A n \in Bucket(g, r) : n \in above[n] => n \in g.peers[n]
    BY <1>3
  <2>3. t \in States(g, own)
    BY <1>1
  <2>4. QED BY <1>4, <1>9, <2>1, <2>2, <2>3, AllSendResult, SMTT(60)
<1>6. RankUp(g, s, r) = u
  BY DEF RankUp, t, u, above
<1>7. ASSUME NothingBelow(g, s, r) PROVE NothingBelow(g, u, r + 1)
  <2>1. SUFFICES ASSUME NEW n \in ASN, g.rank[n] < r + 1 PROVE u.queues[n] = <<>>
    BY DEF NothingBelow
  <2>2. \A m \in Bucket(g, r) : n \notin above[m]
    BY <1>0, <1>2, <2>1 DEF above
  <2>3. t.queues[n] = <<>>
    BY <1>0, <1>1, <1>2, <1>7, <2>1 DEF NothingBelow
  <2>4. QED BY <1>5, <2>2, <2>3
<1>8. QED BY <1>5, <1>6, <1>7

LEMMA RankDownResult ==
  ASSUME NEW g, WellFormed(g), NEW own, NEW s \in States(g, own), NEW r \in Nat
  PROVE  /\ RankDown(g, s, r) \in States(g, own)
         /\ NothingAbove(g, s, r) => NothingAbove(g, RankDown(g, s, r), r - 1)
<1> DEFINE t == AllProcess(g, s, Bucket(g, r))
           u == AllSend(t, Bucket(g, r), CustomersOfAll(g), "FROM_PROVIDER")
<1>1. /\ t \in States(g, own)
      /\ \A n \in ASN : t.queues[n] = IF n \in Bucket(g, r) THEN <<>> ELSE s.queues[n]
  BY AllProcessResult
<1>2. Bucket(g, r) \in SUBSET ASN /\ \A n \in ASN : n \in Bucket(g, r) <=> g.rank[n] = r
  BY DEF Bucket
<1>0. \A n \in ASN : g.rank[n] \in Nat
  BY RankTypes
<1>3. \A n, m \in ASN : m \in CustomersOfAll(g)[n] => g.rank[m] < g.rank[n]
  <2>1. \A n, m \in ASN : n \in g.providers[m] => g.rank[m] < g.rank[n]
    BY RankTypes
  <2>2. \A n, m \in ASN : m \in CustomersOfAll(g)[n] <=> n \in g.providers[m]
    BY LinkTypes
  <2>3. QED BY <2>1, <2>2
<1>4. ASSUME NEW n \in Bucket(g, r) PROVE n \notin CustomersOfAll(g)[n]
  <2>1. n \in ASN
    BY <1>2
  <2>2. QED BY <1>0, <1>3, <2>1
<1>5. "FROM_PROVIDER" \in Relationship \ {"ORIGIN"}
  BY DEF Relationship
<1>10. u = AllSend(t, Bucket(g, r), CustomersOfAll(g), "FROM_PROVIDER")
  OBVIOUS
<1> HIDE DEF t, u
<1>6. /\ u \in States(g, own)
      /\ \A n \in ASN : (\A m \in Bucket(g, r) : n \notin CustomersOfAll(g)[m]) =>
                          u.queues[n] = t.queues[n]
  <2>1. Bucket(g, r) \in SUBSET ASN
    BY <1>2
  <2>2. \A n \in Bucket(g, r) : n \in CustomersOfAll(g)[n] => n \in g.peers[n]
    BY <1>4
  <2>3. t \in States(g, own)
    BY <1>1
  <2>4. QED BY <1>5, <1>10, <2>1, <2>2, <2>3, AllSendResult, SMTT(60)
<1>7. RankDown(g, s, r) = u
  BY DEF RankDown, t, u
<1>8. ASSUME NothingAbove(g, s, r) PROVE NothingAbove(g, u, r - 1)
  <2>1. SUFFICES ASSUME NEW n \in ASN, g.rank[n] > r - 1 PROVE u.queues[n] = <<>>
    BY DEF NothingAbove
  <2>2. \A m \in Bucket(g, r) : n \notin CustomersOfAll(g)[m]
    BY <1>0, <1>2, <1>3, <2>1
  <2>3. t.queues[n] = <<>>
    BY <1>0, <1>1, <1>2, <1>8, <2>1 DEF NothingAbove
  <2>4. QED BY <1>6, <2>2, <2>3
<1>9. QED BY <1>6, <1>7, <1>8

\* propagateUp, rank by rank.
LEMMA UpResult ==
  ASSUME NEW g, WellFormed(g), NEW own, NEW s \in States(g, own)
  PROVE  \E u \in [0..(MaxRank(g) + 1) -> States(g, own)] :
           /\ u[0] = s
           /\ \A k \in 1..(MaxRank(g) + 1) : u[k] = RankUp(g, u[k - 1], k - 1)
           /\ PropagateUp(g, s) = u[MaxRank(g) + 1]
<1> DEFINE S == States(g, own)
           last == MaxRank(g) + 1
           Step == [k \in 1..last |-> [t \in S |-> RankUp(g, t, k - 1)]]
           Says(f) == f = [k \in 0..last |-> IF k = 0 THEN s ELSE RankUp(g, f[k - 1], k - 1)]
           u == CHOOSE f : Says(f)
<1>1. last \in Nat /\ \A k \in 1..last : k - 1 \in Nat
  <2>1. MaxRank(g) \in Nat
    BY RankTypes
  <2>2. QED BY <2>1
<1>2. PropagateUp(g, s) = u[last]
  BY DEF PropagateUp
<1> HIDE DEF last
<1>3. \A k \in 1..last, t \in S : RankUp(g, t, k - 1) \in S
  BY <1>1, RankUpResult
<1> HIDE DEF S
<1>4. Step \in [1..last -> [S -> S]] /\ \A k \in 1..last, t \in S : Step[k][t] = RankUp(g, t, k - 1)
  BY <1>3
<1>5. s \in S
  BY DEF S
<1> HIDE DEF Step
<1>6. PICK f \in [0..last -> S] : Rounds(f, s, Step, last)
  BY <1>1, <1>4, <1>5, LoopRuns
<1>7. Says(f)
  <2>1. ASSUME NEW k \in 0..last
        PROVE  f[k] = IF k = 0 THEN s ELSE RankUp(g, f[k - 1], k - 1)
    <3>1. CASE k = 0
      BY <1>6, <3>1 DEF Rounds
    <3>2. CASE k # 0
      <4>1. k \in 1..last /\ k - 1 \in 0..last
        BY <1>1, <3>2
      <4>2. f[k - 1] \in S
        BY <4>1
      <4>3. QED BY <1>4, <1>6, <3>2, <4>1, <4>2 DEF Rounds
    <3>3. QED BY <3>1, <3>2
  <2>2. f = [k \in 0..last |-> f[k]]
    OBVIOUS
  <2>3. QED BY <2>1, <2>2
<1>8. Says(u)
  BY <1>7
<1> HIDE DEF u
<1>9. u[0] = s /\ \A k \in 1..last : u[k] = RankUp(g, u[k - 1], k - 1)
  <2>1. 0 \in 0..last /\ \A k \in 1..last : k \in 0..last /\ k # 0
    BY <1>1
  <2>2. QED BY <1>8, <2>1
<1>10. \A k \in 0..last : u[k] \in S
  <2>1. \A k \in 1..last : u[k - 1] \in S => u[k] = Step[k][u[k - 1]]
    BY <1>4, <1>9
  <2>2. QED BY <1>1, <1>4, <1>5, <1>9, <2>1, LoopStays
<1>11. u \in [0..last -> S]
  <2>1. u = [k \in 0..last |-> u[k]]
    BY <1>8
  <2>2. QED BY <1>10, <2>1
<1>12. QED BY <1>2, <1>9, <1>11 DEF last, S

\* propagateDown, rank by rank.
LEMMA DownResult ==
  ASSUME NEW g, WellFormed(g), NEW own, NEW s \in States(g, own)
  PROVE  \E d \in [0..(MaxRank(g) + 1) -> States(g, own)] :
           /\ d[0] = s
           /\ \A k \in 1..(MaxRank(g) + 1) : d[k] = RankDown(g, d[k - 1], MaxRank(g) + 1 - k)
           /\ PropagateDown(g, s) = d[MaxRank(g) + 1]
<1> DEFINE S == States(g, own)
           last == MaxRank(g) + 1
           at(k) == MaxRank(g) + 1 - k
           Step == [k \in 1..last |-> [t \in S |-> RankDown(g, t, at(k))]]
           Says(f) == f = [k \in 0..last |-> IF k = 0 THEN s ELSE RankDown(g, f[k - 1], at(k))]
           d == CHOOSE f : Says(f)
<1>1. last \in Nat /\ \A k \in 1..last : at(k) \in Nat
  <2>1. MaxRank(g) \in Nat
    BY RankTypes
  <2>2. QED BY <2>1
<1>2. PropagateDown(g, s) = d[last]
  BY DEF PropagateDown
<1> HIDE DEF last, at
<1>3. \A k \in 1..last, t \in S : RankDown(g, t, at(k)) \in S
  BY <1>1, RankDownResult
<1> HIDE DEF S
<1>4. Step \in [1..last -> [S -> S]] /\ \A k \in 1..last, t \in S : Step[k][t] = RankDown(g, t, at(k))
  BY <1>3
<1>5. s \in S
  BY DEF S
<1> HIDE DEF Step
<1>6. PICK f \in [0..last -> S] : Rounds(f, s, Step, last)
  BY <1>1, <1>4, <1>5, LoopRuns
<1>7. Says(f)
  <2>1. ASSUME NEW k \in 0..last
        PROVE  f[k] = IF k = 0 THEN s ELSE RankDown(g, f[k - 1], at(k))
    <3>1. CASE k = 0
      BY <1>6, <3>1 DEF Rounds
    <3>2. CASE k # 0
      <4>1. k \in 1..last /\ k - 1 \in 0..last
        BY <1>1, <3>2
      <4>2. f[k - 1] \in S
        BY <4>1
      <4>3. QED BY <1>4, <1>6, <3>2, <4>1, <4>2 DEF Rounds
    <3>3. QED BY <3>1, <3>2
  <2>2. f = [k \in 0..last |-> f[k]]
    OBVIOUS
  <2>3. QED BY <2>1, <2>2
<1>8. Says(d)
  BY <1>7
<1> HIDE DEF d
<1>9. d[0] = s /\ \A k \in 1..last : d[k] = RankDown(g, d[k - 1], at(k))
  <2>1. 0 \in 0..last /\ \A k \in 1..last : k \in 0..last /\ k # 0
    BY <1>1
  <2>2. QED BY <1>8, <2>1
<1>10. \A k \in 0..last : d[k] \in S
  <2>1. \A k \in 1..last : d[k - 1] \in S => d[k] = Step[k][d[k - 1]]
    BY <1>4, <1>9
  <2>2. QED BY <1>1, <1>4, <1>5, <1>9, <2>1, LoopStays
<1>11. d \in [0..last -> S]
  <2>1. d = [k \in 0..last |-> d[k]]
    BY <1>8
  <2>2. QED BY <1>10, <2>1
<1>12. QED BY <1>2, <1>9, <1>11 DEF last, at, S

LEMMA NothingEverywhere ==
  ASSUME NEW g, WellFormed(g), NEW s
  PROVE  /\ NothingBelow(g, s, 0)
         /\ NothingBelow(g, s, MaxRank(g) + 1) => Nothing(s)
         /\ Nothing(s) => NothingAbove(g, s, MaxRank(g))
         /\ NothingAbove(g, s, -1) => Nothing(s)
<1>1. MaxRank(g) \in Nat /\ \A n \in ASN : g.rank[n] \in Nat /\ g.rank[n] <= MaxRank(g)
  BY RankTypes
<1>2. ASSUME NEW n \in ASN
      PROVE  ~(g.rank[n] < 0) /\ g.rank[n] < MaxRank(g) + 1 /\ g.rank[n] > -1
  <2>1. MaxRank(g) \in Nat /\ g.rank[n] \in Nat /\ g.rank[n] <= MaxRank(g)
    BY <1>1
  <2>2. QED BY <2>1
<1>3. QED BY <1>2 DEF NothingBelow, NothingAbove, Nothing

\* propagateUp leaves nothing to process.
LEMMA UpEnds ==
  ASSUME NEW g, WellFormed(g), NEW own, NEW s \in States(g, own)
  PROVE  PropagateUp(g, s) \in States(g, own) /\ Nothing(PropagateUp(g, s))
<1> DEFINE last == MaxRank(g) + 1
<1>1. PICK u \in [0..last -> States(g, own)] :
        /\ u[0] = s
        /\ \A k \in 1..last : u[k] = RankUp(g, u[k - 1], k - 1)
        /\ PropagateUp(g, s) = u[last]
  BY UpResult
<1>2. last \in Nat
  <2>1. MaxRank(g) \in Nat
    BY RankTypes
  <2>2. QED BY <2>1
<1> DEFINE P == {k \in 0..last : NothingBelow(g, u[k], k)}
<1>3. 0 \in P
  BY <1>2, NothingEverywhere
<1>4. ASSUME NEW k \in 1..last, k - 1 \in P PROVE k \in P
  <2>1. k - 1 \in Nat /\ u[k - 1] \in States(g, own) /\ k - 1 + 1 = k /\ k \in 0..last
    BY <1>2, <1>4
  <2>2. NothingBelow(g, RankUp(g, u[k - 1], k - 1), k - 1 + 1)
    BY <1>4, <2>1, RankUpResult
  <2>3. QED BY <1>1, <2>1, <2>2
<1>5. last \in P
  <2> HIDE DEF P
  <2>1. \A k \in 0..last : k \in P
    BY <1>2, <1>3, <1>4, UpTo
  <2>2. QED BY <1>2, <2>1
<1>6. NothingBelow(g, u[last], last) /\ u[last] \in States(g, own)
  BY <1>2, <1>5
<1>7. QED BY <1>1, <1>6, NothingEverywhere

\* Nor does propagateDown.
LEMMA DownEnds ==
  ASSUME NEW g, WellFormed(g), NEW own, NEW s \in States(g, own), Nothing(s)
  PROVE  PropagateDown(g, s) \in States(g, own) /\ Nothing(PropagateDown(g, s))
<1> DEFINE top == MaxRank(g)
<1>1. PICK d \in [0..(top + 1) -> States(g, own)] :
        /\ d[0] = s
        /\ \A k \in 1..(top + 1) : d[k] = RankDown(g, d[k - 1], top + 1 - k)
        /\ PropagateDown(g, s) = d[top + 1]
  BY DownResult
<1>2. top \in Nat
  BY RankTypes
<1> DEFINE P == {k \in 0..(top + 1) : NothingAbove(g, d[k], top - k)}
<1>3. 0 \in P
  <2>1. top - 0 = top
    BY <1>2
  <2>2. NothingAbove(g, d[0], top)
    BY <1>1, NothingEverywhere
  <2>3. QED BY <1>2, <2>1, <2>2
<1> HIDE DEF top
<1>4. ASSUME NEW k \in 1..(top + 1), k - 1 \in P PROVE k \in P
  <2> DEFINE r == top + 1 - k
  <2>1. /\ r \in Nat /\ d[k - 1] \in States(g, own) /\ k \in 0..(top + 1)
        /\ top - (k - 1) = r /\ r - 1 = top - k
    BY <1>2, <1>4
  <2>2. d[k] = RankDown(g, d[k - 1], r)
    BY <1>1
  <2>3. NothingAbove(g, d[k - 1], r)
    BY <1>4, <2>1
  <2> HIDE DEF r
  <2>4. NothingAbove(g, RankDown(g, d[k - 1], r), r - 1)
    BY <2>1, <2>3, RankDownResult
  <2>5. QED BY <2>1, <2>2, <2>4
<1>5. top + 1 \in P
  <2> HIDE DEF P
  <2>1. \A k \in 0..(top + 1) : k \in P
    BY <1>2, <1>3, <1>4, UpTo
  <2>2. QED BY <1>2, <2>1
<1>6. NothingAbove(g, d[top + 1], -1) /\ d[top + 1] \in States(g, own)
  <2>1. top - (top + 1) = -1 /\ top + 1 \in 0..(top + 1)
    BY <1>2
  <2>2. QED BY <1>5, <2>1
<1>7. QED BY <1>1, <1>6, NothingEverywhere

LEMMA AcrossSends ==
  ASSUME NEW g, NEW own, NEW s \in States(g, own)
  PROVE  AllSend(s, ASN, g.peers, "FROM_PEER") \in States(g, own)
<1> DEFINE t == AllSend(s, ASN, g.peers, "FROM_PEER")
           targets == g.peers
<1>1. "FROM_PEER" \in Relationship \ {"ORIGIN"}
  BY DEF Relationship
<1>2. t = AllSend(s, ASN, targets, "FROM_PEER")
  OBVIOUS
<1>3. \A n \in ASN : n \in targets[n] => n \in g.peers[n]
  OBVIOUS
<1> HIDE DEF t, targets
<1>4. ASN \in SUBSET ASN
  OBVIOUS
<1> DEFINE rel == "FROM_PEER"
           members == ASN
<1> HIDE DEF rel, members
<1>5. t \in States(g, own)
  <2>1. /\ rel \in Relationship \ {"ORIGIN"} /\ members \in SUBSET ASN
        /\ t = AllSend(s, members, targets, rel)
        /\ \A n \in members : n \in targets[n] => n \in g.peers[n]
    BY <1>1, <1>2, <1>3, <1>4 DEF rel, members
  <2>2. QED BY <2>1, AllSendResult, ZenonT(60)
<1>6. QED BY <1>5 DEF t

\* Nor does propagateAcross.
LEMMA AcrossEnds ==
  ASSUME NEW g, NEW own, NEW s \in States(g, own)
  PROVE  PropagateAcross(g, s) \in States(g, own) /\ Nothing(PropagateAcross(g, s))
<1> DEFINE t == AllSend(s, ASN, g.peers, "FROM_PEER")
<1>1. t \in States(g, own)
  BY AcrossSends
<1> HIDE DEF t
<1>2. /\ AllProcess(g, t, ASN) \in States(g, own)
      /\ \A n \in ASN : AllProcess(g, t, ASN).queues[n] = <<>>
  BY <1>1, AllProcessResult
<1>3. QED BY <1>2 DEF PropagateAcross, Nothing, t
-----------------------------------------------------------------------------
(***************************************************************************)
(* propagateAll, loop by loop.                                             *)
(***************************************************************************)

Loops(g) ==
  {l \in [iteration : 1..Iterations, phase : Phases, rank : 0..MaxRank(g)] :
     l.phase = "done" => l.iteration = Iterations}

\* How many loops are left, in an iteration and in all.
LeftInIteration(g, l) ==
  CASE l.phase = "up"     -> (2 * MaxRank(g) + 5) - l.rank
    [] l.phase = "drain"  -> MaxRank(g) + 4
    [] l.phase = "across" -> MaxRank(g) + 3
    [] l.phase = "settle" -> MaxRank(g) + 2
    [] l.phase = "down"   -> l.rank + 1
    [] l.phase = "done"   -> 0

Left(g, l) == (Iterations - l.iteration) * (2 * MaxRank(g) + 5) + LeftInIteration(g, l)

LEMMA LoopTypes ==
  ASSUME NEW g, WellFormed(g), NEW l \in Loops(g)
  PROVE  /\ l.iteration \in 1..Iterations /\ l.phase \in Phases /\ l.rank \in 0..MaxRank(g)
         /\ l.phase = "done" => l.iteration = Iterations
BY DEF Loops

LEMMA HeadIsLoop ==
  ASSUME NEW g, NEW i \in 1..Iterations, NEW p \in Phases, NEW r \in 0..MaxRank(g),
         p = "done" => i = Iterations
  PROVE  /\ LoopHead(i, p, r) \in Loops(g)
         /\ LoopHead(i, p, r).iteration = i
         /\ LoopHead(i, p, r).phase = p
         /\ LoopHead(i, p, r).rank = r
BY DEF Loops, LoopHead

LEMMA FirstOfLoops ==
  ASSUME NEW g, WellFormed(g)
  PROVE  FirstLoop \in Loops(g) /\ Left(g, FirstLoop) = LoopCount(g) /\ LoopCount(g) \in Nat
<1>1. MaxRank(g) \in Nat /\ Iterations \in Nat \ {0}
  BY RankTypes, IterationsAssumption
<1>2. 1 \in 1..Iterations /\ "up" \in Phases /\ 0 \in 0..MaxRank(g)
  BY <1>1 DEF Phases
<1>3. /\ FirstLoop \in Loops(g)
      /\ FirstLoop.iteration = 1 /\ FirstLoop.phase = "up" /\ FirstLoop.rank = 0
  BY <1>2, HeadIsLoop DEF FirstLoop
<1>4. LeftInIteration(g, FirstLoop) = 2 * MaxRank(g) + 5
  BY <1>1, <1>3 DEF LeftInIteration
<1> DEFINE w == 2 * MaxRank(g) + 5
<1>5. w \in Nat
  BY <1>1
<1>6. Left(g, FirstLoop) = (Iterations - 1) * w + w
  BY <1>3, <1>4 DEF Left
<1>7. LoopCount(g) = Iterations * w
  BY DEF LoopCount
<1> HIDE DEF w
<1>8. (Iterations - 1) * w + w = Iterations * w /\ Iterations * w \in Nat
  BY <1>1, <1>5
<1>9. QED BY <1>3, <1>6, <1>7, <1>8

\* What comes next, by cases.
LEMMA NextOfLoops ==
  ASSUME NEW g, WellFormed(g), NEW l \in Loops(g), l.phase # "done"
  PROVE  \E later \in Loops(g) :
           /\ NextLoop(g, l) = later
           /\ Left(g, later) = Left(g, l) - 1
           /\ l.phase = "up" => \/ later.phase = "drain"
                                \/ later.phase = "up" /\ later.rank = l.rank + 1
           /\ l.phase = "drain" => later.phase = "across"
           /\ l.phase = "across" => later.phase = "settle"
           /\ l.phase = "settle" => later.phase = "down" /\ later.rank = MaxRank(g)
           /\ l.phase = "down" => \/ later.phase = "down" /\ later.rank = l.rank - 1
                                  \/ later.phase = "up" /\ later.rank = 0
                                  \/ later.phase = "done" /\ l.rank = 0
<1> DEFINE M == MaxRank(g)
           w == 2 * M + 5
<1>1. /\ M \in Nat /\ Iterations \in Nat \ {0} /\ 0 \in 0..M /\ M \in 0..M
      /\ l.iteration \in 1..Iterations /\ l.phase \in Phases /\ l.rank \in 0..M
  BY RankTypes, IterationsAssumption, LoopTypes
<1>2. w \in Nat
  BY <1>1
<1> DEFINE Comes(i, p, r) ==
             /\ NextLoop(g, l) = LoopHead(i, p, r)
             /\ i \in 1..Iterations /\ p \in Phases /\ r \in 0..M
             /\ p = "done" => i = Iterations
<1>3. ASSUME NEW i, NEW p, NEW r, Comes(i, p, r)
      PROVE  \E later \in Loops(g) :
               NextLoop(g, l) = later /\ later.iteration = i /\ later.phase = p /\ later.rank = r
  BY <1>3, HeadIsLoop
<1>4. ASSUME NEW k \in Loops(g), k.iteration = l.iteration,
             LeftInIteration(g, k) = LeftInIteration(g, l) - 1, LeftInIteration(g, l) \in Int
      PROVE  Left(g, k) = Left(g, l) - 1
  <2> DEFINE c == (Iterations - l.iteration) * w
  <2>1. c \in Int
    BY <1>1, <1>2
  <2>2. Left(g, k) = c + LeftInIteration(g, k) /\ Left(g, l) = c + LeftInIteration(g, l)
    BY <1>4 DEF Left
  <2> HIDE DEF c
  <2>3. QED BY <1>4, <2>1, <2>2
<1>5. CASE l.phase = "up" /\ l.rank < M
  <2>1. Comes(l.iteration, "up", l.rank + 1)
    BY <1>1, <1>5 DEF NextLoop, Phases
  <2>2. PICK later \in Loops(g) :
          /\ NextLoop(g, l) = later
          /\ later.iteration = l.iteration /\ later.phase = "up" /\ later.rank = l.rank + 1
    BY <2>1, <1>3
  <2>3. /\ LeftInIteration(g, l) = w - l.rank
        /\ LeftInIteration(g, later) = w - (l.rank + 1)
    BY <1>5, <2>2 DEF LeftInIteration
  <2>4. Left(g, later) = Left(g, l) - 1
    BY <1>1, <1>2, <1>4, <2>2, <2>3
  <2>5. QED BY <1>5, <2>2, <2>4
<1>6. CASE l.phase = "up" /\ l.rank >= M
  <2>1. Comes(l.iteration, "drain", 0)
    BY <1>1, <1>6 DEF NextLoop, Phases
  <2>2. PICK later \in Loops(g) :
          NextLoop(g, l) = later /\ later.iteration = l.iteration /\ later.phase = "drain"
    BY <2>1, <1>3
  <2>3. LeftInIteration(g, l) = w - l.rank /\ LeftInIteration(g, later) = M + 4
    BY <1>6, <2>2 DEF LeftInIteration
  <2>4. Left(g, later) = Left(g, l) - 1
    BY <1>1, <1>4, <1>6, <2>2, <2>3
  <2>5. QED BY <1>6, <2>2, <2>4
<1>7. CASE l.phase = "drain"
  <2>1. Comes(l.iteration, "across", 0)
    BY <1>1, <1>7 DEF NextLoop, Phases
  <2>2. PICK later \in Loops(g) :
          NextLoop(g, l) = later /\ later.iteration = l.iteration /\ later.phase = "across"
    BY <2>1, <1>3
  <2>3. LeftInIteration(g, l) = M + 4 /\ LeftInIteration(g, later) = M + 3
    BY <1>7, <2>2 DEF LeftInIteration
  <2>4. Left(g, later) = Left(g, l) - 1
    BY <1>1, <1>4, <2>2, <2>3
  <2>5. QED BY <1>7, <2>2, <2>4
<1>8. CASE l.phase = "across"
  <2>1. Comes(l.iteration, "settle", 0)
    BY <1>1, <1>8 DEF NextLoop, Phases
  <2>2. PICK later \in Loops(g) :
          NextLoop(g, l) = later /\ later.iteration = l.iteration /\ later.phase = "settle"
    BY <2>1, <1>3
  <2>3. LeftInIteration(g, l) = M + 3 /\ LeftInIteration(g, later) = M + 2
    BY <1>8, <2>2 DEF LeftInIteration
  <2>4. Left(g, later) = Left(g, l) - 1
    BY <1>1, <1>4, <2>2, <2>3
  <2>5. QED BY <1>8, <2>2, <2>4
<1>9. CASE l.phase = "settle"
  <2>1. Comes(l.iteration, "down", M)
    BY <1>1, <1>9 DEF NextLoop, Phases
  <2>2. PICK later \in Loops(g) :
          /\ NextLoop(g, l) = later
          /\ later.iteration = l.iteration /\ later.phase = "down" /\ later.rank = M
    BY <2>1, <1>3
  <2>3. LeftInIteration(g, l) = M + 2 /\ LeftInIteration(g, later) = M + 1
    BY <1>9, <2>2 DEF LeftInIteration
  <2>4. Left(g, later) = Left(g, l) - 1
    BY <1>1, <1>4, <2>2, <2>3
  <2>5. QED BY <1>9, <2>2, <2>4
<1>10. CASE l.phase = "down" /\ l.rank > 0
  <2>1. Comes(l.iteration, "down", l.rank - 1)
    BY <1>1, <1>10 DEF NextLoop, Phases
  <2>2. PICK later \in Loops(g) :
          /\ NextLoop(g, l) = later
          /\ later.iteration = l.iteration /\ later.phase = "down" /\ later.rank = l.rank - 1
    BY <2>1, <1>3
  <2>3. LeftInIteration(g, l) = l.rank + 1 /\ LeftInIteration(g, later) = l.rank - 1 + 1
    BY <1>10, <2>2 DEF LeftInIteration
  <2>4. Left(g, later) = Left(g, l) - 1
    BY <1>1, <1>4, <2>2, <2>3
  <2>5. QED BY <1>10, <2>2, <2>4
<1>11. CASE l.phase = "down" /\ l.rank = 0 /\ l.iteration < Iterations
  <2>1. Comes(l.iteration + 1, "up", 0)
    BY <1>1, <1>11 DEF NextLoop, Phases
  <2>2. PICK later \in Loops(g) :
          /\ NextLoop(g, l) = later
          /\ later.iteration = l.iteration + 1 /\ later.phase = "up" /\ later.rank = 0
    BY <2>1, <1>3
  <2>3. LeftInIteration(g, l) = 1 /\ LeftInIteration(g, later) = w
    BY <1>1, <1>11, <2>2 DEF LeftInIteration
  <2>4. /\ Left(g, l) = (Iterations - l.iteration) * w + 1
        /\ Left(g, later) = (Iterations - (l.iteration + 1)) * w + w
    BY <2>2, <2>3 DEF Left
  <2>5. Left(g, later) = Left(g, l) - 1
    <3> HIDE DEF w
    <3> DEFINE a == Iterations - l.iteration
    <3>1. a \in Int /\ Iterations - (l.iteration + 1) = a - 1
      BY <1>1
    <3>2. Left(g, l) = a * w + 1 /\ Left(g, later) = (a - 1) * w + w
      BY <2>4, <3>1
    <3> HIDE DEF a
    <3>3. (a - 1) * w + w = a * w /\ a * w \in Int
      BY <1>2, <3>1
    <3>4. QED BY <3>2, <3>3
  <2>6. QED BY <1>11, <2>2, <2>5
<1>12. CASE l.phase = "down" /\ l.rank = 0 /\ l.iteration >= Iterations
  <2>1. Comes(l.iteration, "done", 0)
    BY <1>1, <1>12 DEF NextLoop, Phases
  <2>2. PICK later \in Loops(g) :
          NextLoop(g, l) = later /\ later.iteration = l.iteration /\ later.phase = "done"
    BY <2>1, <1>3
  <2>3. LeftInIteration(g, l) = 1 /\ LeftInIteration(g, later) = 0
    BY <1>12, <2>2 DEF LeftInIteration
  <2>4. Left(g, later) = Left(g, l) - 1
    BY <1>1, <1>4, <2>2, <2>3
  <2>5. QED BY <1>12, <2>2, <2>4
<1>13. QED
  BY <1>1, <1>5, <1>6, <1>7, <1>8, <1>9, <1>10, <1>11, <1>12 DEF Phases

LEMMA SendToNobody ==
  ASSUME NEW g, NEW own, NEW s \in States(g, own), NEW members \in SUBSET ASN, NEW targets,
         \A m \in members, n \in ASN : n \notin targets[m],
         NEW rel \in Relationship \ {"ORIGIN"},
         NEW t, t = AllSend(s, members, targets, rel)
  PROVE  t = s
<1>1. \A n \in members : n \notin targets[n]
  OBVIOUS
<1>2. (\A m \in members, n \in ASN : n \notin targets[m]) => t = s
  BY <1>1, AllSendResult, SMTT(60)
<1>3. QED BY <1>2

\* A loop's body is one of those the phases are made of.
LEMMA LoopBodyResult ==
  ASSUME NEW g, WellFormed(g), NEW own, NEW s \in States(g, own),
         NEW l \in Loops(g), l.phase # "done"
  PROVE  /\ LoopBody(g, l, s) \in States(g, own)
         /\ l.phase = "up" => LoopBody(g, l, s) = RankUp(g, s, l.rank)
         /\ l.phase = "down" => LoopBody(g, l, s) = RankDown(g, s, l.rank)
         /\ l.phase \in {"drain", "settle"} => LoopBody(g, l, s) = AllProcess(g, s, ASN)
         /\ l.phase = "across" => LoopBody(g, l, s) = AllSend(s, ASN, g.peers, "FROM_PEER")
<1> DEFINE to == [n \in ASN |-> Receivers(g, l, n)]
<1>1. l.rank \in Nat /\ l.phase \in Phases
  <2>1. l.rank \in 0..MaxRank(g) /\ l.phase \in Phases /\ MaxRank(g) \in Nat
    BY LoopTypes, RankTypes
  <2>2. QED BY <2>1
<1>2. CASE l.phase = "up"
  <2>1. to = g.providers
    BY <1>2, LinkTypes DEF Receivers
  <2>2. Members(g, l) = Bucket(g, l.rank) /\ Processes(l) /\ SentAs(l) = "FROM_CUSTOMER"
    BY <1>2 DEF Members, Bucket, Processes, SentAs
  <2>3. LoopBody(g, l, s) = RankUp(g, s, l.rank)
    BY <2>1, <2>2 DEF LoopBody, RankUp
  <2>4. QED BY <1>1, <1>2, <2>3, RankUpResult
<1>3. CASE l.phase = "down"
  <2>1. to = CustomersOfAll(g)
    BY <1>3 DEF Receivers, CustomersOfAll
  <2>2. Members(g, l) = Bucket(g, l.rank) /\ Processes(l) /\ SentAs(l) = "FROM_PROVIDER"
    BY <1>3 DEF Members, Bucket, Processes, SentAs
  <2>3. LoopBody(g, l, s) = RankDown(g, s, l.rank)
    BY <2>1, <2>2 DEF LoopBody, RankDown
  <2>4. QED BY <1>1, <1>3, <2>3, RankDownResult
<1>4. CASE l.phase \in {"drain", "settle"}
  <2> DEFINE t == AllProcess(g, s, ASN)
             members == ASN
             rel == "FROM_PROVIDER"
             u == AllSend(t, members, to, rel)
  <2>1. t \in States(g, own)
    BY AllProcessResult
  <2>2. Members(g, l) = ASN /\ Processes(l) /\ SentAs(l) = rel
    BY <1>4 DEF Members, Processes, SentAs
  <2>3. LoopBody(g, l, s) = u
    BY <2>2 DEF LoopBody
  <2>4. \A m \in members, n \in ASN : n \notin to[m]
    BY <1>4 DEF Receivers
  <2>5. rel \in Relationship \ {"ORIGIN"} /\ members \in SUBSET ASN
    BY DEF Relationship
  <2>6. u = AllSend(t, members, to, rel)
    OBVIOUS
  <2> HIDE DEF t, u, to, members, rel
  <2>7. u = t
    BY <2>1, <2>4, <2>5, <2>6, SendToNobody
  <2>8. LoopBody(g, l, s) = AllProcess(g, s, ASN)
    BY <2>3, <2>7 DEF t
  <2>9. QED BY <1>4, <2>1, <2>8 DEF t
<1>5. CASE l.phase = "across"
  <2>1. to = g.peers
    BY <1>5, LinkTypes DEF Receivers
  <2>2. Members(g, l) = ASN /\ ~Processes(l) /\ SentAs(l) = "FROM_PEER"
    BY <1>5 DEF Members, Processes, SentAs
  <2>3. LoopBody(g, l, s) = AllSend(s, ASN, g.peers, "FROM_PEER")
    BY <2>1, <2>2 DEF LoopBody
  <2>4. QED BY <1>5, <2>3, AcrossSends
<1>6. QED BY <1>1, <1>2, <1>3, <1>4, <1>5 DEF Phases

\* Who has nothing to process when a loop starts.
Settled(g, l, s) ==
  /\ l.phase = "up" => NothingBelow(g, s, l.rank)
  /\ l.phase \in {"across", "done"} => Nothing(s)
  /\ l.phase = "down" => NothingAbove(g, s, l.rank)

LEMMA LoopSettles ==
  ASSUME NEW g, WellFormed(g), NEW own, NEW s \in States(g, own),
         NEW l \in Loops(g), l.phase # "done", Settled(g, l, s)
  PROVE  Settled(g, NextLoop(g, l), LoopBody(g, l, s))
<1> DEFINE t == LoopBody(g, l, s)
<1>1. PICK later \in Loops(g) :
        /\ NextLoop(g, l) = later
        /\ l.phase = "up" => \/ later.phase = "drain"
                             \/ later.phase = "up" /\ later.rank = l.rank + 1
        /\ l.phase = "drain" => later.phase = "across"
        /\ l.phase = "across" => later.phase = "settle"
        /\ l.phase = "settle" => later.phase = "down" /\ later.rank = MaxRank(g)
        /\ l.phase = "down" => \/ later.phase = "down" /\ later.rank = l.rank - 1
                               \/ later.phase = "up" /\ later.rank = 0
                               \/ later.phase = "done" /\ l.rank = 0
  BY NextOfLoops
<1>2. l.rank \in Nat /\ l.phase \in Phases
  <2>1. l.rank \in 0..MaxRank(g) /\ l.phase \in Phases /\ MaxRank(g) \in Nat
    BY LoopTypes, RankTypes
  <2>2. QED BY <2>1
<1>3. /\ l.phase = "up" => t = RankUp(g, s, l.rank)
      /\ l.phase = "down" => t = RankDown(g, s, l.rank)
      /\ l.phase \in {"drain", "settle"} => t = AllProcess(g, s, ASN)
  BY LoopBodyResult
<1> HIDE DEF t
<1>4. CASE l.phase = "up"
  <2>1. NothingBelow(g, RankUp(g, s, l.rank), l.rank + 1)
    BY <1>2, <1>4, RankUpResult DEF Settled
  <2>2. Settled(g, later, t)
    BY <1>1, <1>3, <1>4, <2>1 DEF Settled
  <2>3. QED BY <1>1, <2>2 DEF t
<1>5. CASE l.phase = "down"
  <2>1. NothingAbove(g, RankDown(g, s, l.rank), l.rank - 1)
    BY <1>2, <1>5, RankDownResult DEF Settled
  <2>2. l.rank = 0 => Nothing(t)
    <3>1. SUFFICES ASSUME l.rank = 0 PROVE Nothing(t)
      OBVIOUS
    <3>2. l.rank - 1 = -1
      BY <3>1
    <3>3. QED BY <1>3, <1>5, <2>1, <3>2, NothingEverywhere
  <2>3. NothingBelow(g, t, 0)
    BY NothingEverywhere
  <2>4. Settled(g, later, t)
    BY <1>1, <1>3, <1>5, <2>1, <2>2, <2>3 DEF Settled
  <2>5. QED BY <1>1, <2>4 DEF t
<1>6. CASE l.phase \in {"drain", "settle"}
  <2>1. Nothing(AllProcess(g, s, ASN))
    BY AllProcessResult DEF Nothing
  <2>2. NothingAbove(g, t, MaxRank(g))
    BY <1>3, <1>6, <2>1, NothingEverywhere
  <2>3. Settled(g, later, t)
    BY <1>1, <1>3, <1>6, <2>1, <2>2 DEF Settled
  <2>4. QED BY <1>1, <2>3 DEF t
<1>7. CASE l.phase = "across"
  <2>1. Settled(g, later, t)
    BY <1>1, <1>7 DEF Settled
  <2>2. QED BY <1>1, <2>1 DEF t
<1>8. QED BY <1>2, <1>4, <1>5, <1>6, <1>7 DEF Phases

\* The loop before each loop and the state it finds.
Run(g, own) == [loop : Loops(g), state : States(g, own)]

LEMMA RunStays ==
  ASSUME NEW g, WellFormed(g), NEW own, NEW s \in States(g, own), NEW f,
         f[0] = [loop |-> FirstLoop, state |-> s],
         \A k \in 1..LoopCount(g) :
           f[k - 1] \in Run(g, own) /\ f[k - 1].loop.phase # "done" =>
             f[k] = [loop  |-> NextLoop(g, f[k - 1].loop),
                     state |-> LoopBody(g, f[k - 1].loop, f[k - 1].state)]
  PROVE  \A k \in 0..LoopCount(g) :
           /\ f[k] \in Run(g, own)
           /\ Left(g, f[k].loop) = LoopCount(g) - k
           /\ Settled(g, f[k].loop, f[k].state)
<1> DEFINE last == LoopCount(g)
           P == {k \in 0..last : /\ f[k] \in Run(g, own)
                                 /\ Left(g, f[k].loop) = last - k
                                 /\ Settled(g, f[k].loop, f[k].state)}
<1>1. FirstLoop \in Loops(g) /\ Left(g, FirstLoop) = last /\ last \in Nat
  BY FirstOfLoops
<1>2. 0 \in P
  <2>1. f[0] \in Run(g, own) /\ f[0].loop = FirstLoop /\ f[0].state = s
    BY <1>1 DEF Run
  <2>2. Settled(g, FirstLoop, s)
    BY NothingEverywhere DEF Settled, FirstLoop, LoopHead
  <2>3. QED BY <1>1, <2>1, <2>2
<1>3. ASSUME NEW k \in 1..last, k - 1 \in P PROVE k \in P
  <2> DEFINE l == f[k - 1].loop
             t == f[k - 1].state
  <2>1. k - 1 \in 0..last /\ k \in 0..last /\ last - k = (last - (k - 1)) - 1
    BY <1>1, <1>3
  <2>2. /\ f[k - 1] \in Run(g, own)
        /\ Left(g, l) = last - (k - 1)
        /\ Settled(g, l, t)
    BY <1>3
  <2>3. l \in Loops(g) /\ t \in States(g, own)
    BY <2>2 DEF Run
  <2>4. l.phase # "done"
    <3>1. SUFFICES ASSUME l.phase = "done" PROVE FALSE
      OBVIOUS
    <3> HIDE DEF l
    <3>2. l.iteration = Iterations /\ Iterations \in Nat /\ MaxRank(g) \in Nat
      BY <2>3, <3>1, LoopTypes, RankTypes, IterationsAssumption
    <3>3. LeftInIteration(g, l) = 0
      BY <3>1 DEF LeftInIteration
    <3>4. (Iterations - l.iteration) * (2 * MaxRank(g) + 5) = 0
      BY <3>2
    <3>5. Left(g, l) = 0
      BY <3>3, <3>4 DEF Left
    <3>6. QED BY <1>1, <1>3, <2>2, <3>5 DEF l
  <2>5. f[k] = [loop |-> NextLoop(g, l), state |-> LoopBody(g, l, t)]
    BY <2>2, <2>4
  <2> HIDE DEF l, t
  <2>6. NextLoop(g, l) \in Loops(g) /\ Left(g, NextLoop(g, l)) = Left(g, l) - 1
    BY <2>3, <2>4, NextOfLoops
  <2>7. LoopBody(g, l, t) \in States(g, own)
    BY <2>3, <2>4, LoopBodyResult
  <2>8. Settled(g, NextLoop(g, l), LoopBody(g, l, t))
    BY <2>2, <2>3, <2>4, LoopSettles
  <2>9. f[k].loop = NextLoop(g, l) /\ f[k].state = LoopBody(g, l, t) /\ f[k] \in Run(g, own)
    BY <2>5, <2>6, <2>7 DEF Run
  <2>10. Left(g, f[k].loop) = last - k
    BY <2>1, <2>2, <2>6, <2>9
  <2>11. QED BY <2>1, <2>8, <2>9, <2>10
<1>4. \A k \in 0..last : k \in P
  <2> HIDE DEF P
  <2>1. QED BY <1>1, <1>2, <1>3, UpTo
<1>5. QED BY <1>4

\* propagateAll is such a run, and ends with nothing to process.
LEMMA AllResult ==
  ASSUME NEW g, WellFormed(g), NEW own, NEW s \in States(g, own)
  PROVE  \E run :
           /\ run[0] = [loop |-> FirstLoop, state |-> s]
           /\ \A k \in 0..LoopCount(g) :
                /\ run[k] \in Run(g, own)
                /\ Left(g, run[k].loop) = LoopCount(g) - k
                /\ Settled(g, run[k].loop, run[k].state)
           /\ \A k \in 1..LoopCount(g) :
                run[k] = [loop  |-> NextLoop(g, run[k - 1].loop),
                          state |-> LoopBody(g, run[k - 1].loop, run[k - 1].state)]
           /\ PropagateAll(g, s) = run[LoopCount(g)].state
<1> DEFINE last == LoopCount(g)
           S == Run(g, own)
           first == [loop |-> FirstLoop, state |-> s]
           After(r) == [loop  |-> NextLoop(g, r.loop), state |-> LoopBody(g, r.loop, r.state)]
           Step == [k \in 1..last |-> [r \in S |-> IF r.loop.phase = "done" THEN r ELSE After(r)]]
           Says(f) == f = [k \in 0..last |-> IF k = 0 THEN first ELSE After(f[k - 1])]
           run == CHOOSE f : Says(f)
<1>1. last \in Nat /\ first \in S
  BY FirstOfLoops DEF Run
<1>2. ASSUME NEW r \in S, r.loop.phase # "done" PROVE After(r) \in S
  <2>1. r.loop \in Loops(g) /\ r.state \in States(g, own)
    BY DEF Run
  <2>2. NextLoop(g, r.loop) \in Loops(g)
    BY <1>2, <2>1, NextOfLoops
  <2>3. LoopBody(g, r.loop, r.state) \in States(g, own)
    BY <1>2, <2>1, LoopBodyResult
  <2>4. QED BY <2>2, <2>3 DEF Run
<1>3. PropagateAll(g, s) = run[last].state
  <2>1. RunLoops(g, s) = run
    BY DEF RunLoops
  <2>2. QED BY <2>1 DEF PropagateAll
<1> HIDE DEF S, last
<1>4. /\ Step \in [1..last -> [S -> S]]
      /\ \A k \in 1..last, r \in S : r.loop.phase # "done" => Step[k][r] = After(r)
  <2> HIDE DEF After
  <2>1. QED BY <1>2
<1> HIDE DEF Step
<1>5. PICK f \in [0..last -> S] : Rounds(f, first, Step, last)
  BY <1>1, <1>4, LoopRuns
<1> DEFINE Stays(h) ==
             \A k \in 0..last : /\ h[k] \in S
                                /\ Left(g, h[k].loop) = last - k
                                /\ Settled(g, h[k].loop, h[k].state)
<1>6. ASSUME NEW h, h[0] = first,
             \A k \in 1..last :
               h[k - 1] \in S /\ h[k - 1].loop.phase # "done" => h[k] = After(h[k - 1])
      PROVE  Stays(h)
  BY <1>6, RunStays DEF S, last
<1>7. ASSUME NEW h, Stays(h), NEW k \in 1..last PROVE h[k - 1].loop.phase # "done"
  <2> DEFINE l == h[k - 1].loop
  <2>1. k - 1 \in 0..last /\ last - (k - 1) # 0
    BY <1>1
  <2>2. l \in Loops(g) /\ Left(g, l) = last - (k - 1)
    BY <1>7, <2>1 DEF S, Run
  <2> HIDE DEF l
  <2>3. SUFFICES ASSUME l.phase = "done" PROVE FALSE
    BY DEF l
  <2>4. l.iteration = Iterations /\ Iterations \in Nat /\ MaxRank(g) \in Nat
    BY <2>2, <2>3, LoopTypes, RankTypes, IterationsAssumption
  <2>5. LeftInIteration(g, l) = 0
    BY <2>3 DEF LeftInIteration
  <2>6. (Iterations - l.iteration) * (2 * MaxRank(g) + 5) = 0
    BY <2>4
  <2>7. QED BY <2>1, <2>2, <2>5, <2>6 DEF Left
<1>8. Says(f)
  <2>1. ASSUME NEW k \in 1..last, f[k - 1].loop.phase # "done" PROVE f[k] = After(f[k - 1])
    <3>1. f[k - 1] \in S
      BY <1>1
    <3>2. f[k] = Step[k][f[k - 1]]
      BY <1>5 DEF Rounds
    <3> HIDE DEF After
    <3>3. QED BY <1>4, <2>1, <3>1, <3>2
  <2>2. f[0] = first
    BY <1>5 DEF Rounds
  <2> HIDE DEF After, first
  <2>3. Stays(f)
    <3>1. \A k \in 1..last :
            f[k - 1] \in S /\ f[k - 1].loop.phase # "done" => f[k] = After(f[k - 1])
      BY <2>1
    <3> HIDE DEF Stays
    <3>2. QED BY <1>6, <2>2, <3>1
  <2>4. \A k \in 1..last : f[k] = After(f[k - 1])
    <3> HIDE DEF Stays
    <3>1. QED BY <1>7, <2>1, <2>3
  <2>5. ASSUME NEW k \in 0..last PROVE f[k] = IF k = 0 THEN first ELSE After(f[k - 1])
    <3>1. CASE k = 0
      BY <2>2, <3>1
    <3>2. CASE k # 0
      <4>1. k \in 1..last
        BY <1>1, <3>2
      <4>2. QED BY <2>4, <3>2, <4>1
    <3>3. QED BY <3>1, <3>2
  <2>6. f = [k \in 0..last |-> f[k]]
    OBVIOUS
  <2>7. QED BY <2>5, <2>6
<1>9. Says(run)
  <2> HIDE DEF Says
  <2>1. QED BY <1>8
<1> HIDE DEF run
<1>10. run[0] = first /\ \A k \in 1..last : run[k] = After(run[k - 1])
  <2>1. 0 \in 0..last /\ \A k \in 1..last : k \in 0..last /\ k # 0
    BY <1>1
  <2> HIDE DEF After, first
  <2>2. QED BY <1>9, <2>1
<1>11. Stays(run)
  <2> HIDE DEF After, first, Stays
  <2>1. QED BY <1>6, <1>10
<1> HIDE DEF Says
<1>12. QED BY <1>3, <1>10, <1>11 DEF S, last

LEMMA AllEnds ==
  ASSUME NEW g, WellFormed(g), NEW own, NEW s \in States(g, own)
  PROVE  PropagateAll(g, s) \in States(g, own) /\ Nothing(PropagateAll(g, s))
<1> DEFINE last == LoopCount(g)
<1>1. last \in Nat
  BY FirstOfLoops
<1>2. PICK run :
        /\ run[0] = [loop |-> FirstLoop, state |-> s]
        /\ \A k \in 0..last :
             /\ run[k] \in Run(g, own)
             /\ Left(g, run[k].loop) = last - k
             /\ Settled(g, run[k].loop, run[k].state)
        /\ \A k \in 1..last :
             run[k] = [loop  |-> NextLoop(g, run[k - 1].loop),
                       state |-> LoopBody(g, run[k - 1].loop, run[k - 1].state)]
        /\ PropagateAll(g, s) = run[last].state
  BY AllResult
<1> HIDE DEF last
<1> DEFINE l == run[last].loop
           t == run[last].state
<1>3. /\ l \in Loops(g) /\ t \in States(g, own)
      /\ Left(g, l) = 0 /\ Settled(g, l, t)
  <2>1. last \in 0..last /\ last - last = 0
    BY <1>1
  <2>2. QED BY <1>2, <2>1 DEF Run
<1>4. PropagateAll(g, s) = t
  BY <1>2
<1> HIDE DEF l, t
<1>5. l.phase = "done"
  <2>1. /\ Iterations \in Nat /\ MaxRank(g) \in Nat
        /\ l.iteration \in 1..Iterations /\ l.phase \in Phases /\ l.rank \in 0..MaxRank(g)
    BY <1>3, RankTypes, LoopTypes, IterationsAssumption
  <2> DEFINE c == (Iterations - l.iteration) * (2 * MaxRank(g) + 5)
  <2>2. c \in Nat
    BY <2>1
  <2>3. Left(g, l) = c + LeftInIteration(g, l)
    BY DEF Left
  <2> HIDE DEF c
  <2>4. l.phase # "done" => LeftInIteration(g, l) \in Nat \ {0}
    BY <2>1 DEF LeftInIteration, Phases
  <2>5. QED BY <1>3, <2>2, <2>3, <2>4
<1>6. QED BY <1>3, <1>4, <1>5 DEF Settled

\* In the only iteration, the number of loops that are left tells which is next.
LEMMA OnlyIteration ==
  ASSUME Iterations = 1, NEW g, WellFormed(g), NEW l \in Loops(g)
  PROVE  /\ Left(g, l) > MaxRank(g) + 4 => l.phase = "up" /\ Left(g, l) = LoopCount(g) - l.rank
         /\ Left(g, l) = MaxRank(g) + 4 => l.phase = "drain"
         /\ Left(g, l) = MaxRank(g) + 3 => l.phase = "across"
         /\ Left(g, l) = MaxRank(g) + 2 => l.phase = "settle"
         /\ Left(g, l) \in 1..(MaxRank(g) + 1) => l.phase = "down" /\ Left(g, l) = l.rank + 1
         /\ LoopCount(g) = 2 * MaxRank(g) + 5
<1> DEFINE M == MaxRank(g)
           w == 2 * M + 5
<1>1. /\ l.iteration \in 1..1 /\ l.phase \in Phases /\ l.rank \in 0..M /\ M \in Nat
  BY LoopTypes, RankTypes
<1>2. Left(g, l) = LeftInIteration(g, l) /\ LoopCount(g) = w
  <2>1. l.iteration = 1 /\ w \in Nat
    BY <1>1
  <2>2. Left(g, l) = (1 - 1) * w + LeftInIteration(g, l) /\ LoopCount(g) = 1 * w
    BY <2>1 DEF Left, LoopCount
  <2>3. LeftInIteration(g, l) \in Int
    BY <1>1 DEF LeftInIteration, Phases
  <2> HIDE DEF w
  <2>4. QED BY <2>1, <2>2, <2>3
<1> DEFINE left == LeftInIteration(g, l)
<1>3. /\ l.phase = "up"     => left = w - l.rank
      /\ l.phase = "drain"  => left = M + 4
      /\ l.phase = "across" => left = M + 3
      /\ l.phase = "settle" => left = M + 2
      /\ l.phase = "down"   => left = l.rank + 1
      /\ l.phase = "done"   => left = 0
  BY DEF LeftInIteration
<1>4. l.phase \in {"up", "drain", "across", "settle", "down", "done"}
  BY <1>1 DEF Phases
<1> HIDE DEF left, M
<1>5. /\ left > M + 4 => l.phase = "up" /\ left = w - l.rank
      /\ left = M + 4 => l.phase = "drain"
      /\ left = M + 3 => l.phase = "across"
      /\ left = M + 2 => l.phase = "settle"
      /\ left \in 1..(M + 1) => l.phase = "down" /\ left = l.rank + 1
  BY <1>1, <1>3, <1>4
<1>6. QED BY <1>2, <1>5 DEF left, M

\* Going up, over and down in one call or in three is the same.
LEMMA OneCallOrThree ==
  ASSUME Iterations = 1, NEW g, WellFormed(g), NEW own, NEW s \in States(g, own)
  PROVE  PropagateAll(g, s) = PropagateDown(g, PropagateAcross(g, PropagateUp(g, s)))
<1> DEFINE M == MaxRank(g)
           last == LoopCount(g)
           up == PropagateUp(g, s)
           over == PropagateAcross(g, up)
<1>1. /\ up \in States(g, own) /\ Nothing(up)
      /\ over \in States(g, own) /\ Nothing(over)
  BY UpEnds, AcrossEnds
<1> HIDE DEF up, over
<1>2. M \in Nat /\ FirstLoop \in Loops(g)
  BY RankTypes, FirstOfLoops
<1>3. last = 2 * M + 5
  BY <1>2, OnlyIteration
<1>4. PICK run :
        /\ run[0] = [loop |-> FirstLoop, state |-> s]
        /\ \A k \in 0..last :
             /\ run[k] \in Run(g, own)
             /\ Left(g, run[k].loop) = last - k
             /\ Settled(g, run[k].loop, run[k].state)
        /\ \A k \in 1..last :
             run[k] = [loop  |-> NextLoop(g, run[k - 1].loop),
                       state |-> LoopBody(g, run[k - 1].loop, run[k - 1].state)]
        /\ PropagateAll(g, s) = run[last].state
  BY AllResult
<1>5. PICK u \in [0..(M + 1) -> States(g, own)] :
        /\ u[0] = s
        /\ \A k \in 1..(M + 1) : u[k] = RankUp(g, u[k - 1], k - 1)
        /\ PropagateUp(g, s) = u[M + 1]
  BY UpResult
<1>6. PICK d \in [0..(M + 1) -> States(g, own)] :
        /\ d[0] = over
        /\ \A k \in 1..(M + 1) : d[k] = RankDown(g, d[k - 1], M + 1 - k)
        /\ PropagateDown(g, over) = d[M + 1]
  BY <1>1, DownResult
<1> HIDE DEF M, last
<1> DEFINE At(k) == run[k].loop
           Has(k) == run[k].state
\* One loop.
<1>7. ASSUME NEW k \in 1..last
      PROVE  /\ At(k - 1) \in Loops(g) /\ Left(g, At(k - 1)) = last - (k - 1)
             /\ Has(k - 1) \in States(g, own)
             /\ Has(k) = LoopBody(g, At(k - 1), Has(k - 1))
  <2>1. k - 1 \in 0..last
    BY <1>2, <1>3
  <2>2. run[k - 1] \in Run(g, own) /\ Left(g, run[k - 1].loop) = last - (k - 1)
    BY <1>4, <2>1
  <2>3. run[k] = [loop  |-> NextLoop(g, run[k - 1].loop),
                  state |-> LoopBody(g, run[k - 1].loop, run[k - 1].state)]
    BY <1>4
  <2>4. QED BY <2>2, <2>3 DEF Run
<1>8. ASSUME NEW k \in 1..last, last - (k - 1) > M + 4
      PROVE  Has(k) = RankUp(g, Has(k - 1), k - 1)
  <2> DEFINE l == At(k - 1)
  <2>1. l \in Loops(g) /\ Left(g, l) = last - (k - 1)
    BY <1>7
  <2>2. Has(k - 1) \in States(g, own) /\ Has(k) = LoopBody(g, l, Has(k - 1))
    BY <1>7
  <2> HIDE DEF l
  <2>3. l.phase = "up" /\ Left(g, l) = last - l.rank
    BY <1>8, <2>1, OnlyIteration DEF M, last
  <2>4. l.rank = k - 1
    <3>1. l.rank \in 0..M
      BY <2>1, LoopTypes DEF M
    <3>2. QED BY <1>2, <1>3, <2>1, <2>3, <3>1
  <2>5. LoopBody(g, l, Has(k - 1)) = RankUp(g, Has(k - 1), l.rank)
    BY <2>1, <2>2, <2>3, LoopBodyResult
  <2>6. QED BY <2>2, <2>4, <2>5
<1>9. ASSUME NEW k \in 1..last, last - (k - 1) \in {M + 4, M + 2}
      PROVE  Has(k) = AllProcess(g, Has(k - 1), ASN)
  <2> DEFINE l == At(k - 1)
  <2>1. l \in Loops(g) /\ Left(g, l) = last - (k - 1)
    BY <1>7
  <2>2. Has(k - 1) \in States(g, own) /\ Has(k) = LoopBody(g, l, Has(k - 1))
    BY <1>7
  <2> HIDE DEF l
  <2>3. l.phase \in {"drain", "settle"}
    BY <1>9, <2>1, OnlyIteration DEF M, last
  <2>4. LoopBody(g, l, Has(k - 1)) = AllProcess(g, Has(k - 1), ASN)
    BY <2>1, <2>2, <2>3, LoopBodyResult
  <2>5. QED BY <2>2, <2>4
<1>10. ASSUME NEW k \in 1..last, last - (k - 1) = M + 3
       PROVE  Has(k) = AllSend(Has(k - 1), ASN, g.peers, "FROM_PEER")
  <2> DEFINE l == At(k - 1)
  <2>1. l \in Loops(g) /\ Left(g, l) = last - (k - 1)
    BY <1>7
  <2>2. Has(k - 1) \in States(g, own) /\ Has(k) = LoopBody(g, l, Has(k - 1))
    BY <1>7
  <2> HIDE DEF l
  <2>3. l.phase = "across"
    BY <1>10, <2>1, OnlyIteration DEF M, last
  <2>4. LoopBody(g, l, Has(k - 1)) = AllSend(Has(k - 1), ASN, g.peers, "FROM_PEER")
    BY <2>1, <2>2, <2>3, LoopBodyResult
  <2>5. QED BY <2>2, <2>4
<1>11. ASSUME NEW k \in 1..last, last - (k - 1) \in 1..(M + 1)
       PROVE  Has(k) = RankDown(g, Has(k - 1), last - k)
  <2> DEFINE l == At(k - 1)
  <2>1. l \in Loops(g) /\ Left(g, l) = last - (k - 1)
    BY <1>7
  <2>2. Has(k - 1) \in States(g, own) /\ Has(k) = LoopBody(g, l, Has(k - 1))
    BY <1>7
  <2> HIDE DEF l
  <2>3. l.phase = "down" /\ Left(g, l) = l.rank + 1
    BY <1>11, <2>1, OnlyIteration DEF M, last
  <2>4. l.rank = last - k
    <3>1. l.rank \in 0..M
      BY <2>1, LoopTypes DEF M
    <3>2. QED BY <1>2, <1>3, <2>1, <2>3, <3>1
  <2>5. LoopBody(g, l, Has(k - 1)) = RankDown(g, Has(k - 1), l.rank)
    BY <2>1, <2>2, <2>3, LoopBodyResult
  <2>6. QED BY <2>2, <2>4, <2>5
<1>12. Has(0) = s
  BY <1>4
<1> HIDE DEF At, Has
\* The loops of the first phase.
<1>13. Has(M + 1) = up
  <2> DEFINE P == {k \in 0..(M + 1) : Has(k) = u[k]}
  <2>1. 0 \in P
    BY <1>2, <1>5, <1>12
  <2>2. ASSUME NEW k \in 1..(M + 1), k - 1 \in P PROVE k \in P
    <3>1. k \in 1..last /\ last - (k - 1) > M + 4 /\ k \in 0..(M + 1)
      BY <1>2, <1>3
    <3>2. Has(k) = RankUp(g, Has(k - 1), k - 1)
      BY <1>8, <3>1
    <3>3. QED BY <1>5, <2>2, <3>1, <3>2
  <2> HIDE DEF P
  <2>3. M + 1 \in Nat /\ M + 1 \in 0..(M + 1)
    BY <1>2
  <2>4. M + 1 \in P
    BY <2>1, <2>2, <2>3, UpTo
  <2>5. QED BY <1>5, <2>4 DEF P, up
\* The three in between.
<1>14. Has(M + 2) = up
  <2> DEFINE k == M + 2
  <2>1. k \in 1..last /\ last - (k - 1) = M + 4 /\ k - 1 = M + 1
    BY <1>2, <1>3
  <2> HIDE DEF k
  <2>2. Has(k) = AllProcess(g, Has(k - 1), ASN)
    BY <1>9, <2>1
  <2>3. AllProcess(g, up, ASN) = up
    BY <1>1, AllProcessResult DEF Nothing
  <2>4. QED BY <1>13, <2>1, <2>2, <2>3 DEF k
<1>15. Has(M + 4) = over
  <2> DEFINE j == M + 3
             k == M + 4
  <2>1. /\ j \in 1..last /\ last - (j - 1) = M + 3 /\ j - 1 = M + 2
        /\ k \in 1..last /\ last - (k - 1) = M + 2 /\ k - 1 = j
    BY <1>2, <1>3
  <2> HIDE DEF j, k
  <2>2. Has(j) = AllSend(Has(j - 1), ASN, g.peers, "FROM_PEER")
    BY <1>10, <2>1
  <2>3. Has(k) = AllProcess(g, Has(k - 1), ASN)
    BY <1>9, <2>1
  <2>4. Has(k) = over
    BY <1>14, <2>1, <2>2, <2>3 DEF over, PropagateAcross
  <2>5. QED BY <2>4 DEF k
\* The loops of the last phase.
<1>16. Has(last) = d[M + 1]
  <2> DEFINE P == {k \in 0..(M + 1) : Has(M + 4 + k) = d[k]}
  <2>1. 0 \in P
    <3>1. M + 4 + 0 = M + 4 /\ 0 \in 0..(M + 1)
      BY <1>2
    <3>2. QED BY <1>6, <1>15, <3>1
  <2>2. ASSUME NEW k \in 1..(M + 1), k - 1 \in P PROVE k \in P
    <3> DEFINE i == M + 4 + k
               r == M + 1 - k
    <3>1. /\ i \in 1..last /\ i - 1 = M + 4 + (k - 1) /\ last - (i - 1) \in 1..(M + 1)
          /\ last - i = r /\ k \in 0..(M + 1)
      BY <1>2, <1>3
    <3>2. d[k] = RankDown(g, d[k - 1], r)
      BY <1>6
    <3> HIDE DEF r
    <3>3. Has(i - 1) = d[k - 1]
      BY <2>2, <3>1
    <3> HIDE DEF i
    <3>4. Has(i) = RankDown(g, Has(i - 1), r)
      BY <1>11, <3>1
    <3>5. QED BY <3>1, <3>2, <3>3, <3>4 DEF i
  <2> HIDE DEF P
  <2>3. M + 1 \in Nat /\ M + 1 \in 0..(M + 1) /\ M + 4 + (M + 1) = last
    BY <1>2, <1>3
  <2>4. M + 1 \in P
    BY <2>1, <2>2, <2>3, UpTo
  <2>5. QED BY <2>3, <2>4 DEF P
<1>17. PropagateAll(g, s) = Has(last)
  BY <1>4 DEF Has
<1>18. QED BY <1>6, <1>16, <1>17 DEF up, over
-----------------------------------------------------------------------------
(***************************************************************************)
(* Paths continue each other.                                              *)
(***************************************************************************)

\* What is held and what waits at an AS.
Stored(s, n) == ToSet(s.tables[n].queue)

Queued(s, n) == ToSet(s.queues[n])

\* From whom an AS hears routes of each kind.
Kin(g, n, rel) ==
  CASE rel = "FROM_CUSTOMER" -> Customers(g, n)
    [] rel = "FROM_PEER"     -> g.peers[n]
    [] rel = "FROM_PROVIDER" -> g.providers[n]
    [] rel = "ORIGIN"        -> {n}

RelatedOnce(g) ==
  \A n \in ASN : g.peers[n] \cap ({n} \cup g.providers[n] \cup Customers(g, n)) = {}

\* A path is that of the next AS with its own number in front.
Continues(n, path, rest) ==
  /\ path[1] = n
  /\ Len(path) = IF Len(rest) < MaxPathLen THEN Len(rest) + 1 ELSE MaxPathLen
  /\ \A k \in 2..Len(path) : path[k] = rest[k - 1]

\* Every route continues the one its sender uses now, or is about to.
Follows(g, s) ==
  \A n \in ASN :
    /\ \A a \in Stored(s, n) : a.received_from # "ORIGIN" =>
         /\ a.next_hop \in Kin(g, n, a.received_from)
         /\ s.tables[a.next_hop].best # NoRoute
         /\ Continues(n, a.path, s.tables[a.next_hop].best.path)
    /\ \A a \in Queued(s, n) :
         /\ a.next_hop \in Kin(g, n, a.received_from)
         /\ s.tables[a.next_hop].best # NoRoute
         /\ a.path = s.tables[a.next_hop].best.path

\* Routes that no later phase displaces.
Lasting == {"ORIGIN", "FROM_CUSTOMER"}

Late == {"FROM_PEER", "FROM_PROVIDER"}

LEMMA KinOnce ==
  ASSUME NEW g, WellFormed(g), RelatedOnce(g), NEW n \in ASN, NEW rel \in Late,
         NEW best \in Lasting, NEW m, m \in Kin(g, n, rel)
  PROVE  m \notin Kin(g, n, best)
<1>1. /\ \A i \in ASN : g.rank[i] \in Nat
      /\ \A i, j \in ASN : j \in g.providers[i] => g.rank[i] < g.rank[j]
  BY RankTypes
<1>2. m \in ASN
  BY DEF Kin, Late, Customers, WellFormed, Graph
<1>3. m \in g.providers[n] => m # n /\ n \notin g.providers[m]
  <2>1. SUFFICES ASSUME m \in g.providers[n] PROVE m # n /\ n \notin g.providers[m]
    OBVIOUS
  <2>2. g.rank[n] < g.rank[m] /\ g.rank[n] \in Nat /\ g.rank[m] \in Nat
    BY <1>1, <1>2, <2>1
  <2>3. ~(g.rank[m] < g.rank[n])
    BY <2>2
  <2>4. QED BY <1>1, <1>2, <2>2, <2>3
<1>4. m \in g.peers[n] => m # n /\ m \notin Customers(g, n)
  BY DEF RelatedOnce
<1>5. m \in Customers(g, n) => n \in g.providers[m]
  BY DEF Customers
<1>6. QED BY <1>3, <1>4, <1>5 DEF Kin, Late, Lasting

\* What an AS takes in is the route it had from others, or the new one.
LEMMA AbsorbRoutes ==
  ASSUME NEW g, NEW n \in ASN, NEW table \in Table, Consistent(table), NEW ann \in Announcement
  PROVE  \A a \in ToSet(Absorb(g, n, table, ann).queue) :
           a \in ToSet(table.queue) \/ a = PrependASN(ann, n, ann.next_hop, ann.received_from)
<1> DEFINE learned == PrependASN(ann, n, ann.next_hop, ann.received_from)
           new == Absorb(g, n, table, ann)
<1>1. learned \in Announcement
  <2>1. ann.next_hop \in ASN /\ ann.received_from \in Relationship
    BY DEF Announcement
  <2>2. QED BY <2>1, PrependResult
<1>2. new = table \/ new = Receive(table, learned)
  BY DEF Absorb, Admit
<1>3. ASSUME new = Receive(table, learned)
      PROVE  \A a \in ToSet(new.queue) : a \in ToSet(table.queue) \/ a = learned
  <2>1. table.queue \in Seq(Announcement) /\ OnePerNeighbour(table.queue)
    BY DEF Consistent
  <2>2. new.queue = Store(table.queue, learned)
    BY <1>3 DEF Receive
  <2> HIDE DEF new, learned
  <2>3. \A k \in DOMAIN new.queue :
          new.queue[k] = learned \/ \E j \in DOMAIN table.queue : new.queue[k] = table.queue[j]
    BY <1>1, <2>1, <2>2, StoreKeeps
  <2>4. QED BY <2>3 DEF ToSet
<1>4. QED BY <1>2, <1>3

\* A route that lasts is not displaced by a later phase.
LEMMA AbsorbKeepsBest ==
  ASSUME NEW g, NEW n \in ASN, NEW table \in Table, Consistent(table), NEW ann \in Announcement,
         table.best # NoRoute, table.best.received_from \in Lasting,
         ann.received_from \in Late, ann.next_hop # table.best.next_hop
  PROVE  Absorb(g, n, table, ann).best = table.best
<1> DEFINE learned == PrependASN(ann, n, ann.next_hop, ann.received_from)
           new == Absorb(g, n, table, ann)
           best == table.best
<1>1. /\ learned \in Announcement /\ learned.next_hop = ann.next_hop
      /\ learned.received_from = ann.received_from
  <2>1. ann.next_hop \in ASN /\ ann.received_from \in Relationship
    BY DEF Announcement
  <2>2. QED BY <2>1, PrependResult
<1>2. new = table \/ new = Receive(table, learned)
  BY DEF Absorb, Admit
<1>3. best \in Announcement
  BY DEF Table
<1> HIDE DEF learned
<1>4. ~Better(learned, best)
  <2>1. ~Outranks(learned, best)
    BY <1>1 DEF Outranks, Lasting, Late, EnumValue
  <2>2. QED BY <1>1, <1>3, <2>1, ScoreIsSelectionOrder
<1>5. Receive(table, learned).best = best
  BY <1>1, <1>4 DEF Receive
<1>6. QED BY <1>2, <1>5

\* A route made of one of these announcements.
LearnedFrom(n, a, received) ==
  \E b \in received : a = PrependASN(b, n, b.next_hop, b.received_from)

LEMMA AbsorbedRoutes ==
  ASSUME NEW g, NEW own, NEW n \in ASN, NEW table \in Table, GoodTable(g, own, n, table),
         NEW queue, GoodQueue(g, n, queue)
  PROVE  \A a \in ToSet(Absorbed(g, n, table, queue).queue) :
           a \in ToSet(table.queue) \/ LearnedFrom(n, a, ToSet(queue))
<1> DEFINE Known(a) == a \in ToSet(table.queue) \/ LearnedFrom(n, a, ToSet(queue))
           S == {t \in Table : GoodTable(g, own, n, t) /\ \A a \in ToSet(t.queue) : Known(a)}
<1>1. /\ Len(queue) \in Nat /\ DOMAIN queue = 1..Len(queue) /\ queue \in Seq(Announcement)
      /\ \A k \in 1..Len(queue) : GoodMessage(g, n, queue[k]) /\ queue[k] \in Announcement
  BY DEF GoodQueue, GoodMessage
<1>2. table \in S
  OBVIOUS
<1>3. ASSUME NEW k \in 1..Len(queue), NEW t \in S PROVE Absorb(g, n, t, queue[k]) \in S
  <2>1. t \in Table /\ GoodTable(g, own, n, t) /\ Consistent(t) /\ \A a \in ToSet(t.queue) : Known(a)
    BY DEF GoodTable
  <2>2. queue[k] \in ToSet(queue)
    BY <1>1 DEF ToSet
  <2> DEFINE new == Absorb(g, n, t, queue[k])
  <2>3. \A a \in ToSet(new.queue) : Known(a)
    <3>1. \A a \in ToSet(new.queue) :
            a \in ToSet(t.queue)
              \/ a = PrependASN(queue[k], n, queue[k].next_hop, queue[k].received_from)
      <4> HIDE DEF S
      <4>1. QED BY <1>1, <2>1, AbsorbRoutes
    <3> HIDE DEF new, S
    <3>2. QED BY <2>1, <2>2, <3>1 DEF LearnedFrom
  <2>4. new \in Table /\ GoodTable(g, own, n, new)
    <3> HIDE DEF S
    <3>1. QED BY <1>1, <2>1, AbsorbIsGood
  <2> HIDE DEF new, Known
  <2>5. new \in S
    BY <2>3, <2>4
  <2>6. QED BY <2>5 DEF new
<1>4. Absorbed(g, n, table, queue) \in S
  <2> HIDE DEF S
  <2>1. QED BY <1>1, <1>2, <1>3, AbsorbedStays
<1>5. QED BY <1>4

LEMMA ProcessedRoutes ==
  ASSUME NEW g, NEW own, NEW s \in States(g, own), NEW n \in ASN,
         NEW a \in ToSet(Absorbed(g, n, s.tables[n], s.queues[n]).queue)
  PROVE  a \in Stored(s, n) \/ LearnedFrom(n, a, Queued(s, n))
<1> DEFINE table == s.tables[n]
           queue == s.queues[n]
<1>1. /\ table \in Table /\ GoodTable(g, own, n, table) /\ GoodQueue(g, n, queue)
      /\ a \in ToSet(Absorbed(g, n, table, queue).queue)
  BY StateParts
<1> HIDE DEF table, queue
<1>2. a \in ToSet(table.queue) \/ LearnedFrom(n, a, ToSet(queue))
  BY <1>1, AbsorbedRoutes
<1>3. QED BY <1>2 DEF table, queue, Stored, Queued

LEMMA AbsorbedKeepsBest ==
  ASSUME NEW g, NEW own, NEW n \in ASN, NEW table \in Table, GoodTable(g, own, n, table),
         NEW queue, GoodQueue(g, n, queue),
         table.best # NoRoute, table.best.received_from \in Lasting,
         \A a \in ToSet(queue) : a.received_from \in Late /\ a.next_hop # table.best.next_hop
  PROVE  Absorbed(g, n, table, queue).best = table.best
<1> DEFINE S == {t \in Table : GoodTable(g, own, n, t) /\ t.best = table.best}
<1>1. /\ Len(queue) \in Nat /\ DOMAIN queue = 1..Len(queue) /\ queue \in Seq(Announcement)
      /\ \A k \in 1..Len(queue) : GoodMessage(g, n, queue[k]) /\ queue[k] \in Announcement
  BY DEF GoodQueue, GoodMessage
<1>2. table \in S
  OBVIOUS
<1>3. ASSUME NEW k \in 1..Len(queue), NEW t \in S PROVE Absorb(g, n, t, queue[k]) \in S
  <2>1. t \in Table /\ GoodTable(g, own, n, t) /\ Consistent(t) /\ t.best = table.best
    BY DEF GoodTable
  <2>2. queue[k].received_from \in Late /\ queue[k].next_hop # table.best.next_hop
    BY <1>1 DEF ToSet
  <2>3. Absorb(g, n, t, queue[k]).best = table.best
    <3> HIDE DEF S
    <3>1. QED BY <1>1, <2>1, <2>2, AbsorbKeepsBest
  <2>4. Absorb(g, n, t, queue[k]) \in Table /\ GoodTable(g, own, n, Absorb(g, n, t, queue[k]))
    <3> HIDE DEF S
    <3>1. QED BY <1>1, <2>1, AbsorbIsGood
  <2>5. QED BY <2>3, <2>4
<1>4. Absorbed(g, n, table, queue) \in S
  <2> HIDE DEF S
  <2>1. QED BY <1>1, <1>2, <1>3, AbsorbedStays
<1>5. QED BY <1>4

LEMMA InConcatenation ==
  ASSUME NEW T, NEW q \in Seq(T), NEW r \in Seq(T)
  PROVE  ToSet(q \o r) = ToSet(q) \cup ToSet(r)
<1>1. /\ DOMAIN q = 1..Len(q) /\ DOMAIN r = 1..Len(r) /\ Len(q) \in Nat /\ Len(r) \in Nat
      /\ DOMAIN (q \o r) = 1..(Len(q) + Len(r))
      /\ \A k \in 1..(Len(q) + Len(r)) :
           (q \o r)[k] = IF k <= Len(q) THEN q[k] ELSE r[k - Len(q)]
  OBVIOUS
<1>2. ASSUME NEW k \in 1..(Len(q) + Len(r)) PROVE (q \o r)[k] \in ToSet(q) \cup ToSet(r)
  <2>1. CASE k <= Len(q)
    BY <1>1, <2>1 DEF ToSet
  <2>2. CASE ~(k <= Len(q))
    <3>1. k - Len(q) \in 1..Len(r)
      BY <1>1, <2>2
    <3>2. QED BY <1>1, <2>2, <3>1 DEF ToSet
  <2>3. QED BY <2>1, <2>2
<1>3. ASSUME NEW k \in 1..Len(q) PROVE q[k] \in ToSet(q \o r)
  BY <1>1 DEF ToSet
<1>4. ASSUME NEW k \in 1..Len(r) PROVE r[k] \in ToSet(q \o r)
  <2>1. Len(q) + k \in 1..(Len(q) + Len(r)) /\ ~(Len(q) + k <= Len(q)) /\ Len(q) + k - Len(q) = k
    BY <1>1
  <2>2. (q \o r)[Len(q) + k] = r[k]
    BY <1>1, <2>1
  <2>3. QED BY <1>1, <2>1, <2>2 DEF ToSet
<1>5. QED BY <1>1, <1>2, <1>3, <1>4 DEF ToSet

\* What one of these ASes sends to an AS.
SentBy(s, members, targets, rel, n, a) ==
  \E m \in members : /\ n \in targets[m] /\ s.tables[m].best \in Announcement
                     /\ a = Export(m, s.tables[m].best, rel)

LEMMA SentRoutes ==
  ASSUME NEW g, NEW own, NEW s \in States(g, own), NEW members, members \subseteq ASN, NEW targets,
         NEW rel \in Relationship, NEW u, u = AllSend(s, members, targets, rel), NEW n \in ASN
  PROVE  \A a \in Queued(u, n) : a \in Queued(s, n) \/ SentBy(s, members, targets, rel, n, a)
<1> DEFINE S == {m \in members : n \in targets[m] /\ s.tables[m].best # NoRoute}
           senders == SetToSeq(S)
           r == [k \in DOMAIN senders |-> Export(senders[k], s.tables[senders[k]].best, rel)]
<1>1. u.queues[n] = s.queues[n] \o r
  BY DEF AllSend
<1>2. IsFiniteSet(S)
  BY ASNFinite, FS_Subset
<1>3. \A m \in S : m \in members /\ m \in ASN /\ n \in targets[m] /\ s.tables[m].best \in Announcement
  <2>1. \A m \in S : m \in members /\ m \in ASN /\ n \in targets[m] /\ s.tables[m].best # NoRoute
    OBVIOUS
  <2>2. \A m \in ASN : s.tables[m].best \in Announcement \cup {NoRoute}
    BY StateParts DEF Table
  <2>3. QED BY <2>1, <2>2
<1> HIDE DEF S
<1>4. /\ senders \in Seq(S) /\ DOMAIN senders = 1..Len(senders) /\ Len(senders) \in Nat
  BY <1>2, SetToSeqType
<1> HIDE DEF senders
<1>5. \A k \in DOMAIN senders : senders[k] \in S
  BY <1>4
<1>6. ASSUME NEW k \in DOMAIN senders PROVE r[k] \in Announcement
  BY <1>3, <1>5, ExportResult
<1>7. r \in Seq(Announcement) /\ DOMAIN r = DOMAIN senders
  BY <1>4, <1>6
<1>8. \A a \in ToSet(r) : SentBy(s, members, targets, rel, n, a)
  BY <1>3, <1>5, <1>7 DEF ToSet, SentBy
<1>9. s.queues[n] \in Seq(Announcement)
  BY StateParts DEF GoodQueue
<1> HIDE DEF r
<1>10. QED BY <1>1, <1>7, <1>8, <1>9, InConcatenation DEF Queued

\* Sending: what arrives is what the senders use.
LEMMA SendFollows ==
  ASSUME NEW g, NEW own, NEW s \in States(g, own), Follows(g, s),
         NEW members, members \subseteq ASN, NEW targets, NEW rel \in Relationship \ {"ORIGIN"},
         \A m \in members, n \in ASN : n \in targets[m] => m \in Kin(g, n, rel),
         NEW u, u = AllSend(s, members, targets, rel)
  PROVE  /\ Follows(g, u)
         /\ u.tables = s.tables
         /\ \A n \in ASN : \A a \in Queued(u, n) :
              a \notin Queued(s, n) => a.received_from = rel /\ a.next_hop \in members
<1>1. u.tables = s.tables
  BY DEF AllSend
<1>2. ASSUME NEW n \in ASN, NEW a \in Queued(u, n)
      PROVE  \/ a \in Queued(s, n)
             \/ /\ a.received_from = rel /\ a.next_hop \in members
                /\ a.next_hop \in Kin(g, n, rel) /\ s.tables[a.next_hop].best # NoRoute
                /\ a.path = s.tables[a.next_hop].best.path
  <2>1. CASE a \notin Queued(s, n)
    <3>1. SentBy(s, members, targets, rel, n, a)
      BY <2>1, SentRoutes
    <3>2. PICK m \in members : /\ n \in targets[m] /\ s.tables[m].best \in Announcement
                               /\ a = Export(m, s.tables[m].best, rel)
      BY <3>1 DEF SentBy
    <3>3. a.path = s.tables[m].best.path /\ a.next_hop = m /\ a.received_from = rel
      BY <3>2, ExportResult
    <3>4. s.tables[m].best # NoRoute
      BY <3>2, NoRouteAssumption
    <3>5. QED BY <3>2, <3>3, <3>4
  <2>2. CASE a \in Queued(s, n)
    BY <2>2
  <2>3. QED BY <2>1, <2>2
<1>3. \A n \in ASN : Stored(u, n) = Stored(s, n)
  BY <1>1 DEF Stored
<1>4. Follows(g, u)
  <2>1. ASSUME NEW n \in ASN, NEW a \in Stored(u, n), a.received_from # "ORIGIN"
        PROVE  /\ a.next_hop \in Kin(g, n, a.received_from)
               /\ u.tables[a.next_hop].best # NoRoute
               /\ Continues(n, a.path, u.tables[a.next_hop].best.path)
    BY <1>1, <1>3, <2>1 DEF Follows
  <2>2. ASSUME NEW n \in ASN, NEW a \in Queued(u, n)
        PROVE  /\ a.next_hop \in Kin(g, n, a.received_from)
               /\ u.tables[a.next_hop].best # NoRoute
               /\ a.path = u.tables[a.next_hop].best.path
    BY <1>1, <1>2 DEF Follows
  <2>3. QED BY <2>1, <2>2 DEF Follows
<1>5. QED BY <1>1, <1>2, <1>4

\* Processing: the routes others have heard are still what their senders use.
LEMMA ProcessFollows ==
  ASSUME NEW g, WellFormed(g), RelatedOnce(g), NEW own, NEW s \in States(g, own), Follows(g, s),
         NEW members,
         \A n \in ASN : \A a \in Stored(s, n) \cup Queued(s, n) :
           a.received_from # "ORIGIN" /\ a.next_hop \in members =>
             /\ s.tables[a.next_hop].best.received_from \in Lasting
             /\ \A b \in Queued(s, a.next_hop) : b.received_from \in Late,
         NEW t, t = AllProcess(g, s, members)
  PROVE  /\ Follows(g, t)
         /\ \A n \in ASN : \A a \in Queued(t, n) : a \in Queued(s, n)
         /\ \A n \in ASN : \A a \in Stored(t, n) : \E b \in Stored(s, n) \cup Queued(s, n) :
              a.next_hop = b.next_hop /\ a.received_from = b.received_from
         /\ \A n \in ASN : \A a \in Stored(s, n) \cup Queued(s, n) :
              a.received_from # "ORIGIN" =>
                t.tables[a.next_hop].best = s.tables[a.next_hop].best
<1>1. ASSUME NEW n \in ASN
      PROVE  /\ t.tables[n] = IF n \in members THEN Absorbed(g, n, s.tables[n], s.queues[n])
                              ELSE s.tables[n]
             /\ t.queues[n] = IF n \in members THEN <<>> ELSE s.queues[n]
  BY DEF AllProcess
<1>2. ASSUME NEW n \in ASN
      PROVE  /\ s.tables[n] \in Table /\ GoodTable(g, own, n, s.tables[n])
             /\ GoodQueue(g, n, s.queues[n]) /\ Consistent(s.tables[n])
             /\ \A a \in Stored(s, n) : a.received_from = "ORIGIN" => a.next_hop = n
             /\ \A a \in Queued(s, n) : GoodMessage(g, n, a)
             /\ s.tables[n].best # NoRoute => s.tables[n].best \in Stored(s, n)
  <2>1. s.tables[n] \in Table /\ GoodTable(g, own, n, s.tables[n]) /\ GoodQueue(g, n, s.queues[n])
    BY StateParts
  <2>2. Consistent(s.tables[n])
    BY <2>1 DEF GoodTable
  <2>3. s.tables[n].best # NoRoute => s.tables[n].best \in Stored(s, n)
    BY <2>2, ConsistentBest DEF Stored, ToSet
  <2>4. QED BY <2>1, <2>2, <2>3 DEF GoodTable, GoodQueue, Stored, Queued, ToSet
<1>3. ASSUME NEW n \in ASN, NEW a \in Stored(s, n) \cup Queued(s, n), a.received_from # "ORIGIN"
      PROVE  /\ a.next_hop \in ASN /\ s.tables[a.next_hop].best # NoRoute
             /\ t.tables[a.next_hop].best = s.tables[a.next_hop].best
  <2> DEFINE m == a.next_hop
             best == s.tables[m].best
  <2>1. m \in Kin(g, n, a.received_from) /\ best # NoRoute
    BY <1>3 DEF Follows
  <2>2. m \in ASN
    <3>1. a \in Announcement
      BY <1>2 DEF Stored, Queued, ToSet, Table, GoodMessage
    <3>2. QED BY <3>1 DEF Announcement
  <2>3. CASE m \in members
    <3>1. best.received_from \in Lasting /\ \A b \in Queued(s, m) : b.received_from \in Late
      BY <1>3, <2>3
    <3>2. best \in Stored(s, m) /\ best.next_hop \in Kin(g, m, best.received_from)
      <4>1. best \in Stored(s, m)
        BY <1>2, <2>1, <2>2
      <4>2. CASE best.received_from = "ORIGIN"
        BY <1>2, <2>2, <4>1, <4>2 DEF Kin
      <4>3. CASE best.received_from # "ORIGIN"
        BY <2>2, <4>1, <4>3 DEF Follows
      <4>4. QED BY <4>1, <4>2, <4>3
    <3>3. ASSUME NEW b \in Queued(s, m) PROVE b.received_from \in Late /\ b.next_hop # best.next_hop
      <4>1. b.next_hop \in Kin(g, m, b.received_from) /\ b.received_from \in Late
        BY <2>2, <3>1 DEF Follows
      <4>2. b.next_hop \notin Kin(g, m, best.received_from)
        BY <2>2, <3>1, <4>1, KinOnce
      <4>3. QED BY <3>2, <4>1, <4>2
    <3>4. Absorbed(g, m, s.tables[m], s.queues[m]).best = best
      <4>1. \A b \in ToSet(s.queues[m]) : b.received_from \in Late /\ b.next_hop # best.next_hop
        BY <3>3 DEF Queued
      <4>2. QED BY <1>2, <2>1, <2>2, <3>1, <4>1, AbsorbedKeepsBest
    <3>5. QED BY <1>1, <2>1, <2>2, <2>3, <3>4
  <2>4. CASE m \notin members
    BY <1>1, <2>1, <2>2, <2>4
  <2>5. QED BY <2>3, <2>4
<1>4. \A n \in ASN : \A a \in Queued(t, n) : a \in Queued(s, n)
  BY <1>1 DEF Queued, ToSet
<1>5. ASSUME NEW n \in ASN, NEW a \in Stored(t, n)
      PROVE  \/ a \in Stored(s, n)
             \/ \E b \in Queued(s, n) :
                  /\ a.next_hop = b.next_hop /\ a.received_from = b.received_from
                  /\ Continues(n, a.path, b.path)
  <2>1. CASE n \notin members
    BY <1>1, <2>1 DEF Stored
  <2>2. CASE n \in members
    <3>1. a \in ToSet(Absorbed(g, n, s.tables[n], s.queues[n]).queue)
      BY <1>1, <2>2 DEF Stored
    <3>2. a \in Stored(s, n) \/ LearnedFrom(n, a, Queued(s, n))
      BY <3>1, ProcessedRoutes
    <3>3. ASSUME NEW b \in Queued(s, n), a = PrependASN(b, n, b.next_hop, b.received_from)
          PROVE  /\ a.next_hop = b.next_hop /\ a.received_from = b.received_from
                 /\ Continues(n, a.path, b.path)
      <4>1. b \in Announcement /\ b.next_hop \in ASN /\ b.received_from \in Relationship
        BY <1>2 DEF GoodMessage, Announcement
      <4>2. QED BY <3>3, <4>1, PrependResult DEF Continues
    <3>4. QED BY <3>2, <3>3 DEF LearnedFrom
  <2>3. QED BY <2>1, <2>2
<1>6. Follows(g, t)
  <2>1. ASSUME NEW n \in ASN, NEW a \in Stored(t, n), a.received_from # "ORIGIN"
        PROVE  /\ a.next_hop \in Kin(g, n, a.received_from)
               /\ t.tables[a.next_hop].best # NoRoute
               /\ Continues(n, a.path, t.tables[a.next_hop].best.path)
    <3>1. CASE a \in Stored(s, n)
      BY <1>3, <2>1, <3>1 DEF Follows
    <3>2. CASE a \notin Stored(s, n)
      <4>1. PICK b \in Queued(s, n) : /\ a.next_hop = b.next_hop
                                      /\ a.received_from = b.received_from
                                      /\ Continues(n, a.path, b.path)
        BY <1>5, <3>2
      <4>2. /\ b.next_hop \in Kin(g, n, b.received_from)
            /\ b.path = s.tables[b.next_hop].best.path
        BY DEF Follows
      <4>3. /\ t.tables[b.next_hop].best = s.tables[b.next_hop].best
            /\ s.tables[b.next_hop].best # NoRoute
        BY <1>3, <2>1, <4>1
      <4>4. QED BY <4>1, <4>2, <4>3
    <3>3. QED BY <3>1, <3>2
  <2>2. ASSUME NEW n \in ASN, NEW a \in Queued(t, n)
        PROVE  /\ a.next_hop \in Kin(g, n, a.received_from)
               /\ t.tables[a.next_hop].best # NoRoute
               /\ a.path = t.tables[a.next_hop].best.path
    <3>1. a \in Queued(s, n) /\ a.received_from # "ORIGIN"
      BY <1>2, <1>4 DEF GoodMessage
    <3>2. QED BY <1>3, <3>1 DEF Follows
  <2>3. QED BY <2>1, <2>2 DEF Follows
<1>7. QED BY <1>3, <1>4, <1>5, <1>6

\* The best route of an AS is one it has stored.
LEMMA BestIsStored ==
  ASSUME NEW g, NEW own, NEW s \in States(g, own), NEW n \in ASN, s.tables[n].best # NoRoute
  PROVE  s.tables[n].best \in Stored(s, n)
<1>1. Consistent(s.tables[n])
  BY StateParts DEF GoodTable
<1>2. QED BY <1>1, ConsistentBest DEF Stored, ToSet

\* Next hops are ASes, and nothing that is sent is an AS's own.
LEMMA HopTypes ==
  ASSUME NEW g, NEW own, NEW s \in States(g, own), NEW n \in ASN
  PROVE  /\ \A a \in Stored(s, n) : a \in Announcement /\ a.next_hop \in ASN
         /\ \A a \in Queued(s, n) : /\ a \in Announcement /\ a.next_hop \in ASN
                                    /\ a.received_from # "ORIGIN"
<1>1. s.tables[n] \in Table /\ GoodQueue(g, n, s.queues[n])
  BY StateParts
<1>2. \A a \in Stored(s, n) : a \in Announcement
  BY <1>1 DEF Stored, ToSet, Table
<1>3. \A a \in Queued(s, n) : a \in Announcement /\ a.received_from # "ORIGIN"
  BY <1>1 DEF Queued, ToSet, GoodQueue, GoodMessage
<1>4. QED BY <1>2, <1>3 DEF Announcement

LEMMA NothingIsQueued ==
  ASSUME NEW s, Nothing(s), NEW n \in ASN
  PROVE  Queued(s, n) = {}
<1>1. DOMAIN <<>> = {}
  OBVIOUS
<1>2. s.queues[n] = <<>>
  BY DEF Nothing
<1>3. QED BY <1>1, <1>2 DEF Queued, ToSet

(***************************************************************************)
(* On the way up, everything heard comes from below.                       *)
(***************************************************************************)

UpState(g, s, r) ==
  /\ Follows(g, s)
  /\ \A n \in ASN : \A a \in Stored(s, n) :
       a.received_from \in Lasting /\ (a.received_from # "ORIGIN" => g.rank[a.next_hop] < r)
  /\ \A n \in ASN : \A a \in Queued(s, n) :
       a.received_from = "FROM_CUSTOMER" /\ g.rank[a.next_hop] < r

LEMMA UpStep ==
  ASSUME NEW g, WellFormed(g), RelatedOnce(g), NEW own, NEW s \in States(g, own), NEW r \in Nat,
         UpState(g, s, r)
  PROVE  UpState(g, RankUp(g, s, r), r + 1)
<1> DEFINE members == Bucket(g, r)
           t == AllProcess(g, s, members)
           targets == g.providers
           u == AllSend(t, members, targets, "FROM_CUSTOMER")
<1>1. members \subseteq ASN /\ \A n \in ASN : n \in members <=> g.rank[n] = r
  BY DEF Bucket
<1>2. t \in States(g, own) /\ \A n \in ASN : g.rank[n] \in Nat
  BY AllProcessResult, RankTypes
<1>3. \A n \in ASN : \A a \in Stored(s, n) \cup Queued(s, n) :
        a.received_from # "ORIGIN" => a.next_hop \in ASN /\ g.rank[a.next_hop] < r
  BY HopTypes DEF UpState
<1>4. \A n \in ASN : \A a \in Stored(s, n) \cup Queued(s, n) :
        ~(a.received_from # "ORIGIN" /\ a.next_hop \in members)
  BY <1>1, <1>2, <1>3
<1>5. t = AllProcess(g, s, members) /\ u = AllSend(t, members, targets, "FROM_CUSTOMER")
  OBVIOUS
<1>6. \A m \in members, n \in ASN : n \in targets[m] => m \in Kin(g, n, "FROM_CUSTOMER")
  BY <1>1 DEF Kin, Customers
<1>7. RankUp(g, s, r) = u
  BY DEF RankUp
<1> HIDE DEF members, t, targets, u
<1>8. /\ Follows(g, t)
      /\ \A n \in ASN : \A a \in Queued(t, n) : a \in Queued(s, n)
      /\ \A n \in ASN : \A a \in Stored(t, n) : \E b \in Stored(s, n) \cup Queued(s, n) :
           a.next_hop = b.next_hop /\ a.received_from = b.received_from
  <2>1. Follows(g, s)
    BY DEF UpState
  <2>2. \A n \in ASN : \A a \in Stored(s, n) \cup Queued(s, n) :
          a.received_from # "ORIGIN" /\ a.next_hop \in members =>
            /\ s.tables[a.next_hop].best.received_from \in Lasting
            /\ \A b \in Queued(s, a.next_hop) : b.received_from \in Late
    BY <1>4
  <2>3. QED BY <1>5, <2>1, <2>2, ProcessFollows
<1>9. "FROM_CUSTOMER" \in Relationship \ {"ORIGIN"}
  BY DEF Relationship
<1>10. /\ Follows(g, u)
       /\ u.tables = t.tables
       /\ \A n \in ASN : \A a \in Queued(u, n) :
            a \notin Queued(t, n) => a.received_from = "FROM_CUSTOMER" /\ a.next_hop \in members
  <2> DEFINE rel == "FROM_CUSTOMER"
  <2>1. /\ rel \in Relationship \ {"ORIGIN"} /\ u = AllSend(t, members, targets, rel)
        /\ \A m \in members, n \in ASN : n \in targets[m] => m \in Kin(g, n, rel)
    BY <1>5, <1>6, <1>9
  <2> HIDE DEF rel
  <2>2. members \subseteq ASN /\ t \in States(g, own) /\ Follows(g, t)
    BY <1>1, <1>2, <1>8
  <2>3. /\ Follows(g, u)
        /\ u.tables = t.tables
        /\ \A n \in ASN : \A a \in Queued(u, n) :
             a \notin Queued(t, n) => a.received_from = rel /\ a.next_hop \in members
    BY <2>1, <2>2, SendFollows
  <2>4. QED BY <2>3 DEF rel
<1>11. ASSUME NEW n \in ASN, NEW a \in Stored(u, n)
       PROVE  /\ a.received_from \in Lasting
              /\ a.received_from # "ORIGIN" => g.rank[a.next_hop] < r + 1
  <2>1. a \in Stored(t, n)
    BY <1>10 DEF Stored
  <2>2. PICK b \in Stored(s, n) \cup Queued(s, n) :
          a.next_hop = b.next_hop /\ a.received_from = b.received_from
    BY <1>8, <2>1
  <2>3. b.received_from \in Lasting
    BY DEF UpState, Lasting
  <2>4. a.received_from # "ORIGIN" => a.next_hop \in ASN /\ g.rank[a.next_hop] < r
    BY <1>3, <2>2
  <2>5. QED BY <1>2, <2>2, <2>3, <2>4
<1>12. ASSUME NEW n \in ASN, NEW a \in Queued(u, n)
       PROVE  a.received_from = "FROM_CUSTOMER" /\ g.rank[a.next_hop] < r + 1
  <2>1. CASE a \in Queued(t, n)
    <3>1. a \in Queued(s, n)
      BY <1>8, <2>1
    <3>2. a.next_hop \in ASN /\ a.received_from = "FROM_CUSTOMER" /\ g.rank[a.next_hop] < r
      BY <3>1, HopTypes DEF UpState
    <3>3. QED BY <1>2, <3>2
  <2>2. CASE a \notin Queued(t, n)
    <3>1. a.received_from = "FROM_CUSTOMER" /\ a.next_hop \in members
      BY <1>10, <2>2
    <3>2. g.rank[a.next_hop] = r
      BY <1>1, <3>1
    <3>3. QED BY <3>1, <3>2
  <2>3. QED BY <2>1, <2>2
<1>13. QED BY <1>7, <1>10, <1>11, <1>12 DEF UpState

\* The routes an AS may have between the way up and the peer phase.
RaisedState(g, s) ==
  /\ Follows(g, s)
  /\ Nothing(s)
  /\ \A n \in ASN : \A a \in Stored(s, n) : a.received_from \in Lasting

LEMMA UpFollows ==
  ASSUME NEW g, WellFormed(g), RelatedOnce(g), NEW own, NEW s \in States(g, own), Nothing(s),
         \A n \in ASN : \A a \in Stored(s, n) : a.received_from = "ORIGIN"
  PROVE  RaisedState(g, PropagateUp(g, s))
<1> DEFINE last == MaxRank(g) + 1
<1>1. PICK u \in [0..last -> States(g, own)] :
        /\ u[0] = s
        /\ \A k \in 1..last : u[k] = RankUp(g, u[k - 1], k - 1)
        /\ PropagateUp(g, s) = u[last]
  BY UpResult
<1>2. last \in Nat
  <2>1. MaxRank(g) \in Nat
    BY RankTypes
  <2>2. QED BY <2>1
<1> HIDE DEF last
<1> DEFINE P == {k \in 0..last : UpState(g, u[k], k)}
<1>3. 0 \in P
  <2>1. \A n \in ASN : Queued(s, n) = {}
    BY NothingIsQueued
  <2>2. Follows(g, s)
    BY <2>1 DEF Follows
  <2>3. UpState(g, s, 0)
    BY <2>1, <2>2 DEF UpState, Lasting
  <2>4. QED BY <1>1, <1>2, <2>3
<1>4. ASSUME NEW k \in 1..last, k - 1 \in P PROVE k \in P
  <2>1. k - 1 \in Nat /\ u[k - 1] \in States(g, own) /\ k - 1 + 1 = k /\ k \in 0..last
    BY <1>2, <1>4
  <2>2. UpState(g, RankUp(g, u[k - 1], k - 1), k - 1 + 1)
    BY <1>4, <2>1, UpStep
  <2>3. QED BY <1>1, <2>1, <2>2
<1>5. last \in P
  <2> HIDE DEF P
  <2>1. \A k \in 0..last : k \in P
    BY <1>2, <1>3, <1>4, UpTo
  <2>2. QED BY <1>2, <2>1
<1>6. UpState(g, PropagateUp(g, s), last)
  BY <1>1, <1>5
<1>7. Nothing(PropagateUp(g, s))
  BY UpEnds
<1>8. QED BY <1>6, <1>7 DEF UpState, RaisedState

(***************************************************************************)
(* Peers tell each other what lasts; on the way down, an AS that has sent  *)
(* below its own rank is done, or its route lasts.                         *)
(***************************************************************************)

DownState(g, s, r) ==
  /\ Follows(g, s)
  /\ \A n \in ASN : \A a \in Queued(s, n) : a.received_from = "FROM_PROVIDER"
  /\ \A n \in ASN : \A a \in Stored(s, n) \cup Queued(s, n) :
       a.received_from # "ORIGIN" =>
         g.rank[a.next_hop] > r \/ s.tables[a.next_hop].best.received_from \in Lasting

LEMMA AcrossFollows ==
  ASSUME NEW g, WellFormed(g), RelatedOnce(g), NEW own, NEW s \in States(g, own),
         RaisedState(g, s), NEW r
  PROVE  DownState(g, PropagateAcross(g, s), r)
<1> DEFINE targets == g.peers
           members == ASN
           t == AllSend(s, members, targets, "FROM_PEER")
           u == AllProcess(g, t, members)
<1>1. t \in States(g, own)
  BY AcrossSends
<1>2. PropagateAcross(g, s) = u
  BY DEF PropagateAcross
<1>3. t = AllSend(s, members, targets, "FROM_PEER") /\ u = AllProcess(g, t, members)
  OBVIOUS
<1>4. \A m \in members, n \in ASN : n \in targets[m] => m \in Kin(g, n, "FROM_PEER")
  BY DEF Kin, WellFormed, Graph
<1>5. members \subseteq ASN
  OBVIOUS
<1> HIDE DEF members, t, targets, u
<1>6. /\ Follows(g, t)
      /\ t.tables = s.tables
      /\ \A n \in ASN : \A a \in Queued(t, n) :
           a \notin Queued(s, n) => a.received_from = "FROM_PEER" /\ a.next_hop \in members
  <2> DEFINE rel == "FROM_PEER"
  <2>1. /\ rel \in Relationship \ {"ORIGIN"} /\ t = AllSend(s, members, targets, rel)
        /\ \A m \in members, n \in ASN : n \in targets[m] => m \in Kin(g, n, rel)
    BY <1>3, <1>4 DEF Relationship
  <2> HIDE DEF rel
  <2>2. Follows(g, s)
    BY DEF RaisedState
  <2>3. /\ Follows(g, t)
        /\ t.tables = s.tables
        /\ \A n \in ASN : \A a \in Queued(t, n) :
             a \notin Queued(s, n) => a.received_from = rel /\ a.next_hop \in members
    BY <1>5, <2>1, <2>2, SendFollows
  <2>4. QED BY <2>3 DEF rel
<1>7. \A n \in ASN : \A a \in Queued(t, n) : a.received_from = "FROM_PEER"
  <2>1. \A n \in ASN : Queued(s, n) = {}
    BY NothingIsQueued DEF RaisedState
  <2>2. QED BY <1>6, <2>1
<1>8. ASSUME NEW n \in ASN, NEW a \in Stored(t, n) \cup Queued(t, n), a.received_from # "ORIGIN"
      PROVE  /\ a.next_hop \in ASN
             /\ t.tables[a.next_hop].best.received_from \in Lasting
  <2>1. a.next_hop \in ASN
    BY <1>1, HopTypes
  <2>2. t.tables[a.next_hop].best # NoRoute
    BY <1>6, <1>8 DEF Follows
  <2>3. t.tables[a.next_hop].best \in Stored(t, a.next_hop)
    BY <1>1, <2>1, <2>2, BestIsStored
  <2>4. Stored(t, a.next_hop) = Stored(s, a.next_hop)
    BY <1>6 DEF Stored
  <2>5. QED BY <2>1, <2>3, <2>4 DEF RaisedState
<1>9. /\ Follows(g, u)
      /\ \A n \in ASN : \A a \in Stored(u, n) : \E b \in Stored(t, n) \cup Queued(t, n) :
           a.next_hop = b.next_hop /\ a.received_from = b.received_from
      /\ \A n \in ASN : \A a \in Stored(t, n) \cup Queued(t, n) :
           a.received_from # "ORIGIN" =>
             u.tables[a.next_hop].best = t.tables[a.next_hop].best
  <2>1. \A n \in ASN : \A a \in Stored(t, n) \cup Queued(t, n) :
          a.received_from # "ORIGIN" /\ a.next_hop \in members =>
            /\ t.tables[a.next_hop].best.received_from \in Lasting
            /\ \A b \in Queued(t, a.next_hop) : b.received_from \in Late
    BY <1>7, <1>8 DEF Late
  <2>2. QED BY <1>1, <1>3, <1>6, <2>1, ProcessFollows
<1>10. \A n \in ASN : Queued(u, n) = {}
  <2>1. Nothing(u)
    BY <1>2, AcrossEnds
  <2>2. QED BY <2>1, NothingIsQueued
<1>11. ASSUME NEW n \in ASN, NEW a \in Stored(u, n), a.received_from # "ORIGIN"
       PROVE  u.tables[a.next_hop].best.received_from \in Lasting
  <2>1. PICK b \in Stored(t, n) \cup Queued(t, n) :
          a.next_hop = b.next_hop /\ a.received_from = b.received_from
    BY <1>9
  <2>2. t.tables[b.next_hop].best.received_from \in Lasting
    BY <1>8, <1>11, <2>1
  <2>3. QED BY <1>9, <1>11, <2>1, <2>2
<1>12. QED BY <1>2, <1>9, <1>10, <1>11 DEF DownState

LEMMA DownStep ==
  ASSUME NEW g, WellFormed(g), RelatedOnce(g), NEW own, NEW s \in States(g, own), NEW r \in Nat,
         DownState(g, s, r)
  PROVE  DownState(g, RankDown(g, s, r), r - 1)
<1> DEFINE members == Bucket(g, r)
           t == AllProcess(g, s, members)
           targets == CustomersOfAll(g)
           u == AllSend(t, members, targets, "FROM_PROVIDER")
<1>1. members \subseteq ASN /\ \A n \in ASN : n \in members <=> g.rank[n] = r
  BY DEF Bucket
<1>2. t \in States(g, own) /\ \A n \in ASN : g.rank[n] \in Nat
  BY AllProcessResult, RankTypes
<1>3. t = AllProcess(g, s, members) /\ u = AllSend(t, members, targets, "FROM_PROVIDER")
  OBVIOUS
<1>4. \A m \in members, n \in ASN : n \in targets[m] => m \in Kin(g, n, "FROM_PROVIDER")
  BY <1>1, LinkTypes DEF Kin
<1>5. RankDown(g, s, r) = u
  BY DEF RankDown
<1> HIDE DEF members, t, targets, u
<1>6. /\ Follows(g, t)
      /\ \A n \in ASN : \A a \in Queued(t, n) : a \in Queued(s, n)
      /\ \A n \in ASN : \A a \in Stored(t, n) : \E b \in Stored(s, n) \cup Queued(s, n) :
           a.next_hop = b.next_hop /\ a.received_from = b.received_from
      /\ \A n \in ASN : \A a \in Stored(s, n) \cup Queued(s, n) :
           a.received_from # "ORIGIN" =>
             t.tables[a.next_hop].best = s.tables[a.next_hop].best
  <2>1. Follows(g, s)
    BY DEF DownState
  <2>2. ASSUME NEW n \in ASN, NEW a \in Stored(s, n) \cup Queued(s, n),
               a.received_from # "ORIGIN", a.next_hop \in members
        PROVE  /\ s.tables[a.next_hop].best.received_from \in Lasting
               /\ \A b \in Queued(s, a.next_hop) : b.received_from \in Late
    <3>1. a.next_hop \in ASN /\ ~(g.rank[a.next_hop] > r)
      BY <1>1, <2>2
    <3>2. QED BY <2>2, <3>1 DEF DownState, Late
  <2>3. QED BY <1>3, <2>1, <2>2, ProcessFollows
<1>7. "FROM_PROVIDER" \in Relationship \ {"ORIGIN"}
  BY DEF Relationship
<1>8. /\ Follows(g, u)
      /\ u.tables = t.tables
      /\ \A n \in ASN : \A a \in Queued(u, n) :
           a \notin Queued(t, n) => a.received_from = "FROM_PROVIDER" /\ a.next_hop \in members
  <2> DEFINE rel == "FROM_PROVIDER"
  <2>1. /\ rel \in Relationship \ {"ORIGIN"} /\ u = AllSend(t, members, targets, rel)
        /\ \A m \in members, n \in ASN : n \in targets[m] => m \in Kin(g, n, rel)
    BY <1>3, <1>4, <1>7
  <2> HIDE DEF rel
  <2>2. members \subseteq ASN /\ t \in States(g, own) /\ Follows(g, t)
    BY <1>1, <1>2, <1>6
  <2>3. /\ Follows(g, u)
        /\ u.tables = t.tables
        /\ \A n \in ASN : \A a \in Queued(u, n) :
             a \notin Queued(t, n) => a.received_from = rel /\ a.next_hop \in members
    BY <2>1, <2>2, SendFollows
  <2>4. QED BY <2>3 DEF rel
<1>9. ASSUME NEW n \in ASN, NEW a \in Queued(u, n)
      PROVE  a.received_from = "FROM_PROVIDER"
  BY <1>6, <1>8 DEF DownState
<1>10. ASSUME NEW n \in ASN, NEW b \in Stored(s, n) \cup Queued(s, n), b.received_from # "ORIGIN"
       PROVE  \/ g.rank[b.next_hop] > r - 1
              \/ u.tables[b.next_hop].best.received_from \in Lasting
  <2>1. b.next_hop \in ASN /\ g.rank[b.next_hop] \in Nat
    BY <1>2, HopTypes
  <2>2. g.rank[b.next_hop] > r \/ s.tables[b.next_hop].best.received_from \in Lasting
    BY <1>10 DEF DownState
  <2>3. u.tables[b.next_hop].best = s.tables[b.next_hop].best
    BY <1>6, <1>8, <1>10
  <2>4. QED BY <2>1, <2>2, <2>3
<1>11. ASSUME NEW n \in ASN, NEW a \in Stored(u, n) \cup Queued(u, n), a.received_from # "ORIGIN"
       PROVE  \/ g.rank[a.next_hop] > r - 1
              \/ u.tables[a.next_hop].best.received_from \in Lasting
  <2>1. CASE a \in Stored(u, n)
    <3>1. a \in Stored(t, n)
      BY <1>8, <2>1 DEF Stored
    <3>2. PICK b \in Stored(s, n) \cup Queued(s, n) :
            a.next_hop = b.next_hop /\ a.received_from = b.received_from
      BY <1>6, <3>1
    <3>3. QED BY <1>10, <1>11, <3>2
  <2>2. CASE a \in Queued(t, n)
    BY <1>6, <1>10, <1>11, <2>2
  <2>3. CASE a \in Queued(u, n) /\ a \notin Queued(t, n)
    <3>1. g.rank[a.next_hop] = r
      BY <1>1, <1>8, <2>3
    <3>2. QED BY <3>1
  <2>4. QED BY <1>11, <2>1, <2>2, <2>3
<1>12. QED BY <1>5, <1>8, <1>9, <1>11 DEF DownState

LEMMA DownFollows ==
  ASSUME NEW g, WellFormed(g), RelatedOnce(g), NEW own, NEW s \in States(g, own),
         DownState(g, s, MaxRank(g))
  PROVE  Follows(g, PropagateDown(g, s))
<1> DEFINE top == MaxRank(g)
<1>1. PICK d \in [0..(top + 1) -> States(g, own)] :
        /\ d[0] = s
        /\ \A k \in 1..(top + 1) : d[k] = RankDown(g, d[k - 1], top + 1 - k)
        /\ PropagateDown(g, s) = d[top + 1]
  BY DownResult
<1>2. top \in Nat
  BY RankTypes
<1> DEFINE P == {k \in 0..(top + 1) : DownState(g, d[k], top - k)}
<1>3. 0 \in P
  <2>1. top - 0 = top
    BY <1>2
  <2>2. QED BY <1>1, <1>2, <2>1
<1> HIDE DEF top
<1>4. ASSUME NEW k \in 1..(top + 1), k - 1 \in P PROVE k \in P
  <2> DEFINE r == top + 1 - k
  <2>1. /\ r \in Nat /\ d[k - 1] \in States(g, own) /\ k \in 0..(top + 1)
        /\ top - (k - 1) = r /\ r - 1 = top - k
    BY <1>2, <1>4
  <2>2. d[k] = RankDown(g, d[k - 1], r)
    BY <1>1
  <2>3. DownState(g, d[k - 1], r)
    BY <1>4, <2>1
  <2> HIDE DEF r
  <2>4. DownState(g, RankDown(g, d[k - 1], r), r - 1)
    BY <2>1, <2>3, DownStep
  <2>5. QED BY <2>1, <2>2, <2>4
<1>5. top + 1 \in P
  <2> HIDE DEF P
  <2>1. \A k \in 0..(top + 1) : k \in P
    BY <1>2, <1>3, <1>4, UpTo
  <2>2. QED BY <1>2, <2>1
<1>6. Follows(g, d[top + 1])
  BY <1>5 DEF DownState
<1>7. QED BY <1>1, <1>6

\* propagateAll from announcements the ASes made themselves.
LEMMA AllFollows ==
  ASSUME Iterations = 1,
         NEW g, WellFormed(g), RelatedOnce(g), NEW own, NEW s \in States(g, own), Nothing(s),
         \A n \in ASN : \A a \in Stored(s, n) : a.received_from = "ORIGIN"
  PROVE  Follows(g, PropagateAll(g, s))
<1> DEFINE up == PropagateUp(g, s)
           over == PropagateAcross(g, up)
<1>1. PropagateAll(g, s) = PropagateDown(g, over)
  BY OneCallOrThree
<1>2. up \in States(g, own) /\ RaisedState(g, up)
  BY UpEnds, UpFollows
<1> HIDE DEF up
<1>3. over \in States(g, own) /\ DownState(g, over, MaxRank(g))
  BY <1>2, AcrossEnds, AcrossFollows
<1> HIDE DEF over
<1>4. QED BY <1>1, <1>3, DownFollows
-----------------------------------------------------------------------------
(***************************************************************************)
(* The graph that is read, and its ranks.                                  *)
(***************************************************************************)

Links == [ASN -> [ASN -> Nat]]

\* What the reader makes: links that both ends agree on, between nodes.
GraphIsRead ==
  /\ nodes \subseteq ASN
  /\ providers \in Links /\ customers \in Links /\ peers \in Links
  /\ LinksAgree
  /\ \A n, m \in ASN :
       /\ customers[n][m] > 0 => n \in nodes /\ m \in nodes
       /\ peers[n][m] > 0 => n \in nodes /\ m \in nodes

Descents(n) == {k \in 0..(Cardinality(nodes) - 1) : HasDescent(n, k)}

Ranks == [n \in ASN |-> IF n \notin nodes THEN -1 ELSE Max(Descents(n))]

NoRanks == [n \in ASN |-> -1]

LEMMA MaxOfSome ==
  ASSUME NEW b \in Nat, NEW S, S \subseteq 0..b, S # {}
  PROVE  Max(S) \in S /\ \A k \in S : k <= Max(S)
<1> DEFINE below == {k \in 0..b : b - k \in S}
<1>1. below \subseteq Nat
  OBVIOUS
<1>2. below # {}
  <2>1. PICK k \in S : TRUE
    OBVIOUS
  <2>2. b - k \in 0..b /\ b - (b - k) = k
    BY <2>1
  <2>3. b - k \in below
    BY <2>1, <2>2
  <2>4. QED BY <2>3
<1>3. PICK least \in below : \A k \in below : least <= k
  <2> HIDE DEF below
  <2>1. QED BY <1>1, <1>2, LeastElement
<1>4. \E m \in S : \A k \in S : m >= k
  <2>1. b - least \in S
    BY <1>3
  <2>2. ASSUME NEW k \in S PROVE b - least >= k
    <3>1. b - k \in 0..b /\ b - (b - k) = k
      BY <2>2
    <3>2. b - k \in below
      BY <2>2, <3>1
    <3>3. least <= b - k /\ least \in 0..b /\ k \in 0..b
      BY <1>3, <2>2, <3>2
    <3>4. QED BY <3>3
  <2>3. QED BY <2>1, <2>2
<1>5. Max(S) \in S /\ \A k \in S : Max(S) >= k
  BY <1>4 DEF Max
<1>6. QED BY <1>5

\* Without cycles no walk comes back, so that none is longer than there are nodes.
LEMMA DescentsAreShort ==
  ASSUME GraphIsRead, ~HasCycle, NEW n, NEW k \in Nat, HasDescent(n, k)
  PROVE  k <= Cardinality(nodes) - 1
<1>1. PICK walk \in [0..k -> nodes] : \A j \in 1..k : walk[j] \in CustomersOf(walk[j - 1])
  BY DEF HasDescent
<1>2. ASSUME NEW i \in 0..k, NEW j \in 0..k, i < j, walk[i] = walk[j] PROVE FALSE
  <2> DEFINE S == {walk[x] : x \in i..(j - 1)}
  <2>1. S \subseteq nodes /\ S # {}
    <3>1. i \in i..(j - 1) /\ \A x \in i..(j - 1) : x \in 0..k
      BY <1>2
    <3>2. QED BY <3>1
  <2>2. ASSUME NEW m \in S PROVE CustomersOf(m) \cap S # {}
    <3>1. PICK x \in i..(j - 1) : m = walk[x]
      OBVIOUS
    <3>2. x + 1 \in 1..k /\ x + 1 - 1 = x
      BY <1>2
    <3>3. walk[x + 1] \in CustomersOf(m)
      BY <1>1, <3>1, <3>2
    <3>4. walk[x + 1] \in S
      <4>1. CASE x + 1 = j
        <5>1. walk[x + 1] = walk[i] /\ i \in i..(j - 1)
          BY <1>2, <4>1
        <5>2. QED BY <5>1
      <4>2. CASE x + 1 # j
        <5>1. x + 1 \in i..(j - 1)
          BY <1>2, <4>2
        <5>2. QED BY <5>1
      <4>3. QED BY <4>1, <4>2
    <3>5. QED BY <3>3, <3>4
  <2> HIDE DEF S
  <2>3. QED BY <2>1, <2>2 DEF HasCycle
<1>3. walk \in Injection(0..k, nodes)
  <2>1. ASSUME NEW i \in 0..k, NEW j \in 0..k, walk[i] = walk[j] PROVE i = j
    <3>1. ~(i < j) /\ ~(j < i)
      BY <1>2, <2>1
    <3>2. QED BY <3>1
  <2>2. QED BY <2>1 DEF Injection, IsInjective
<1>4. IsFiniteSet(nodes)
  BY ASNFinite, FS_Subset DEF GraphIsRead
<1>5. Cardinality(0..k) <= Cardinality(nodes)
  BY <1>3, <1>4, FS_Injection
<1>6. Cardinality(0..k) = k + 1
  <2>1. 0 \in Int /\ k \in Int /\ ~(0 > k) /\ k - 0 + 1 = k + 1
    OBVIOUS
  <2>2. Cardinality(0..k) = IF 0 > k THEN 0 ELSE k - 0 + 1
    BY <2>1, FS_Interval
  <2>3. QED BY <2>1, <2>2
<1>7. Cardinality(nodes) \in Nat
  BY <1>4, FS_CardinalityType
<1>8. QED BY <1>5, <1>6, <1>7

\* What is said of an AS's rank and of its customers'.
LEMMA RanksAreDescents ==
  ASSUME GraphIsRead, ~HasCycle, NEW n \in nodes
  PROVE  /\ Ranks[n] \in Nat
         /\ HasDescent(n, Ranks[n])
         /\ \A k \in Nat : HasDescent(n, k) => k <= Ranks[n]
<1>1. Cardinality(nodes) \in Nat \ {0}
  <2>1. IsFiniteSet(nodes)
    BY ASNFinite, FS_Subset DEF GraphIsRead
  <2>2. QED BY <2>1, FS_CardinalityType, FS_EmptySet
<1>2. HasDescent(n, 0)
  <2> DEFINE walk == [j \in 0..0 |-> n]
  <2>1. walk \in [0..0 -> nodes] /\ walk[0] = n
    OBVIOUS
  <2>2. \A j \in 1..0 : walk[j] \in CustomersOf(walk[j - 1])
    OBVIOUS
  <2> HIDE DEF walk
  <2>3. QED BY <2>1, <2>2 DEF HasDescent
<1> DEFINE b == Cardinality(nodes) - 1
<1>3. b \in Nat /\ Descents(n) \subseteq 0..b /\ 0 \in Descents(n)
  BY <1>1, <1>2 DEF Descents
<1>4. Max(Descents(n)) \in Descents(n) /\ \A k \in Descents(n) : k <= Max(Descents(n))
  BY <1>3, MaxOfSome
<1>5. Ranks[n] = Max(Descents(n))
  BY DEF Ranks, GraphIsRead
<1>6. Ranks[n] \in Nat /\ HasDescent(n, Ranks[n])
  BY <1>4, <1>5 DEF Descents
<1>7. ASSUME NEW k \in Nat, HasDescent(n, k) PROVE k <= Ranks[n]
  <2>1. k <= Cardinality(nodes) - 1
    BY <1>7, DescentsAreShort
  <2>2. k \in Descents(n)
    BY <1>1, <1>7, <2>1 DEF Descents
  <2>3. QED BY <1>4, <1>5, <2>2
<1>8. QED BY <1>6, <1>7

LEMMA RanksRiseToProviders ==
  ASSUME GraphIsRead, ~HasCycle, NEW n \in nodes, NEW m \in nodes, m \in CustomersOf(n)
  PROVE  Ranks[m] < Ranks[n]
<1>1. Ranks[m] \in Nat /\ Ranks[n] \in Nat /\ HasDescent(m, Ranks[m])
  BY RanksAreDescents
<1> DEFINE k == Ranks[m]
<1>2. PICK walk \in [0..k -> nodes] :
        walk[0] = m /\ \A j \in 1..k : walk[j] \in CustomersOf(walk[j - 1])
  BY <1>1 DEF HasDescent
<1> HIDE DEF k
<1>3. k \in Nat
  BY <1>1 DEF k
<1> DEFINE longer == [j \in 0..(k + 1) |-> IF j = 0 THEN n ELSE walk[j - 1]]
<1>4. longer \in [0..(k + 1) -> nodes] /\ longer[0] = n
  BY <1>3
<1>5. ASSUME NEW j \in 1..(k + 1) PROVE longer[j] \in CustomersOf(longer[j - 1])
  <2>1. j \in 0..(k + 1) /\ j # 0 /\ j - 1 \in 0..(k + 1)
    BY <1>3
  <2>2. longer[j] = walk[j - 1]
    BY <2>1
  <2>3. CASE j = 1
    <3>1. j - 1 = 0
      BY <2>3
    <3>2. QED BY <1>2, <1>4, <2>2, <3>1
  <2>4. CASE j # 1
    <3> DEFINE i == j - 1
    <3>1. i \in 1..k /\ i # 0
      BY <1>3, <2>4
    <3>2. longer[i] = walk[i - 1]
      BY <2>1, <3>1
    <3>3. walk[i] \in CustomersOf(walk[i - 1])
      BY <1>2, <3>1
    <3> HIDE DEF longer
    <3>4. QED BY <2>2, <3>2, <3>3
  <2>5. QED BY <2>3, <2>4
<1> HIDE DEF longer
<1>6. HasDescent(n, k + 1)
  BY <1>4, <1>5 DEF HasDescent
<1>7. k + 1 <= Ranks[n]
  BY <1>3, <1>6, RanksAreDescents
<1>8. QED BY <1>1, <1>3, <1>7 DEF k

LEMMA RanksAreTight ==
  ASSUME GraphIsRead, ~HasCycle, NEW n \in nodes, Ranks[n] > 0
  PROVE  \E m \in nodes : m \in CustomersOf(n) /\ Ranks[n] = Ranks[m] + 1
<1> DEFINE k == Ranks[n]
<1>1. k \in Nat \ {0} /\ HasDescent(n, k)
  BY RanksAreDescents
<1> HIDE DEF k
<1>2. PICK walk \in [0..k -> nodes] :
        walk[0] = n /\ \A j \in 1..k : walk[j] \in CustomersOf(walk[j - 1])
  BY <1>1 DEF HasDescent
<1> DEFINE m == walk[1]
<1>3. m \in nodes /\ m \in CustomersOf(n)
  <2>1. 1 \in 0..k /\ 1 \in 1..k /\ 1 - 1 = 0
    BY <1>1
  <2>2. QED BY <1>2, <2>1
<1> DEFINE shorter == [j \in 0..(k - 1) |-> walk[j + 1]]
<1>4. shorter \in [0..(k - 1) -> nodes] /\ shorter[0] = m
  BY <1>1
<1>5. ASSUME NEW j \in 1..(k - 1) PROVE shorter[j] \in CustomersOf(shorter[j - 1])
  <2>1. /\ j \in 0..(k - 1) /\ j - 1 \in 0..(k - 1) /\ j + 1 \in 1..k
        /\ j + 1 - 1 = j /\ j - 1 + 1 = j
    BY <1>1
  <2>2. shorter[j] = walk[j + 1] /\ shorter[j - 1] = walk[j]
    BY <2>1
  <2>3. walk[j + 1] \in CustomersOf(walk[j])
    BY <1>2, <2>1
  <2>4. QED BY <2>2, <2>3
<1> HIDE DEF shorter, m
<1>6. HasDescent(m, k - 1)
  BY <1>4, <1>5 DEF HasDescent
<1>7. k - 1 <= Ranks[m]
  BY <1>1, <1>3, <1>6, RanksAreDescents
<1>8. Ranks[m] < k /\ Ranks[m] \in Nat
  BY <1>3, RanksRiseToProviders, RanksAreDescents DEF k
<1>9. Ranks[n] = Ranks[m] + 1
  BY <1>1, <1>7, <1>8 DEF k
<1>10. QED BY <1>3, <1>9

\* The graph a propagation is handed is well-formed.
LEMMA FlattenedIsWellFormed ==
  ASSUME GraphIsRead, ~HasCycle, rank = Ranks, rov \subseteq ASN
  PROVE  WellFormed(GraphView)
<1> DEFINE g == GraphView
<1>1. /\ g = [providers |-> g.providers, peers |-> g.peers, rank |-> g.rank, rov |-> g.rov]
      /\ g.providers = [n \in ASN |-> ProvidersOf(n)]
      /\ g.peers = [n \in ASN |-> PeersOf(n)]
      /\ g.rank = [n \in ASN |-> IF rank[n] < 0 THEN 0 ELSE rank[n]]
      /\ g.rov = rov
  BY DEF GraphView
<1> HIDE DEF g
<1>2. \A n \in ASN : g.providers[n] = ProvidersOf(n) /\ g.peers[n] = PeersOf(n)
  BY <1>1
<1>3. ASSUME NEW n \in ASN PROVE Customers(g, n) = CustomersOf(n)
  <2>1. ASSUME NEW m \in ASN PROVE n \in ProvidersOf(m) <=> m \in CustomersOf(n)
    <3>1. providers[m][n] = customers[n][m]
      BY DEF GraphIsRead, LinksAgree
    <3>2. QED BY <3>1 DEF ProvidersOf, CustomersOf
  <2>2. Customers(g, n) = {m \in ASN : m \in CustomersOf(n)}
    BY <1>2, <2>1 DEF Customers
  <2>3. CustomersOf(n) \subseteq ASN
    BY DEF CustomersOf
  <2>4. QED BY <2>2, <2>3
<1>4. \A n, m \in ASN : m \in CustomersOf(n) => n \in nodes /\ m \in nodes
  BY DEF GraphIsRead, CustomersOf
<1>5. ASSUME NEW n \in ASN
      PROVE  g.rank[n] = (IF n \in nodes THEN Ranks[n] ELSE 0) /\ g.rank[n] \in Nat
  <2>1. g.rank[n] = IF Ranks[n] < 0 THEN 0 ELSE Ranks[n]
    BY <1>1
  <2>2. n \in nodes => Ranks[n] \in Nat
    BY RanksAreDescents
  <2>3. n \notin nodes => Ranks[n] = -1
    BY DEF Ranks
  <2>4. QED BY <2>1, <2>2, <2>3
<1>6. g.rank \in [ASN -> Nat]
  BY <1>1, <1>5
<1>7. g.providers \in [ASN -> SUBSET ASN] /\ g.peers \in [ASN -> SUBSET ASN]
  BY <1>1 DEF ProvidersOf, PeersOf
<1>8. g \in Graph
  BY <1>1, <1>6, <1>7 DEF Graph
<1>9. \A m, n \in ASN : m \in g.peers[n] <=> n \in g.peers[m]
  <2>1. ASSUME NEW m \in ASN, NEW n \in ASN PROVE m \in PeersOf(n) <=> n \in PeersOf(m)
    <3>1. n # m => peers[n][m] = peers[m][n]
      BY DEF GraphIsRead, LinksAgree
    <3>2. QED BY <3>1 DEF PeersOf
  <2>2. QED BY <1>2, <2>1
<1>10. ASSUME NEW n \in ASN
       PROVE  /\ \A m \in Customers(g, n) : g.rank[m] < g.rank[n]
              /\ g.rank[n] > 0 => \E m \in Customers(g, n) : g.rank[n] = g.rank[m] + 1
  <2>1. ASSUME NEW m \in Customers(g, n) PROVE g.rank[m] < g.rank[n]
    <3>1. m \in CustomersOf(n) /\ m \in ASN
      BY <1>3 DEF CustomersOf
    <3>2. m \in nodes /\ n \in nodes
      BY <1>4, <3>1
    <3>3. Ranks[m] < Ranks[n]
      BY <3>1, <3>2, RanksRiseToProviders
    <3>4. QED BY <1>5, <3>1, <3>2, <3>3
  <2>2. ASSUME g.rank[n] > 0
        PROVE  \E m \in Customers(g, n) : g.rank[n] = g.rank[m] + 1
    <3>1. n \in nodes /\ Ranks[n] > 0
      BY <1>5, <2>2
    <3>2. PICK m \in nodes : m \in CustomersOf(n) /\ Ranks[n] = Ranks[m] + 1
      BY <3>1, RanksAreTight
    <3>3. m \in ASN /\ m \in Customers(g, n)
      BY <1>3, <3>2 DEF GraphIsRead
    <3>4. QED BY <1>5, <3>1, <3>2, <3>3
  <2>3. QED BY <2>1, <2>2
<1>11. WellFormed(g)
  BY <1>8, <1>9, <1>10 DEF WellFormed, Flattened
<1>12. QED BY <1>11 DEF g
-----------------------------------------------------------------------------
(***************************************************************************)
(* The graph in a whole run.                                               *)
(***************************************************************************)

\* The stages of main that come after flattenGraph.
Flat == {"deploy", "load", "seed", "propagate", "dump"}

Stages == {"build", "flatten", "calls", "done"} \cup Flat

GraphInv ==
  /\ caller \in {"main", "library"} /\ stage \in Stages
  /\ GraphIsRead
  /\ rov \subseteq ASN
  /\ stage = "build" => rank = NoRanks
  /\ stage \notin {"build", "done"} => ~HasCycle
  /\ stage \in Flat => rank = Ranks
  /\ rank # NoRanks => rank = Ranks /\ ~HasCycle

LEMMA AddResult ==
  ASSUME NEW links \in Links, NEW n \in ASN, NEW m \in ASN, NEW new, new = Add(links, n, m)
  PROVE  /\ new \in Links
         /\ \A i, j \in ASN : new[i][j] = IF i = n /\ j = m THEN links[i][j] + 1 ELSE links[i][j]
<1> DEFINE row == [links[n] EXCEPT ![m] = @ + 1]
<1>1. links[n] \in [ASN -> Nat]
  BY DEF Links
<1>2. /\ row \in [ASN -> Nat]
      /\ \A j \in ASN : row[j] = IF j = m THEN links[n][j] + 1 ELSE links[n][j]
  BY <1>1
<1>3. new = [links EXCEPT ![n] = row]
  BY DEF Add
<1> HIDE DEF row
<1>4. new \in Links
  BY <1>2, <1>3 DEF Links
<1>5. \A i \in ASN : new[i] = IF i = n THEN row ELSE links[i]
  BY <1>3 DEF Links
<1>6. QED BY <1>2, <1>4, <1>5

\* A line that is read keeps the two ends of every link in agreement.
LEMMA LineIsRead ==
  ASSUME GraphIsRead, NEW line, ParseLine(line) => AS1(line) \in ASN /\ AS2(line) \in ASN,
         ReadLine(line)
  PROVE  GraphIsRead' /\ rank' = rank
<1> DEFINE a == AS1(line)
           b == AS2(line)
<1>1. /\ nodes \subseteq ASN
      /\ providers \in Links /\ customers \in Links /\ peers \in Links
      /\ \A n, m \in ASN : providers[n][m] = customers[m][n]
      /\ \A n, m \in ASN : n # m => peers[n][m] = peers[m][n]
      /\ \A n, m \in ASN : customers[n][m] > 0 => n \in nodes /\ m \in nodes
      /\ \A n, m \in ASN : peers[n][m] > 0 => n \in nodes /\ m \in nodes
  BY DEF GraphIsRead, LinksAgree
<1>2. SUFFICES /\ nodes' \subseteq ASN
               /\ providers' \in Links /\ customers' \in Links /\ peers' \in Links
               /\ \A n, m \in ASN : providers'[n][m] = customers'[m][n]
               /\ \A n, m \in ASN : n # m => peers'[n][m] = peers'[m][n]
               /\ \A n, m \in ASN : customers'[n][m] > 0 => n \in nodes' /\ m \in nodes'
               /\ \A n, m \in ASN : peers'[n][m] > 0 => n \in nodes' /\ m \in nodes'
               /\ rank' = rank
  BY DEF GraphIsRead, LinksAgree
<1>3. CASE SkipLine(line)
  BY <1>1, <1>3 DEF SkipLine, graphVars
<1>4. CASE AddCustomerLink(line)
  <2>1. /\ a \in ASN /\ b \in ASN
        /\ nodes' = nodes \cup {a, b}
        /\ customers' = Add(customers, a, b) /\ providers' = Add(providers, b, a)
        /\ peers' = peers /\ rank' = rank
    BY <1>4 DEF AddCustomerLink, CreateNodes
  <2> HIDE DEF a, b
  <2>0. customers \in Links /\ providers \in Links /\ a \in ASN /\ b \in ASN
    BY <1>1, <2>1
  <2> DEFINE down == Add(customers, a, b)
             up == Add(providers, b, a)
  <2>2. /\ down \in Links
        /\ \A i, j \in ASN :
             down[i][j] = IF i = a /\ j = b THEN customers[i][j] + 1 ELSE customers[i][j]
    BY <2>0, AddResult
  <2>3. /\ up \in Links
        /\ \A i, j \in ASN :
             up[i][j] = IF i = b /\ j = a THEN providers[i][j] + 1 ELSE providers[i][j]
    BY <2>0, AddResult
  <2>4. customers' = down /\ providers' = up
    BY <2>1
  <2> HIDE DEF down, up
  <2>5. \A n, m \in ASN : up[n][m] = down[m][n]
    BY <1>1, <2>2, <2>3
  <2>6. \A n, m \in ASN : down[n][m] > 0 => n \in nodes' /\ m \in nodes'
    BY <1>1, <2>1, <2>2
  <2>7. QED BY <1>1, <2>1, <2>2, <2>3, <2>4, <2>5, <2>6
<1>5. CASE AddPeerLink(line)
  <2>1. /\ a \in ASN /\ b \in ASN
        /\ nodes' = nodes \cup {a, b}
        /\ peers' = Add(Add(peers, a, b), b, a)
        /\ providers' = providers /\ customers' = customers /\ rank' = rank
    BY <1>5 DEF AddPeerLink, CreateNodes
  <2> HIDE DEF a, b
  <2> DEFINE half == Add(peers, a, b)
  <2>2. /\ half \in Links
        /\ \A i, j \in ASN :
             half[i][j] = IF i = a /\ j = b THEN peers[i][j] + 1 ELSE peers[i][j]
    BY <1>1, <2>1, AddResult
  <2> DEFINE full == Add(half, b, a)
  <2>3. peers' = full
    BY <2>1
  <2> HIDE DEF half
  <2>4. /\ full \in Links
        /\ \A i, j \in ASN :
             full[i][j] = IF i = b /\ j = a THEN half[i][j] + 1 ELSE half[i][j]
    BY <2>1, <2>2, AddResult
  <2> HIDE DEF full
  <2>5. ASSUME NEW n \in ASN, NEW m \in ASN, n # m PROVE full[n][m] = full[m][n]
    <3>1. /\ peers[n][m] = peers[m][n] /\ peers[n][m] \in Nat
          /\ full[n][m] \in Nat /\ full[m][n] \in Nat
      BY <1>1, <2>4, <2>5 DEF Links
    <3>2. QED BY <2>2, <2>4, <2>5, <3>1
  <2>6. \A n, m \in ASN : full[n][m] > 0 => n \in nodes' /\ m \in nodes'
    BY <1>1, <2>1, <2>2, <2>4
  <2>7. QED BY <1>1, <2>1, <2>3, <2>4, <2>5, <2>6
<1>6. CASE IgnoreLink(line)
  <2>1. /\ a \in ASN /\ b \in ASN
        /\ nodes' = nodes \cup {a, b}
        /\ providers' = providers /\ customers' = customers /\ peers' = peers /\ rank' = rank
    BY <1>6 DEF IgnoreLink, CreateNodes
  <2> HIDE DEF a, b
  <2>2. QED BY <1>1, <2>1
<1>7. QED BY <1>3, <1>4, <1>5, <1>6 DEF ReadLine

LEMMA SameGraph ==
  ASSUME UNCHANGED <<nodes, providers, customers, peers>>
  PROVE  /\ GraphIsRead' <=> GraphIsRead
         /\ HasCycle' <=> HasCycle
         /\ Ranks' = Ranks
         /\ \A n \in ASN : PeersOf(n)' = PeersOf(n)
<1>1. \A n : CustomersOf(n)' = CustomersOf(n)
  BY DEF CustomersOf
<1>2. HasCycle' <=> HasCycle
  BY <1>1 DEF HasCycle
<1>3. GraphIsRead' <=> GraphIsRead
  BY DEF GraphIsRead, LinksAgree
<1>4. \A n, k : HasDescent(n, k)' <=> HasDescent(n, k)
  BY DEF HasDescent, CustomersOf
<1>5. \A n : Descents(n)' = Descents(n)
  BY <1>4 DEF Descents
<1>6. Ranks' = Ranks
  BY <1>5 DEF Ranks
<1>7. QED BY <1>2, <1>3, <1>6 DEF PeersOf

\* The steps that leave the graph alone.
LEMMA GraphStays ==
  ASSUME GraphInv, UNCHANGED graphVars, rov' \subseteq ASN, caller' = caller,
         \/ stage' \in {stage, "done"}
         \/ stage = "build" /\ ~HasCycle /\ stage' \in {"flatten", "calls"}
         \/ stage \in Flat /\ stage' \in Flat
  PROVE  GraphInv'
<1>1. /\ nodes' = nodes /\ providers' = providers /\ customers' = customers
      /\ peers' = peers /\ rank' = rank
  BY DEF graphVars
<1>2. (GraphIsRead' <=> GraphIsRead) /\ (HasCycle' <=> HasCycle) /\ Ranks' = Ranks
  BY <1>1, SameGraph
<1>3. NoRanks' = NoRanks
  BY DEF NoRanks
<1>4. QED BY <1>1, <1>2, <1>3 DEF GraphInv, Stages, Flat

LEMMA GraphIsFlattened ==
  ASSUME GraphInv, FlattenGraph, rov' = rov, caller' = caller,
         \/ stage = "flatten" /\ stage' = "deploy"
         \/ stage = "calls" /\ stage' = "calls"
  PROVE  GraphInv'
<1>1. /\ nodes' = nodes /\ providers' = providers /\ customers' = customers
      /\ peers' = peers /\ rank' = Ranks
  BY DEF FlattenGraph, Ranks, Descents
<1>2. (GraphIsRead' <=> GraphIsRead) /\ (HasCycle' <=> HasCycle) /\ Ranks' = Ranks
  BY <1>1, SameGraph
<1>3. QED BY <1>1, <1>2 DEF GraphInv, Stages, Flat

LEMMA StartsEmpty == Init => GraphInv
<1> SUFFICES ASSUME Init PROVE GraphInv
  OBVIOUS
<1>1. /\ nodes = {} /\ providers = NoLinks /\ customers = NoLinks /\ peers = NoLinks
      /\ rank = NoRanks /\ rov = {} /\ stage = "build" /\ caller \in {"main", "library"}
  BY DEF Init, EmptyGraph, NoRanks
<1>2. NoLinks \in Links /\ \A n, m \in ASN : NoLinks[n][m] = 0
  BY DEF NoLinks, Links
<1>3. GraphIsRead
  BY <1>1, <1>2 DEF GraphIsRead, LinksAgree
<1>4. QED BY <1>1, <1>3 DEF GraphInv, Stages, Flat

\* What each step does to the stage and to the graph.
LEMMA StageOrder ==
  ASSUME Next
  PROVE  \/ ReadFile
         \/ MainFlattens \/ LibraryFlattens
         \/ /\ UNCHANGED graphVars /\ caller' = caller
            /\ \/ UNCHANGED rov
               \/ rov' \subseteq rov \cup nodes
            /\ \/ stage' \in {stage, "done"}
               \/ stage = "build" /\ ~HasCycle /\ stage' \in {"flatten", "calls"}
               \/ stage \in Flat /\ stage' \in Flat
<1> USE DEF Flat
<1>1. CASE ReadFile
  BY <1>1
<1>2. CASE FileUnreadable
  BY <1>2 DEF FileUnreadable, Return, routeVars
<1>3. CASE RefuseGraph
  BY <1>3 DEF RefuseGraph, Return, routeVars
<1>4. CASE AcceptGraph
  BY <1>4 DEF AcceptGraph, Following, routeVars
<1>5. CASE MainFlattens
  BY <1>5
<1>6. CASE MainDeploys
  BY <1>6 DEF MainDeploys, Enter, Following, DeployROV, SetROV
<1>7. CASE MainLoads
  BY <1>7 DEF MainLoads, Enter, Following, routeVars
<1>8. CASE NothingToAnnounce
  BY <1>8 DEF NothingToAnnounce, Return, routeVars
<1>9. CASE MainSeeds
  BY <1>9 DEF MainSeeds, SeedAnnouncement, routeVars
<1>10. CASE MainHasSeeded
  BY <1>10 DEF MainHasSeeded, Enter, Following, routeVars
<1>11. CASE MainPropagates
  BY <1>11 DEF MainPropagates, Enter, Following, Becomes
<1>12. CASE MainDumps
  BY <1>12 DEF MainDumps, Return, routeVars
<1>13. CASE LibraryFlattens
  BY <1>13
<1>14. CASE LibraryDeploys
  BY <1>14 DEF LibraryDeploys, Call, DeployROV, SetROV
<1>15. CASE LibrarySeeds
  BY <1>15 DEF LibrarySeeds, Call, SeedAnnouncement
<1>16. CASE LibraryPropagatesUp
  BY <1>16 DEF LibraryPropagatesUp, Call, Becomes
<1>17. CASE LibraryPropagatesAcross
  BY <1>17 DEF LibraryPropagatesAcross, Call
<1>18. CASE LibraryPropagatesDown
  BY <1>18 DEF LibraryPropagatesDown, Call, Becomes
<1>19. CASE LibraryPropagatesAll
  BY <1>19 DEF LibraryPropagatesAll, Call, Becomes
<1>20. QED
  BY <1>1, <1>2, <1>3, <1>4, <1>5, <1>6, <1>7, <1>8, <1>9, <1>10, <1>11, <1>12, <1>13, <1>14,
     <1>15, <1>16, <1>17, <1>18, <1>19 DEF Next

LEMMA GraphStep == GraphInv /\ [Next]_vars => GraphInv'
<1> SUFFICES ASSUME GraphInv, [Next]_vars PROVE GraphInv'
  OBVIOUS
<1>1. CASE UNCHANGED vars
  <2>1. UNCHANGED graphVars /\ rov' = rov /\ caller' = caller /\ stage' = stage
    BY <1>1 DEF vars, routeVars
  <2>2. rov' \subseteq ASN
    BY <2>1 DEF GraphInv
  <2>3. QED BY <2>1, <2>2, GraphStays
<1>2. CASE ReadFile
  <2>1. PICK line \in Lines[caller] : ReadLine(line)
    BY <1>2 DEF ReadFile
  <2>2. caller \in {"main", "library"} /\ GraphIsRead /\ rank = NoRanks
    BY <1>2 DEF GraphInv, ReadFile
  <2>3. ParseLine(line) => AS1(line) \in ASN /\ AS2(line) \in ASN
    BY <2>1, <2>2, FilesAssumption
  <2>4. GraphIsRead' /\ rank' = rank
    BY <2>1, <2>2, <2>3, LineIsRead
  <2>5. caller' = caller /\ stage' = stage /\ rov' = rov /\ stage = "build"
    BY <1>2 DEF ReadFile, routeVars
  <2>6. NoRanks' = NoRanks
    BY DEF NoRanks
  <2>7. QED BY <2>2, <2>4, <2>5, <2>6 DEF GraphInv, Stages, Flat
<1>3. CASE MainFlattens
  <2>1. /\ FlattenGraph /\ rov' = rov /\ caller' = caller
        /\ stage = "flatten" /\ stage' = "deploy"
    BY <1>3 DEF MainFlattens, Enter, Following, routeVars
  <2>2. QED BY <2>1, GraphIsFlattened
<1>4. CASE LibraryFlattens
  <2>1. /\ FlattenGraph /\ rov' = rov /\ caller' = caller
        /\ stage = "calls" /\ stage' = "calls"
    BY <1>4 DEF LibraryFlattens, Call, routeVars
  <2>2. QED BY <2>1, GraphIsFlattened
<1>5. CASE /\ UNCHANGED graphVars /\ caller' = caller
           /\ \/ UNCHANGED rov
              \/ rov' \subseteq rov \cup nodes
           /\ \/ stage' \in {stage, "done"}
              \/ stage = "build" /\ ~HasCycle /\ stage' \in {"flatten", "calls"}
              \/ stage \in Flat /\ stage' \in Flat
  <2>1. rov' \subseteq ASN
    BY <1>5 DEF GraphInv, GraphIsRead
  <2>2. QED BY <1>5, <2>1, GraphStays
<1>6. QED BY <1>1, <1>2, <1>3, <1>4, <1>5, StageOrder

\* The links stay in pairs and the ranks, once given, those of the graph
\* (as_graph.cpp:281-292, main.cpp:299-313).
THEOREM GraphInvariant == Spec => []GraphInv
<1>1. QED BY StartsEmpty, GraphStep, PTL DEF Spec

\* Wherever ranks are used the graph is well-formed.
LEMMA RankedIsWellFormed ==
  ASSUME GraphInv
  PROVE  Ranked => WellFormed(GraphView)
<1>1. \A n \in nodes : NoRanks[n] = -1
  BY DEF GraphInv, GraphIsRead, NoRanks
<1>2. Ranked => rank # NoRanks
  BY <1>1 DEF Ranked
<1>3. rank # NoRanks => WellFormed(GraphView)
  BY FlattenedIsWellFormed DEF GraphInv
<1>4. QED BY <1>2, <1>3

\* What main hands to propagateAll is what the proofs about it assume of a graph
\* (main.cpp:299-313): links in pairs, no cycles, providers above customers.
THEOREM MainHandsOnAGraph == Spec => []MainPropagatesWellFormed
<1>1. GraphInv => MainPropagatesWellFormed
  <2>1. SUFFICES ASSUME GraphInv, stage = "propagate" PROVE WellFormed(GraphView) /\ LinksAgree
    BY DEF MainPropagatesWellFormed
  <2>2. GraphIsRead /\ ~HasCycle /\ rank = Ranks /\ rov \subseteq ASN
    BY <2>1 DEF GraphInv, Flat
  <2>3. WellFormed(GraphView)
    BY <2>2, FlattenedIsWellFormed
  <2>4. QED BY <2>2, <2>3 DEF GraphIsRead
<1>2. QED BY <1>1, GraphInvariant, PTL
-----------------------------------------------------------------------------
(***************************************************************************)
(* The routes in a whole run: between two calls nothing waits, and every   *)
(* table is what its AS may hold.                                          *)
(***************************************************************************)

RouteInv ==
  /\ Routes \in States(GraphView, origins)
  /\ NothingWaits
  /\ origins \subseteq ASN
  /\ stage = "build" => rov = {} /\ origins = {}

LEMMA RouteParts ==
  /\ Routes.tables = tables /\ Routes.queues = queues
  /\ GraphView.rov = rov /\ GraphView.peers = [n \in ASN |-> PeersOf(n)]
BY DEF Routes, GraphView

LEMMA SamePeers ==
  ASSUME peers' = peers
  PROVE  GraphView'.peers = GraphView.peers
<1>1. \A n : PeersOf(n)' = PeersOf(n)
  BY DEF PeersOf
<1>2. QED BY <1>1 DEF GraphView

\* What RouteInv says, AS by AS.
LEMMA RoutesAreGood ==
  ASSUME RouteInv
  PROVE  /\ tables \in [ASN -> Table]
         /\ \A n \in ASN : /\ tables[n] \in Table
                           /\ GoodTable(GraphView, origins, n, tables[n])
                           /\ queues[n] = <<>>
<1>1. Routes \in States(GraphView, origins) /\ \A n \in ASN : queues[n] = <<>>
  BY DEF RouteInv, NothingWaits
<1>2. Routes.tables = tables
  BY RouteParts
<1>3. /\ Routes.tables \in [ASN -> Table]
      /\ \A n \in ASN : /\ Routes.tables[n] \in Table
                        /\ GoodTable(GraphView, origins, n, Routes.tables[n])
  BY <1>1, StateParts
<1>4. QED BY <1>1, <1>2, <1>3

\* The other direction, for the state after a step that fills no queue.
LEMMA GoodRoutes ==
  ASSUME RouteInv, queues' = queues, tables' \in [ASN -> Table],
         \A n \in ASN : GoodTable(GraphView', origins', n, tables'[n]),
         origins' \subseteq ASN, stage' = "build" => rov' = {} /\ origins' = {}
  PROVE  RouteInv'
<1>1. queues \in [ASN -> Seq(Announcement)] /\ \A n \in ASN : queues[n] = <<>>
  <2>1. Routes \in States(GraphView, origins) /\ Routes.queues = queues
    BY RouteParts DEF RouteInv
  <2>2. Routes.queues \in [ASN -> Seq(Announcement)]
    BY <2>1, StateParts
  <2>3. QED BY <2>1, <2>2 DEF RouteInv, NothingWaits
<1>2. \A n \in ASN : queues'[n] = <<>>
  BY <1>1
<1> DEFINE g == GraphView'
           own == origins'
           tabs == tables'
           qs == queues'
<1>3. /\ tabs \in [ASN -> Table] /\ qs \in [ASN -> Seq(Announcement)]
      /\ \A n \in ASN : GoodTable(g, own, n, tabs[n]) /\ GoodQueue(g, n, qs[n])
  BY <1>1, <1>2, EmptyQueueIsGood
<1> HIDE DEF g, own, tabs, qs
<1>4. [tables |-> tabs, queues |-> qs] \in States(g, own)
  BY <1>3, MakeState
<1>5. Routes' \in States(g, own)
  BY <1>4 DEF Routes, tabs, qs
<1>6. Routes' \in States(GraphView', origins')
  BY <1>5 DEF g, own
<1>7. (Routes \in States(GraphView, origins))'
  BY <1>6 DEF States, GoodTable, GoodQueue, GoodMessage
<1>8. QED BY <1>2, <1>7 DEF RouteInv, NothingWaits

LEMMA StartsGood == Init => RouteInv
<1> SUFFICES ASSUME Init PROVE RouteInv
  OBVIOUS
<1>1. /\ tables = [n \in ASN |-> EmptyTable] /\ queues = [n \in ASN |-> <<>>]
      /\ rov = {} /\ origins = {}
  BY DEF Init
<1>2. ASSUME NEW n \in ASN
      PROVE  /\ tables[n] \in Table /\ GoodTable(GraphView, origins, n, tables[n])
             /\ queues[n] \in Seq(Announcement) /\ GoodQueue(GraphView, n, queues[n])
  <2>1. n \notin origins /\ tables[n] = EmptyTable /\ queues[n] = <<>>
    BY <1>1
  <2>2. EmptyTable \in Table /\ GoodTable(GraphView, origins, n, EmptyTable)
    BY <2>1, EmptyIsGood
  <2>3. <<>> \in Seq(Announcement) /\ GoodQueue(GraphView, n, <<>>)
    BY EmptyQueueIsGood
  <2>4. QED BY <2>1, <2>2, <2>3
<1>3. tables \in [ASN -> Table] /\ queues \in [ASN -> Seq(Announcement)]
  <2>1. tables = [n \in ASN |-> tables[n]] /\ queues = [n \in ASN |-> queues[n]]
    BY <1>1
  <2>2. QED BY <1>2, <2>1
<1>4. Routes \in States(GraphView, origins)
  BY <1>2, <1>3, MakeState DEF Routes
<1>5. \A n \in ASN : queues[n] = <<>>
  BY <1>1
<1>6. QED BY <1>1, <1>4, <1>5 DEF RouteInv, NothingWaits

\* The reader changes the graph while there are no routes; the other steps that
\* leave the routes alone leave the peers alone, too.
LEMMA RoutesStay ==
  ASSUME RouteInv, UNCHANGED routeVars, stage' = "build" => stage = "build",
         stage = "build" \/ peers' = peers
  PROVE  RouteInv'
<1>1. rov' = rov /\ tables' = tables /\ queues' = queues /\ origins' = origins
  BY DEF routeVars
<1>2. GraphView.rov = rov /\ GraphView'.rov = rov'
  BY DEF GraphView
<1>3. ASSUME NEW n \in ASN PROVE GoodTable(GraphView', origins', n, tables'[n])
  <2>1. GoodTable(GraphView, origins, n, tables[n])
    BY RoutesAreGood
  <2>2. CASE stage = "build"
    <3>1. origins' = {}
      BY <1>1, <2>2 DEF RouteInv
    <3>2. QED BY <1>1, <1>2, <2>1, <3>1 DEF GoodTable
  <2>3. CASE peers' = peers
    <3>1. GraphView'.peers = GraphView.peers
      BY <2>3, SamePeers
    <3>2. QED BY <1>1, <1>2, <2>1, <3>1 DEF GoodTable
  <2>4. QED BY <2>2, <2>3
<1>4. tables' \in [ASN -> Table]
  BY <1>1, RoutesAreGood
<1>5. /\ origins' \subseteq ASN /\ queues' = queues
      /\ stage' = "build" => rov' = {} /\ origins' = {}
  BY <1>1 DEF RouteInv
<1>6. QED BY <1>3, <1>4, <1>5, GoodRoutes

\* setPolicy: new policies have no routes, and filter.
LEMMA DeployingIsGood ==
  ASSUME RouteInv, NEW ases, SetROV(ases), peers' = peers, stage' # "build"
  PROVE  RouteInv'
<1>1. /\ rov' = rov \cup ases /\ origins' = origins \ ases /\ queues' = queues
      /\ \A n \in ASN : tables'[n] = IF n \in ases THEN EmptyTable ELSE tables[n]
      /\ tables' = [n \in ASN |-> tables'[n]]
  BY DEF SetROV
<1>2. GraphView.rov = rov /\ GraphView'.rov = rov'
  BY DEF GraphView
<1>3. GraphView'.peers = GraphView.peers
  BY SamePeers
<1>4. ASSUME NEW n \in ASN
      PROVE  tables'[n] \in Table /\ GoodTable(GraphView', origins', n, tables'[n])
  <2>1. CASE n \in ases
    <3>1. n \notin origins' /\ tables'[n] = EmptyTable
      BY <1>1, <2>1
    <3>2. EmptyTable \in Table /\ GoodTable(GraphView', origins', n, EmptyTable)
      BY <3>1, EmptyIsGood
    <3>3. QED BY <3>1, <3>2
  <2>2. CASE n \notin ases
    <3>1. tables'[n] = tables[n] /\ (n \in rov' <=> n \in rov) /\ (n \in origins' <=> n \in origins)
      BY <1>1, <2>2
    <3>2. tables[n] \in Table /\ GoodTable(GraphView, origins, n, tables[n])
      BY RoutesAreGood
    <3>3. QED BY <1>2, <1>3, <3>1, <3>2 DEF GoodTable
  <2>3. QED BY <2>1, <2>2
<1>5. tables' \in [ASN -> Table]
  BY <1>1, <1>4
<1>6. origins' \subseteq ASN
  BY <1>1 DEF RouteInv
<1>7. QED BY <1>1, <1>4, <1>5, <1>6, GoodRoutes

\* seedAnnouncement, at one AS.
LEMMA SeedingIsGood ==
  ASSUME RouteInv, NEW n \in ASN, NEW invalid \in BOOLEAN, SeedAnnouncement(n, invalid),
         peers' = peers, stage' # "build"
  PROVE  RouteInv'
<1> DEFINE ann == MakeAnnouncement(<<n>>, n, "ORIGIN", invalid)
           table == tables[n]
           new == Receive(table, ann)
           filtered == n \in rov /\ invalid
<1>1. /\ ann \in Announcement /\ ann.received_from = "ORIGIN" /\ ann.path = <<n>>
      /\ ann.next_hop = n /\ ann.rov_invalid = invalid
  <2>1. <<n>> \in Path
    BY MaxPathLenAssumption DEF Path
  <2>2. QED BY <2>1 DEF MakeAnnouncement, Announcement, Relationship
<1>2. /\ rov' = rov /\ queues' = queues
      /\ origins' = IF filtered THEN origins ELSE origins \cup {n}
      /\ tables' = [tables EXCEPT ![n] = Admit(GraphView, n, table, ann)]
  BY DEF SeedAnnouncement
<1>3. GraphView.rov = rov /\ GraphView'.rov = rov' /\ GraphView'.peers = GraphView.peers
  BY SamePeers DEF GraphView
<1>4. tables \in [ASN -> Table] /\ table \in Table /\ GoodTable(GraphView, origins, n, table)
  BY RoutesAreGood
<1>5. Admit(GraphView, n, table, ann) = IF filtered THEN table ELSE new
  BY <1>1, <1>3 DEF Admit
<1> HIDE DEF ann
<1>6. ~filtered => new \in Table /\ GoodTable(GraphView, origins \cup {n}, n, new)
  <2>1. SUFFICES ASSUME ~filtered
                 PROVE  new \in Table /\ GoodTable(GraphView, origins \cup {n}, n, new)
    OBVIOUS
  <2>2. n \in GraphView.rov => ~ann.rov_invalid
    BY <1>1, <1>3, <2>1
  <2>3. QED BY <1>1, <1>4, <2>2, ReceiveIsGood
<1> DEFINE held == IF filtered THEN table ELSE new
<1>7. held \in Table /\ GoodTable(GraphView, origins', n, held)
  BY <1>2, <1>4, <1>6
<1>8. \A m \in ASN : tables'[m] = IF m = n THEN held ELSE tables[m]
  BY <1>2, <1>4, <1>5
<1> HIDE DEF held, table, new
<1>9. ASSUME NEW m \in ASN PROVE tables'[m] \in Table /\ GoodTable(GraphView', origins', m, tables'[m])
  <2>1. CASE m = n
    BY <1>2, <1>3, <1>7, <1>8, <2>1 DEF GoodTable
  <2>2. CASE m # n
    <3>1. tables'[m] = tables[m] /\ (m \in origins' <=> m \in origins)
      BY <1>2, <1>8, <2>2
    <3>2. tables[m] \in Table /\ GoodTable(GraphView, origins, m, tables[m])
      BY RoutesAreGood
    <3>3. QED BY <1>2, <1>3, <3>1, <3>2 DEF GoodTable
  <2>3. QED BY <2>1, <2>2
<1>10. tables' \in [ASN -> Table]
  <2>1. tables' = [m \in ASN |-> tables'[m]]
    BY <1>2, <1>4
  <2>2. QED BY <1>9, <2>1
<1>11. origins' \subseteq ASN
  BY <1>2 DEF RouteInv
<1>12. QED BY <1>2, <1>9, <1>10, <1>11, GoodRoutes

\* A propagation, whichever it is, ends in a state like the one it started in.
LEMMA PropagatingIsGood ==
  ASSUME RouteInv, NEW s \in States(GraphView, origins), Nothing(s),
         tables' = s.tables, queues' = s.queues, UNCHANGED <<rov, origins, peers>>,
         stage' # "build"
  PROVE  RouteInv'
<1>1. /\ s.tables \in [ASN -> Table] /\ s.queues \in [ASN -> Seq(Announcement)]
      /\ \A n \in ASN : GoodTable(GraphView, origins, n, s.tables[n]) /\ s.queues[n] = <<>>
  BY StateParts DEF Nothing
<1>2. GraphView'.rov = GraphView.rov /\ GraphView'.peers = GraphView.peers
  BY SamePeers DEF GraphView
<1>3. \A n \in ASN : GoodTable(GraphView', origins', n, tables'[n])
  BY <1>1, <1>2 DEF GoodTable
<1>4. queues' = queues
  <2>1. Routes \in States(GraphView, origins) /\ Routes.queues = queues
    BY RouteParts DEF RouteInv
  <2>2. queues \in [ASN -> Seq(Announcement)]
    BY <2>1, StateParts
  <2>3. \A n \in ASN : queues[n] = s.queues[n]
    BY <1>1, RoutesAreGood
  <2>4. QED BY <1>1, <2>2, <2>3, SameFunction
<1>5. origins' \subseteq ASN
  BY DEF RouteInv
<1>6. QED BY <1>1, <1>3, <1>4, <1>5, GoodRoutes
-----------------------------------------------------------------------------
(***************************************************************************)
(* The announcements main loads, seeds and writes.                         *)
(***************************************************************************)

RecordList(list) ==
  /\ Len(list) \in Nat /\ DOMAIN list = 1..Len(list)
  /\ \A k \in DOMAIN list : list[k].rov_invalid \in BOOLEAN

\* Every record up to this one whose route its AS keeps.
SeededBefore(k) ==
  \A j \in 1..(k - 1) :
    Announceable(records[j]) /\ ~(records[j].asn \in rov /\ records[j].rov_invalid)
      => records[j].asn \in origins

RecordInv ==
  /\ RecordList(records) /\ next \in Nat \ {0}
  /\ stage \in {"build", "flatten", "deploy", "load", "calls"} => next = 1
  /\ SeededBefore(next)
  /\ stage \in {"propagate", "dump"} => next > Len(records)
  /\ output # {} => stage = "done" /\ next > Len(records) /\ output = {Rows}

LEMMA ParsedIsList ==
  ASSUME NEW file, Len(file) \in Nat
  PROVE  RecordList(ParseAnnouncementsCsv(file))
<1> DEFINE record(k) == [asn |-> file[k].asn % ASNSpace,
                         prefix |-> file[k].prefix,
                         rov_invalid |-> IsTrue(file[k].flag)]
           T == {record(k) : k \in 1..Len(file)}
           S == Seq(T)
           After(r, k) == IF IsData(file[k]) THEN Append(r, record(k)) ELSE r
           Step == [k \in 1..Len(file) |-> [r \in S |-> After(r, k)]]
           Says(f) == f = [k \in 0..Len(file) |->
                             IF k = 0 THEN <<>>
                             ELSE IF IsData(file[k]) THEN Append(f[k - 1], record(k))
                             ELSE f[k - 1]]
           read == CHOOSE f : Says(f)
<1>1. ParseAnnouncementsCsv(file) = read[Len(file)]
  BY DEF ParseAnnouncementsCsv
<1>2. \A r \in T : r.rov_invalid \in BOOLEAN
  <2>1. SUFFICES ASSUME NEW k \in 1..Len(file) PROVE record(k).rov_invalid \in BOOLEAN
    OBVIOUS
  <2>2. record(k).rov_invalid = IsTrue(file[k].flag)
    OBVIOUS
  <2>3. IsTrue(file[k].flag) \in BOOLEAN
    BY SMT DEF IsTrue
  <2>4. QED BY <2>2, <2>3, Zenon
<1>3. \A k \in 1..Len(file) : record(k) \in T
  OBVIOUS
<1> HIDE DEF record, T
<1>4. <<>> \in S
  OBVIOUS
<1>5. \A r \in S, k \in 1..Len(file) : After(r, k) \in S
  BY <1>3
<1> HIDE DEF S
<1>6. /\ Step \in [1..Len(file) -> [S -> S]]
      /\ \A k \in 1..Len(file), r \in S : Step[k][r] = After(r, k)
  <2> HIDE DEF After
  <2>1. QED BY <1>5
<1> HIDE DEF Step
<1>7. PICK f \in [0..Len(file) -> S] : Rounds(f, <<>>, Step, Len(file))
  BY <1>4, <1>6, LoopRuns
<1>8. Says(f)
  <2>1. ASSUME NEW k \in 0..Len(file)
        PROVE  f[k] = IF k = 0 THEN <<>> ELSE After(f[k - 1], k)
    <3>1. CASE k = 0
      BY <1>7, <3>1 DEF Rounds
    <3>2. CASE k # 0
      <4>1. k \in 1..Len(file) /\ k - 1 \in 0..Len(file)
        BY <3>2
      <4>2. f[k - 1] \in S
        BY <4>1
      <4> HIDE DEF After
      <4>3. QED BY <1>6, <1>7, <3>2, <4>1, <4>2 DEF Rounds
    <3>3. QED BY <3>1, <3>2
  <2>2. f = [k \in 0..Len(file) |-> f[k]]
    OBVIOUS
  <2>3. QED BY <2>1, <2>2
<1>9. Says(read)
  <2> HIDE DEF Says
  <2>1. QED BY <1>8
<1> HIDE DEF read
<1>10. read[0] = <<>> /\ \A k \in 1..Len(file) : read[k] = After(read[k - 1], k)
  <2>1. 0 \in 0..Len(file) /\ \A k \in 1..Len(file) : k \in 0..Len(file) /\ k # 0
    OBVIOUS
  <2>2. QED BY <1>9, <2>1
<1>11. \A k \in 0..Len(file) : read[k] \in S
  <2> HIDE DEF After
  <2>1. \A k \in 1..Len(file) : read[k - 1] \in S => read[k] = Step[k][read[k - 1]]
    BY <1>6, <1>10
  <2>2. QED BY <1>4, <1>6, <1>10, <2>1, LoopStays
<1>12. read[Len(file)] \in S
  BY <1>11
<1>13. QED BY <1>1, <1>2, <1>12 DEF S, RecordList

LEMMA StartsUnread == Init => RecordInv
<1> SUFFICES ASSUME Init PROVE RecordInv
  OBVIOUS
<1>1. stage = "build" /\ records = <<>> /\ next = 1 /\ output = {}
  BY DEF Init
<1>2. RecordList(<<>>)
  BY DEF RecordList
<1>3. QED BY <1>1, <1>2 DEF RecordInv, SeededBefore

\* Before anything is seeded the graph and the policies may change.
LEMMA NothingSeeded ==
  ASSUME RecordInv, records' = records, next' = next, output' = output,
         stage \in {"build", "flatten", "deploy", "calls"},
         stage' \notin {"propagate", "dump"}
  PROVE  RecordInv'
<1>1. next' = 1 /\ output' = {} /\ RecordList(records')
  BY DEF RecordInv
<1>2. QED BY <1>1 DEF RecordInv, SeededBefore

\* The steps of main from the seeding on.
LEMMA SameSeeds ==
  ASSUME RecordInv, records' = records, next' = next, nodes' = nodes,
         rov' = rov, origins' = origins
  PROVE  SeededBefore(next)' /\ RecordList(records')
BY DEF RecordInv, SeededBefore, Announceable

LEMMA RecordStep == RecordInv /\ [Next]_vars => RecordInv'
<1> SUFFICES ASSUME RecordInv, [Next]_vars PROVE RecordInv'
  OBVIOUS
<1>1. CASE UNCHANGED vars
  <2>1. /\ UNCHANGED <<stage, records, next, output, nodes, rov, origins, tables>>
    BY <1>1 DEF vars, graphVars, routeVars, mainVars
  <2>2. SeededBefore(next)' /\ RecordList(records')
    BY <2>1, SameSeeds
  <2>3. Rows' = Rows
    BY <2>1 DEF Rows
  <2>4. QED BY <2>1, <2>2, <2>3 DEF RecordInv
<1>2. CASE ReadFile
  BY <1>2, NothingSeeded DEF ReadFile, mainVars
<1>3. CASE FileUnreadable
  BY <1>3, NothingSeeded DEF FileUnreadable, Return
<1>4. CASE RefuseGraph
  BY <1>4, NothingSeeded DEF RefuseGraph, Return
<1>5. CASE AcceptGraph
  BY <1>5, NothingSeeded DEF AcceptGraph, Following, mainVars
<1>6. CASE MainFlattens
  BY <1>6, NothingSeeded DEF MainFlattens, Enter, Following, mainVars
<1>7. CASE MainDeploys
  BY <1>7, NothingSeeded DEF MainDeploys, Enter, Following, mainVars
<1>8. CASE MainLoads
  <2>1. PICK file \in RecordFiles : records' = ParseAnnouncementsCsv(file)
    BY <1>8 DEF MainLoads
  <2>2. RecordList(records')
    BY <2>1, ParsedIsList, FilesAssumption
  <2>3. stage = "load" /\ stage' = "seed" /\ next' = next /\ output' = output
    BY <1>8 DEF MainLoads, Enter, Following
  <2>4. next' = 1 /\ output' = {}
    BY <2>3 DEF RecordInv
  <2>5. QED BY <2>2, <2>3, <2>4 DEF RecordInv, SeededBefore
<1>9. CASE NothingToAnnounce
  <2>1. /\ stage = "load" /\ stage' = "done" /\ output' = output /\ next' = next
        /\ UNCHANGED <<records, nodes, rov, origins>>
    BY <1>9 DEF NothingToAnnounce, Return, graphVars, routeVars
  <2>2. SeededBefore(next)' /\ RecordList(records')
    BY <2>1, SameSeeds
  <2>3. QED BY <2>1, <2>2 DEF RecordInv
<1>10. CASE MainSeeds
  <2>1. /\ stage = "seed" /\ stage' = stage /\ next <= Len(records)
        /\ next' = next + 1 /\ UNCHANGED <<nodes, records, output>> /\ output' = output
    BY <1>10 DEF MainSeeds, graphVars
  <2>2. next \in Nat \ {0} /\ output = {} /\ RecordList(records) /\ SeededBefore(next)
    BY <2>1 DEF RecordInv
  <2> DEFINE record == records[next]
             n == record.asn
             kept == ~(n \in rov /\ record.rov_invalid)
  <2>3. /\ rov' = rov /\ origins \subseteq origins'
        /\ Announceable(record) /\ kept => n \in origins'
    BY <1>10 DEF MainSeeds, SeedAnnouncement, routeVars
  <2>4. ASSUME NEW j \in 1..(next' - 1), Announceable(records[j])',
               ~(records'[j].asn \in rov' /\ records'[j].rov_invalid)
        PROVE  records'[j].asn \in origins'
    <3>1. records'[j] = records[j] /\ Announceable(records[j])
      BY <2>1, <2>4 DEF Announceable
    <3>2. CASE j = next
      BY <2>3, <2>4, <3>1, <3>2
    <3>3. CASE j # next
      <4>1. j \in 1..(next - 1)
        BY <2>1, <2>2, <3>3
      <4>2. QED BY <2>2, <2>3, <2>4, <3>1, <4>1 DEF SeededBefore
    <3>4. QED BY <3>2, <3>3
  <2>5. SeededBefore(next)'
    BY <2>4 DEF SeededBefore
  <2>6. QED BY <2>1, <2>2, <2>5 DEF RecordInv
<1>11. CASE MainHasSeeded
  <2>1. /\ stage = "seed" /\ stage' = "propagate" /\ next > Len(records)
        /\ UNCHANGED <<records, next, output, nodes, rov, origins>>
    BY <1>11 DEF MainHasSeeded, Enter, Following, graphVars, routeVars, mainVars
  <2>2. SeededBefore(next)' /\ RecordList(records')
    BY <2>1, SameSeeds
  <2>3. QED BY <2>1, <2>2 DEF RecordInv
<1>12. CASE MainPropagates
  <2>1. /\ stage = "propagate" /\ stage' = "dump"
        /\ UNCHANGED <<records, next, output, nodes, rov, origins>>
    BY <1>12 DEF MainPropagates, Enter, Following, Becomes, graphVars, mainVars
  <2>2. SeededBefore(next)' /\ RecordList(records')
    BY <2>1, SameSeeds
  <2>3. QED BY <2>1, <2>2 DEF RecordInv
<1>13. CASE MainDumps
  <2>1. /\ stage = "dump" /\ stage' = "done" /\ output' \in {{}, {Rows}}
        /\ UNCHANGED <<records, next, nodes, rov, origins, tables>>
    BY <1>13 DEF MainDumps, Return, graphVars, routeVars
  <2>2. SeededBefore(next)' /\ RecordList(records')
    BY <2>1, SameSeeds
  <2>3. Rows' = Rows
    BY <2>1 DEF Rows
  <2>4. QED BY <2>1, <2>2, <2>3 DEF RecordInv
<1>14. CASE \/ LibraryFlattens \/ LibraryDeploys \/ LibrarySeeds
            \/ LibraryPropagatesUp \/ LibraryPropagatesAcross
            \/ LibraryPropagatesDown \/ LibraryPropagatesAll
  <2>1. Call
    BY <1>14 DEF LibraryFlattens, LibraryDeploys, LibrarySeeds, LibraryPropagatesUp,
                 LibraryPropagatesAcross, LibraryPropagatesDown, LibraryPropagatesAll
  <2>2. QED BY <2>1, NothingSeeded DEF Call, mainVars
<1>15. QED
  BY <1>1, <1>2, <1>3, <1>4, <1>5, <1>6, <1>7, <1>8, <1>9, <1>10, <1>11, <1>12, <1>13, <1>14
     DEF Next

\* Main seeds every record of its file once, before it propagates and writes
\* (main.cpp:316-378).
THEOREM RecordInvariant == Spec => []RecordInv
<1>1. QED BY StartsUnread, RecordStep, PTL DEF Spec
-----------------------------------------------------------------------------
(***************************************************************************)
(* Every step of a run keeps the routes in order.                          *)
(***************************************************************************)

\* The calls that propagate.
LEMMA PropagatedState ==
  ASSUME GraphInv, RouteInv, NEW s, Becomes(s),
         WellFormed(GraphView) => s \in States(GraphView, origins) /\ Nothing(s),
         UNCHANGED graphVars, stage' # "build"
  PROVE  RouteInv'
<1>1. rov' = rov /\ origins' = origins /\ peers' = peers
  BY DEF Becomes, graphVars
<1>2. CASE Ranked
  <2>1. s \in States(GraphView, origins) /\ Nothing(s)
    BY <1>2, RankedIsWellFormed
  <2>2. tables' = s.tables /\ queues' = s.queues
    BY <1>2 DEF Becomes
  <2>3. QED BY <1>1, <2>1, <2>2, PropagatingIsGood
<1>3. CASE ~Ranked
  <2>1. UNCHANGED routeVars
    BY <1>1, <1>3 DEF Becomes, routeVars
  <2>2. QED BY <1>1, <2>1, RoutesStay
<1>4. QED BY <1>2, <1>3

LEMMA RouteStep ==
  GraphInv /\ RecordInv /\ RouteInv /\ [Next]_vars => RouteInv'
<1> SUFFICES ASSUME GraphInv, RecordInv, RouteInv, [Next]_vars PROVE RouteInv'
  OBVIOUS
<1>0. Routes \in States(GraphView, origins) /\ nodes \subseteq ASN
  BY DEF RouteInv, GraphInv, GraphIsRead
<1>1. CASE UNCHANGED vars
  BY <1>1, RoutesStay DEF vars, graphVars
<1>2. CASE ReadFile
  BY <1>2, RoutesStay DEF ReadFile
<1>3. CASE FileUnreadable
  BY <1>3, RoutesStay DEF FileUnreadable, Return
<1>4. CASE RefuseGraph
  BY <1>4, RoutesStay DEF RefuseGraph, Return
<1>5. CASE AcceptGraph
  BY <1>5, RoutesStay DEF AcceptGraph, Following
<1>6. CASE MainFlattens
  BY <1>6, RoutesStay DEF MainFlattens, Enter, Following, FlattenGraph
<1>7. CASE MainDeploys
  <2>1. PICK file : DeployROV(ToSet(ParseRovAsnsCsv(file)))
    BY <1>7 DEF MainDeploys
  <2>2. SetROV(ToSet(ParseRovAsnsCsv(file)) \cap nodes)
    BY <2>1 DEF DeployROV
  <2>3. peers' = peers /\ stage' = "load"
    BY <1>7 DEF MainDeploys, Enter, Following, graphVars
  <2>4. stage' # "build"
    BY <2>3
  <2>5. QED BY <2>2, <2>3, <2>4, DeployingIsGood
<1>8. CASE MainLoads
  BY <1>8, RoutesStay DEF MainLoads, Enter, Following, graphVars
<1>9. CASE NothingToAnnounce
  BY <1>9, RoutesStay DEF NothingToAnnounce, Return, graphVars
<1>10. CASE MainSeeds
  <2>1. stage = "seed" /\ stage' = stage /\ next <= Len(records) /\ peers' = peers
    BY <1>10 DEF MainSeeds, graphVars
  <2>2. next \in DOMAIN records /\ records[next].rov_invalid \in BOOLEAN
    BY <2>1 DEF RecordInv, RecordList
  <2>3. CASE Announceable(records[next])
    <3> DEFINE n == records[next].asn
               invalid == records[next].rov_invalid
    <3>1. n \in ASN
      BY <1>0, <2>3 DEF Announceable
    <3>2. SeedAnnouncement(n, invalid)
      BY <1>10, <2>3 DEF MainSeeds
    <3>3. stage' # "build" /\ invalid \in BOOLEAN
      BY <2>1, <2>2
    <3> HIDE DEF n, invalid
    <3>4. QED BY <2>1, <3>1, <3>2, <3>3, SeedingIsGood
  <2>4. CASE ~Announceable(records[next])
    BY <1>10, <2>1, <2>4, RoutesStay DEF MainSeeds
  <2>5. QED BY <2>3, <2>4
<1>11. CASE MainHasSeeded
  BY <1>11, RoutesStay DEF MainHasSeeded, Enter, Following, graphVars
<1>12. CASE MainPropagates
  <2> DEFINE s == PropagateAll(GraphView, Routes)
  <2>1. Becomes(s) /\ UNCHANGED graphVars /\ stage' # "build"
    BY <1>12 DEF MainPropagates, Enter, Following
  <2>2. WellFormed(GraphView) => s \in States(GraphView, origins) /\ Nothing(s)
    BY <1>0, AllEnds
  <2> HIDE DEF s
  <2>3. QED BY <2>1, <2>2, PropagatedState
<1>13. CASE MainDumps
  BY <1>13, RoutesStay DEF MainDumps, Return, graphVars
<1>14. CASE LibraryFlattens
  BY <1>14, RoutesStay DEF LibraryFlattens, Call, FlattenGraph
<1>15. CASE LibraryDeploys
  <2>1. PICK n \in nodes : DeployROV({n})
    BY <1>15 DEF LibraryDeploys
  <2>2. SetROV({n} \cap nodes)
    BY <2>1 DEF DeployROV
  <2>3. peers' = peers /\ stage' # "build"
    BY <1>15 DEF LibraryDeploys, Call, graphVars
  <2>4. QED BY <2>2, <2>3, DeployingIsGood
<1>16. CASE LibrarySeeds
  <2>1. PICK n \in nodes, invalid \in BOOLEAN : SeedAnnouncement(n, invalid)
    BY <1>16 DEF LibrarySeeds
  <2>2. peers' = peers /\ stage' # "build"
    BY <1>16 DEF LibrarySeeds, Call, graphVars
  <2>3. n \in ASN
    BY <1>0
  <2>4. QED BY <2>1, <2>2, <2>3, SeedingIsGood
<1>17. CASE LibraryPropagatesUp
  <2> DEFINE s == PropagateUp(GraphView, Routes)
  <2>1. Becomes(s) /\ UNCHANGED graphVars /\ stage' # "build"
    BY <1>17 DEF LibraryPropagatesUp, Call
  <2>2. WellFormed(GraphView) => s \in States(GraphView, origins) /\ Nothing(s)
    BY <1>0, UpEnds
  <2> HIDE DEF s
  <2>3. QED BY <2>1, <2>2, PropagatedState
<1>18. CASE LibraryPropagatesAcross
  <2> DEFINE s == PropagateAcross(GraphView, Routes)
  <2>1. /\ tables' = s.tables /\ queues' = s.queues
        /\ UNCHANGED <<rov, origins, peers>> /\ stage' # "build"
    BY <1>18 DEF LibraryPropagatesAcross, Call, graphVars
  <2>2. s \in States(GraphView, origins) /\ Nothing(s)
    BY <1>0, AcrossEnds
  <2> HIDE DEF s
  <2>3. QED BY <2>1, <2>2, PropagatingIsGood
<1>19. CASE LibraryPropagatesDown
  <2> DEFINE s == PropagateDown(GraphView, Routes)
  <2>1. Becomes(s) /\ UNCHANGED graphVars /\ stage' # "build"
    BY <1>19 DEF LibraryPropagatesDown, Call
  <2>2. Nothing(Routes)
    BY RouteParts DEF RouteInv, NothingWaits, Nothing
  <2>3. WellFormed(GraphView) => s \in States(GraphView, origins) /\ Nothing(s)
    BY <1>0, <2>2, DownEnds
  <2> HIDE DEF s
  <2>4. QED BY <2>1, <2>3, PropagatedState
<1>20. CASE LibraryPropagatesAll
  <2> DEFINE s == PropagateAll(GraphView, Routes)
  <2>1. Becomes(s) /\ UNCHANGED graphVars /\ stage' # "build"
    BY <1>20 DEF LibraryPropagatesAll, Call
  <2>2. WellFormed(GraphView) => s \in States(GraphView, origins) /\ Nothing(s)
    BY <1>0, AllEnds
  <2> HIDE DEF s
  <2>3. QED BY <2>1, <2>2, PropagatedState
<1>21. QED
  BY <1>1, <1>2, <1>3, <1>4, <1>5, <1>6, <1>7, <1>8, <1>9, <1>10, <1>11, <1>12, <1>13, <1>14,
     <1>15, <1>16, <1>17, <1>18, <1>19, <1>20 DEF Next

\* Between the steps the queues are empty and every table is what its AS may hold.
THEOREM RouteInvariant == Spec => []RouteInv
<1>1. Init => RouteInv
  BY StartsGood
<1>2. GraphInv /\ RecordInv /\ RouteInv /\ [Next]_vars => RouteInv'
  BY RouteStep
<1>3. QED BY <1>1, <1>2, GraphInvariant, RecordInvariant, PTL DEF Spec
-----------------------------------------------------------------------------
\* No call leaves an announcement in a queue (as_graph.cpp:576-755).
THEOREM QueuesAreEmptied == Spec => []NothingWaits
<1>1. RouteInv => NothingWaits
  BY DEF RouteInv
<1>2. QED BY <1>1, RouteInvariant, PTL

\* An AS that deploys ROV has no invalid route from then on, however the calls
\* are ordered (as_graph.cpp:1239, rov.cpp:90).
THEOREM DeployedAlwaysFilter == Spec => []DeployedFilters
<1>1. GraphInv /\ RouteInv => DeployedFilters
  <2>1. SUFFICES ASSUME GraphInv, RouteInv, NEW n \in rov
                 PROVE  /\ tables[n].best # NoRoute => ~tables[n].best.rov_invalid
                        /\ \A k \in DOMAIN tables[n].queue : ~tables[n].queue[k].rov_invalid
    BY DEF DeployedFilters
  <2>2. n \in ASN /\ GraphView.rov = rov
    BY <2>1, RouteParts DEF GraphInv
  <2>3. GoodTable(GraphView, origins, n, tables[n])
    BY <2>1, <2>2, RoutesAreGood
  <2>4. /\ Consistent(tables[n])
        /\ \A k \in DOMAIN tables[n].queue : ~tables[n].queue[k].rov_invalid
    BY <2>1, <2>2, <2>3 DEF GoodTable
  <2>5. tables[n].best # NoRoute =>
          \E k \in DOMAIN tables[n].queue : tables[n].queue[k] = tables[n].best
    BY <2>4, ConsistentBest
  <2>6. QED BY <2>4, <2>5
<1>2. QED BY <1>1, GraphInvariant, RouteInvariant, PTL

\* An AS that announces the prefix and is not its own peer uses the route it made.
LEMMA OriginIsBest ==
  ASSUME RouteInv, NEW n \in ASN, n \in origins, n \notin PeersOf(n)
  PROVE  /\ tables[n].best # NoRoute
         /\ tables[n].best.received_from = "ORIGIN" /\ tables[n].best.path = <<n>>
<1> DEFINE table == tables[n]
<1>1. table \in Table /\ GoodTable(GraphView, origins, n, table)
  BY RoutesAreGood
<1>2. n \notin GraphView.peers[n]
  BY RouteParts
<1>3. /\ Consistent(table)
      /\ \A k \in DOMAIN table.queue :
           table.queue[k].received_from = "ORIGIN" => table.queue[k].path = <<n>>
  BY <1>1 DEF GoodTable
<1>4. PICK k \in DOMAIN table.queue : table.queue[k].received_from = "ORIGIN"
  BY <1>1, <1>2 DEF GoodTable
<1> HIDE DEF table
<1>5. table.best # NoRoute
  BY <1>3, <1>4, ConsistentBest
<1>6. PICK i \in DOMAIN table.queue :
        table.queue[i] = table.best /\ ~Outranks(table.queue[k], table.best)
  BY <1>3, <1>4, <1>5, ConsistentBest
<1>7. table.best.received_from = "ORIGIN"
  BY <1>4, <1>6 DEF Outranks
<1>8. QED BY <1>3, <1>5, <1>6, <1>7 DEF table

\* It does so until its policy is replaced (as_node.cpp:107).
THEOREM OriginsUseTheirOwn == Spec => []OriginPreferredUnlessOwnPeer
<1>1. RouteInv => OriginPreferredUnlessOwnPeer
  <2>1. SUFFICES ASSUME RouteInv, NEW n \in origins, n \notin PeersOf(n)
                 PROVE  tables[n].best.received_from = "ORIGIN"
    BY DEF OriginPreferredUnlessOwnPeer
  <2>2. n \in ASN
    BY <2>1 DEF RouteInv
  <2>3. QED BY <2>1, <2>2, OriginIsBest
<1>2. QED BY <1>1, RouteInvariant, PTL

\* Every announcement main accepts is in the output, at the AS that made it,
\* unless that is its own peer (main.cpp:316-378).
THEOREM SeedsAreWritten == Spec => []SeedsReachOutput
<1>1. GraphInv /\ RecordInv /\ RouteInv => SeedsReachOutput
  <2>1. SUFFICES ASSUME GraphInv, RecordInv, RouteInv,
                        NEW rows \in output, NEW k \in DOMAIN records,
                        Announceable(records[k]),
                        records[k].asn \notin PeersOf(records[k].asn),
                        ~(records[k].asn \in rov /\ records[k].rov_invalid)
                 PROVE  <<records[k].asn, <<records[k].asn>>>> \in rows
    BY DEF SeedsReachOutput
  <2> DEFINE n == records[k].asn
  <2>2. rows = Rows /\ k \in 1..(next - 1)
    BY <2>1 DEF RecordInv, RecordList
  <2>3. n \in nodes /\ n \in ASN /\ n \notin PeersOf(n)
    BY <2>1 DEF Announceable, GraphInv, GraphIsRead
  <2>4. n \in origins
    BY <2>1, <2>2 DEF RecordInv, SeededBefore
  <2> HIDE DEF n
  <2>5. tables[n].best # NoRoute /\ tables[n].best.path = <<n>>
    BY <2>1, <2>3, <2>4, OriginIsBest
  <2>6. <<n, tables[n].best.path>> \in Rows
    BY <2>3, <2>5 DEF Rows
  <2>7. QED BY <2>2, <2>5, <2>6 DEF n
<1>2. QED BY <1>1, GraphInvariant, RecordInvariant, RouteInvariant, PTL

\* With one iteration, which is main's, propagateAll does what the three calls do,
\* whatever was called before (as_graph.h:256-259).
THEOREM AllIsThreeCalls ==
  ASSUME Iterations = 1
  PROVE  Spec => []PhasesCompose
<1>1. GraphInv /\ RouteInv => PhasesCompose
  <2>1. SUFFICES ASSUME GraphInv, RouteInv, Ranked
                 PROVE  PropagateAll(GraphView, Routes) =
                          PropagateDown(GraphView,
                            PropagateAcross(GraphView, PropagateUp(GraphView, Routes)))
    BY DEF PhasesCompose
  <2>2. WellFormed(GraphView) /\ Routes \in States(GraphView, origins)
    BY <2>1, RankedIsWellFormed DEF RouteInv
  <2>3. QED BY <2>2, OneCallOrThree
<1>2. QED BY <1>1, GraphInvariant, RouteInvariant, PTL
-----------------------------------------------------------------------------
(***************************************************************************)
(* The routes of main, from the first announcement to the output.          *)
(***************************************************************************)

OwnRoutes ==
  \A n \in ASN : \A k \in DOMAIN tables[n].queue : tables[n].queue[k].received_from = "ORIGIN"

RoutesFollow == PairsRelatedOnce => Follows(GraphView, Routes)

RowInv ==
  /\ stage \notin {"calls", "dump", "done"} => OwnRoutes
  /\ stage = "dump" \/ output # {} => RoutesFollow

\* The links as the propagation sees them.
LEMMA ViewedLinks ==
  ASSUME GraphIsRead, NEW n \in ASN
  PROVE  /\ GraphView.peers[n] = PeersOf(n) /\ GraphView.providers[n] = ProvidersOf(n)
         /\ Customers(GraphView, n) = CustomersOf(n)
         /\ PeersOf(n) \cup ProvidersOf(n) \cup CustomersOf(n) \subseteq nodes
         /\ n \notin nodes => PeersOf(n) = {}
<1>1. /\ customers \in Links /\ LinksAgree
      /\ \A i, j \in ASN : /\ customers[i][j] > 0 => i \in nodes /\ j \in nodes
                           /\ peers[i][j] > 0 => i \in nodes /\ j \in nodes
  BY DEF GraphIsRead
<1>2. \A i, j \in ASN : providers[i][j] = customers[j][i]
  BY <1>1 DEF LinksAgree
<1>3. /\ GraphView.peers[n] = PeersOf(n)
      /\ \A m \in ASN : GraphView.providers[m] = ProvidersOf(m)
  BY DEF GraphView
<1>4. Customers(GraphView, n) = CustomersOf(n)
  BY <1>2, <1>3 DEF Customers, ProvidersOf, CustomersOf
<1>5. PeersOf(n) \subseteq nodes /\ ProvidersOf(n) \subseteq nodes /\ CustomersOf(n) \subseteq nodes
  BY <1>1, <1>2 DEF PeersOf, ProvidersOf, CustomersOf
<1>6. n \notin nodes => PeersOf(n) = {}
  BY <1>1 DEF PeersOf
<1>7. QED BY <1>3, <1>4, <1>5, <1>6

LEMMA ViewedOnce ==
  ASSUME GraphIsRead, PairsRelatedOnce
  PROVE  RelatedOnce(GraphView)
<1>1. SUFFICES ASSUME NEW n \in ASN
               PROVE  GraphView.peers[n]
                        \cap ({n} \cup GraphView.providers[n] \cup Customers(GraphView, n)) = {}
  BY DEF RelatedOnce
<1>2. /\ GraphView.peers[n] = PeersOf(n) /\ GraphView.providers[n] = ProvidersOf(n)
      /\ Customers(GraphView, n) = CustomersOf(n)
      /\ n \notin nodes => PeersOf(n) = {}
  BY ViewedLinks
<1>3. n \in nodes => PeersOf(n) \cap ({n} \cup ProvidersOf(n) \cup CustomersOf(n)) = {}
  BY DEF PairsRelatedOnce
<1>4. QED BY <1>2, <1>3

LEMMA StartsOwn == Init => RowInv
<1>1. SUFFICES ASSUME Init PROVE RowInv
  OBVIOUS
<1>2. stage = "build" /\ output = {} /\ \A n \in ASN : tables[n].queue = <<>>
  BY <1>1 DEF Init, EmptyTable
<1>3. DOMAIN <<>> = {}
  OBVIOUS
<1>4. QED BY <1>2, <1>3 DEF RowInv, OwnRoutes

\* The steps that write nothing and change no route.
LEMMA OwnRoutesStay ==
  ASSUME RowInv, tables' = tables, output' = {}, stage' # "dump",
         stage' \in {"calls", "done"} \/ stage \notin {"calls", "dump", "done"}
  PROVE  RowInv'
<1>1. OwnRoutes' <=> OwnRoutes
  BY DEF OwnRoutes
<1>2. QED BY <1>1 DEF RowInv

\* Seeding adds an announcement the AS makes itself.
LEMMA SeedingIsOwn ==
  ASSUME RouteInv, OwnRoutes, NEW n \in ASN, NEW invalid \in BOOLEAN, SeedAnnouncement(n, invalid)
  PROVE  OwnRoutes'
<1> DEFINE ann == MakeAnnouncement(<<n>>, n, "ORIGIN", invalid)
           table == tables[n]
           queue == Store(table.queue, ann)
<1>1. ann \in Announcement /\ ann.received_from = "ORIGIN"
  <2>1. <<n>> \in Path
    BY MaxPathLenAssumption DEF Path
  <2>2. QED BY <2>1 DEF MakeAnnouncement, Announcement, Relationship
<1>2. tables \in [ASN -> Table] /\ table.queue \in Seq(Announcement) /\ OnePerNeighbour(table.queue)
  BY RoutesAreGood DEF GoodTable, Consistent
<1>3. tables' = [tables EXCEPT ![n] = Admit(GraphView, n, table, ann)]
  BY DEF SeedAnnouncement
<1>4. Admit(GraphView, n, table, ann) = table \/ Admit(GraphView, n, table, ann).queue = queue
  BY DEF Admit, Receive
<1> HIDE DEF ann
<1>5. \A k \in DOMAIN queue : queue[k] = ann \/ \E j \in DOMAIN table.queue : queue[k] = table.queue[j]
  <2> DEFINE old == table.queue
  <2>1. old \in Seq(Announcement) /\ OnePerNeighbour(old)
    BY <1>2
  <2> HIDE DEF old
  <2>2. \A k \in DOMAIN Store(old, ann) :
          Store(old, ann)[k] = ann \/ \E j \in DOMAIN old : Store(old, ann)[k] = old[j]
    BY <1>1, <2>1, StoreKeeps
  <2>3. QED BY <2>2 DEF old
<1>6. \A j \in DOMAIN table.queue : table.queue[j].received_from = "ORIGIN"
  BY DEF OwnRoutes
<1> HIDE DEF queue
<1>7. \A k \in DOMAIN queue : queue[k].received_from = "ORIGIN"
  BY <1>1, <1>5, <1>6
<1>8. ASSUME NEW m \in ASN, NEW k \in DOMAIN tables'[m].queue
      PROVE  tables'[m].queue[k].received_from = "ORIGIN"
  <2>1. CASE m = n
    BY <1>2, <1>3, <1>4, <1>6, <1>7, <1>8, <2>1
  <2>2. CASE m # n
    <3>1. tables'[m] = tables[m]
      BY <1>2, <1>3, <2>2
    <3>2. QED BY <1>8, <3>1 DEF OwnRoutes
  <2>3. QED BY <2>1, <2>2
<1>9. QED BY <1>8 DEF OwnRoutes

\* Routes of its own only, and an empty queue, at every AS.
LEMMA OwnRoutesFollow ==
  ASSUME RouteInv, OwnRoutes
  PROVE  /\ Follows(GraphView, Routes) /\ Nothing(Routes)
         /\ \A n \in ASN : \A a \in Stored(Routes, n) : a.received_from = "ORIGIN"
<1>1. Nothing(Routes)
  BY RouteParts DEF RouteInv, NothingWaits, Nothing
<1>2. \A n \in ASN : \A a \in Stored(Routes, n) : a.received_from = "ORIGIN"
  BY RouteParts DEF OwnRoutes, Stored, ToSet
<1>3. \A n \in ASN : Queued(Routes, n) = {}
  BY <1>1, NothingIsQueued
<1>4. QED BY <1>1, <1>2, <1>3 DEF Follows

LEMMA MainPropagatesFollows ==
  ASSUME Iterations = 1, GraphInv, RouteInv, OwnRoutes, UNCHANGED graphVars,
         Becomes(PropagateAll(GraphView, Routes))
  PROVE  RoutesFollow'
<1> DEFINE t == PropagateAll(GraphView, Routes)
<1>1. GraphView' = GraphView /\ (PairsRelatedOnce' <=> PairsRelatedOnce)
  BY DEF GraphView, PairsRelatedOnce, PeersOf, ProvidersOf, CustomersOf, graphVars, Becomes
<1>2. SUFFICES ASSUME PairsRelatedOnce PROVE Follows(GraphView, Routes')
  BY <1>1 DEF RoutesFollow
<1>3. /\ Routes \in States(GraphView, origins) /\ Nothing(Routes) /\ Follows(GraphView, Routes)
      /\ \A n \in ASN : \A a \in Stored(Routes, n) : a.received_from = "ORIGIN"
  BY OwnRoutesFollow DEF RouteInv
<1>4. CASE Ranked
  <2>1. WellFormed(GraphView) /\ RelatedOnce(GraphView)
    BY <1>2, <1>4, RankedIsWellFormed, ViewedOnce DEF GraphInv
  <2>2. Follows(GraphView, t)
    BY <1>3, <2>1, AllFollows
  <2>3. t \in States(GraphView, origins)
    BY <1>3, <2>1, AllEnds
  <2>4. Routes' = [tables |-> t.tables, queues |-> t.queues]
    BY <1>4 DEF Routes, Becomes
  <2> HIDE DEF t
  <2>5. t = [tables |-> t.tables, queues |-> t.queues]
    BY <2>3, StateParts
  <2>6. QED BY <2>2, <2>4, <2>5
<1>5. CASE ~Ranked
  <2>1. Routes' = Routes
    BY <1>5 DEF Routes, Becomes
  <2>2. QED BY <1>3, <2>1
<1>6. QED BY <1>4, <1>5

LEMMA RowStep ==
  ASSUME Iterations = 1
  PROVE  GraphInv /\ RecordInv /\ RouteInv /\ RowInv /\ [Next]_vars => RowInv'
<1> SUFFICES ASSUME GraphInv, RecordInv, RouteInv, RowInv, [Next]_vars PROVE RowInv'
  OBVIOUS
<1>0. /\ stage # "done" => output = {}
      /\ stage \notin {"calls", "dump", "done"} => OwnRoutes
  BY DEF RecordInv, RowInv
<1>1. ASSUME UNCHANGED <<graphVars, rov, tables, queues>> PROVE RoutesFollow' <=> RoutesFollow
  <2>1. GraphView' = GraphView /\ Routes' = Routes /\ (PairsRelatedOnce' <=> PairsRelatedOnce)
    BY <1>1 DEF GraphView, Routes, PairsRelatedOnce, PeersOf, ProvidersOf, CustomersOf, graphVars
  <2>2. QED BY <2>1 DEF RoutesFollow
<1>2. CASE UNCHANGED vars
  <2>1. /\ UNCHANGED <<graphVars, rov, tables, queues>>
        /\ stage' = stage /\ output' = output /\ tables' = tables
    BY <1>2 DEF vars, routeVars, mainVars
  <2>2. OwnRoutes' <=> OwnRoutes
    BY <2>1 DEF OwnRoutes
  <2>3. RoutesFollow' <=> RoutesFollow
    BY <1>1, <2>1
  <2>4. QED BY <2>1, <2>2, <2>3 DEF RowInv
<1>3. CASE ReadFile
  BY <1>0, <1>3, OwnRoutesStay DEF ReadFile, routeVars, mainVars
<1>4. CASE FileUnreadable
  BY <1>0, <1>4, OwnRoutesStay DEF FileUnreadable, Return, routeVars
<1>5. CASE RefuseGraph
  BY <1>0, <1>5, OwnRoutesStay DEF RefuseGraph, Return, routeVars
<1>6. CASE AcceptGraph
  BY <1>0, <1>6, OwnRoutesStay DEF AcceptGraph, Following, routeVars, mainVars
<1>7. CASE MainFlattens
  BY <1>0, <1>7, OwnRoutesStay DEF MainFlattens, Enter, Following, routeVars, mainVars
<1>8. CASE MainDeploys
  <2>1. /\ stage = "deploy" /\ stage' = "load" /\ output' = output
        /\ \E list : DeployROV(list)
    BY <1>8 DEF MainDeploys, Enter, Following, mainVars
  <2>2. \A n \in ASN : tables'[n] = EmptyTable \/ tables'[n] = tables[n]
    BY <2>1 DEF DeployROV, SetROV
  <2>3. DOMAIN EmptyTable.queue = {}
    BY DEF EmptyTable
  <2>4. OwnRoutes'
    BY <1>0, <2>1, <2>2, <2>3 DEF OwnRoutes
  <2>5. QED BY <1>0, <2>1, <2>4 DEF RowInv
<1>9. CASE MainLoads
  BY <1>0, <1>9, OwnRoutesStay DEF MainLoads, Enter, Following, routeVars
<1>10. CASE NothingToAnnounce
  BY <1>0, <1>10, OwnRoutesStay DEF NothingToAnnounce, Return, routeVars
<1>11. CASE MainSeeds
  <2>1. stage = "seed" /\ stage' = stage /\ output' = output /\ next <= Len(records)
    BY <1>11 DEF MainSeeds
  <2>2. next \in DOMAIN records /\ records[next].rov_invalid \in BOOLEAN
    BY <2>1 DEF RecordInv, RecordList
  <2>3. OwnRoutes
    BY <1>0, <2>1
  <2>4. OwnRoutes'
    <3>1. CASE Announceable(records[next])
      <4>1. SeedAnnouncement(records[next].asn, records[next].rov_invalid)
        BY <1>11, <3>1 DEF MainSeeds
      <4>2. records[next].asn \in ASN
        BY <3>1 DEF Announceable, GraphInv, GraphIsRead
      <4>3. QED BY <2>2, <2>3, <4>1, <4>2, SeedingIsOwn
    <3>2. CASE ~Announceable(records[next])
      <4>1. tables' = tables
        BY <1>11, <3>2 DEF MainSeeds, routeVars
      <4>2. QED BY <2>3, <4>1 DEF OwnRoutes
    <3>3. QED BY <3>1, <3>2
  <2>5. QED BY <1>0, <2>1, <2>4 DEF RowInv
<1>12. CASE MainHasSeeded
  BY <1>0, <1>12, OwnRoutesStay DEF MainHasSeeded, Enter, Following, routeVars, mainVars
<1>13. CASE MainPropagates
  <2>1. /\ stage = "propagate" /\ stage' = "dump" /\ UNCHANGED graphVars
        /\ Becomes(PropagateAll(GraphView, Routes))
    BY <1>13 DEF MainPropagates, Enter, Following
  <2>2. RoutesFollow'
    BY <1>0, <2>1, MainPropagatesFollows
  <2>3. QED BY <2>1, <2>2 DEF RowInv
<1>14. CASE MainDumps
  <2>1. stage = "dump" /\ stage' = "done" /\ UNCHANGED <<graphVars, rov, tables, queues>>
    BY <1>14 DEF MainDumps, Return, routeVars
  <2>2. RoutesFollow'
    BY <1>1, <2>1 DEF RowInv
  <2>3. QED BY <2>1, <2>2 DEF RowInv
<1>15. CASE \/ LibraryFlattens \/ LibraryDeploys \/ LibrarySeeds
            \/ LibraryPropagatesUp \/ LibraryPropagatesAcross
            \/ LibraryPropagatesDown \/ LibraryPropagatesAll
  <2>1. Call
    BY <1>15 DEF LibraryFlattens, LibraryDeploys, LibrarySeeds, LibraryPropagatesUp,
                 LibraryPropagatesAcross, LibraryPropagatesDown, LibraryPropagatesAll
  <2>2. stage = "calls" /\ stage' = "calls" /\ output' = output
    BY <2>1 DEF Call, mainVars
  <2>3. QED BY <1>0, <2>2 DEF RowInv
<1>16. QED
  BY <1>2, <1>3, <1>4, <1>5, <1>6, <1>7, <1>8, <1>9, <1>10, <1>11, <1>12, <1>13, <1>14, <1>15
     DEF Next

\* Until they are propagated main's routes are the announcements the ASes made;
\* from then on every route continues the one its sender uses.
THEOREM RowInvariant ==
  ASSUME Iterations = 1
  PROVE  Spec => []RowInv
<1>1. Init => RowInv
  BY StartsOwn
<1>2. GraphInv /\ RecordInv /\ RouteInv /\ RowInv /\ [Next]_vars => RowInv'
  BY RowStep
<1>3. QED BY <1>1, <1>2, GraphInvariant, RecordInvariant, RouteInvariant, PTL DEF Spec
-----------------------------------------------------------------------------
LEMMA StoredPaths ==
  ASSUME NEW g, NEW own, NEW s \in States(g, own), Follows(g, s), NEW n \in ASN,
         NEW a \in Stored(s, n)
  PROVE  /\ a.path \in Path /\ a.path[1] = n
         /\ a.received_from = "ORIGIN" => Len(a.path) = 1
<1>1. a \in Announcement
  BY HopTypes
<1>2. CASE a.received_from = "ORIGIN"
  <2>1. GoodTable(g, own, n, s.tables[n])
    BY StateParts
  <2>2. a.path = <<n>>
    BY <1>2, <2>1 DEF GoodTable, Stored, ToSet
  <2>3. QED BY <1>1, <2>2 DEF Announcement
<1>3. CASE a.received_from # "ORIGIN"
  BY <1>1, <1>3 DEF Follows, Continues, Announcement
<1>4. QED BY <1>2, <1>3

LEMMA TailContinues ==
  ASSUME NEW n, NEW path \in Path, NEW rest \in Path, Continues(n, path, rest),
         Len(path) \in 2..(MaxPathLen - 1)
  PROVE  path[2] = rest[1] /\ Tail(path) = rest
<1>1. /\ path \in Seq(ASN) /\ rest \in Seq(ASN) /\ Len(path) \in Nat /\ Len(rest) \in Nat
      /\ MaxPathLen \in Nat
  BY MaxPathLenAssumption DEF Path
<1>2. Len(path) = Len(rest) + 1 /\ \A k \in 2..Len(path) : path[k] = rest[k - 1]
  BY <1>1 DEF Continues
<1>3. path[2] = rest[1]
  <2>1. 2 \in 2..Len(path) /\ 2 - 1 = 1
    BY <1>1
  <2>2. QED BY <1>2, <2>1
<1>4. /\ Tail(path) \in Seq(ASN) /\ Len(Tail(path)) = Len(rest)
      /\ \A k \in 1..Len(rest) : Tail(path)[k] = path[k + 1]
  BY <1>1, <1>2
<1>5. \A k \in 1..Len(rest) : k + 1 \in 2..Len(path) /\ k + 1 - 1 = k
  BY <1>1, <1>2
<1>6. \A k \in 1..Len(rest) : Tail(path)[k] = rest[k]
  BY <1>2, <1>4, <1>5
<1>7. Tail(path) = rest
  BY <1>1, <1>4, <1>6, SeqEqual
<1>8. QED BY <1>3, <1>7

\* The rows main writes agree with each other, on a graph where no AS is its own
\* peer or that of a provider or customer, as long as the arrays have room for the
\* paths (as_graph.cpp:921-1058, main.cpp:386-404).
THEOREM WrittenRowsAgree ==
  ASSUME Iterations = 1
  PROVE  Spec => []RowsAgree
<1>1. GraphInv /\ RecordInv /\ RouteInv /\ RowInv => RowsAgree
  <2>1. SUFFICES ASSUME GraphInv, RecordInv, RouteInv, RowInv,
                        NEW rows \in output, NEW row \in rows,
                        PairsRelatedOnce, Len(row[2]) \in 2..(MaxPathLen - 1)
                 PROVE  <<row[2][2], Tail(row[2])>> \in rows
    BY DEF RowsAgree
  <2>2. rows = Rows
    BY <2>1 DEF RecordInv
  <2>3. PICK n \in nodes : tables[n].best # NoRoute /\ row = <<n, tables[n].best.path>>
    BY <2>1, <2>2 DEF Rows
  <2> DEFINE a == tables[n].best
             m == a.next_hop
             b == tables[m].best
             s == Routes
  <2>4. /\ s \in States(GraphView, origins) /\ Follows(GraphView, s)
        /\ GraphIsRead /\ n \in ASN /\ s.tables = tables
    BY <2>1, RouteParts DEF RouteInv, RowInv, RoutesFollow, GraphInv, GraphIsRead
  <2> HIDE DEF s
  <2>5. a \in Stored(s, n)
    BY <2>3, <2>4, BestIsStored
  <2>6. a \in Announcement /\ m \in ASN /\ a.received_from # "ORIGIN" /\ a.path \in Path
    <3>1. a \in Announcement /\ m \in ASN
      BY <2>4, <2>5, HopTypes
    <3>2. a.path \in Path /\ (a.received_from = "ORIGIN" => Len(a.path) = 1)
      BY <2>4, <2>5, StoredPaths
    <3>3. Len(a.path) # 1
      <4>1. row[2] = a.path /\ MaxPathLen - 1 \in Int
        BY <2>3, MaxPathLenAssumption
      <4>2. Len(a.path) \in 2..(MaxPathLen - 1)
        BY <2>1, <4>1
      <4>3. 1 \notin 2..(MaxPathLen - 1)
        BY <4>1
      <4>4. QED BY <4>2, <4>3
    <3>4. QED BY <3>1, <3>2, <3>3
  <2>7. m \in Kin(GraphView, n, a.received_from) /\ b # NoRoute /\ Continues(n, a.path, b.path)
    BY <2>4, <2>5, <2>6 DEF Follows
  <2>8. b \in Stored(s, m) /\ b.path \in Path /\ b.path[1] = m
    <3>1. b \in Stored(s, m)
      <4>1. s.tables[m].best # NoRoute
        BY <2>4, <2>7
      <4>2. QED BY <2>4, <2>6, <4>1, BestIsStored
    <3>2. QED BY <2>4, <2>6, <3>1, StoredPaths
  <2>9. m \in nodes
    <3>1. /\ GraphView.peers[n] \subseteq nodes /\ GraphView.providers[n] \subseteq nodes
          /\ Customers(GraphView, n) \subseteq nodes
      BY <2>4, ViewedLinks
    <3>2. a.received_from \in Relationship
      BY <2>6 DEF Announcement
    <3>3. QED BY <2>6, <2>7, <3>1, <3>2 DEF Kin, Relationship
  <2>10. a.path[2] = b.path[1] /\ Tail(a.path) = b.path
    BY <2>1, <2>3, <2>6, <2>7, <2>8, TailContinues
  <2>11. <<m, b.path>> \in Rows
    BY <2>7, <2>9 DEF Rows
  <2>12. QED BY <2>2, <2>3, <2>8, <2>10, <2>11
<1>2. Spec => []RowInv
  BY RowInvariant
<1>3. QED BY <1>1, <1>2, GraphInvariant, RecordInvariant, RouteInvariant, PTL
=============================================================================
