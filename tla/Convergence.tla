------------------------------ MODULE Convergence ------------------------------
(***************************************************************************)
(* ASGraph::propagateToConvergence (as_graph.cpp): rounds of up, across    *)
(* and down, one AS after the other, in which an AS sends only what has    *)
(* changed, until a round has nothing to send.  What an AS has yet to send *)
(* in a direction is pending.                                              *)
(*                                                                         *)
(* The graph need not have been flattened: then every AS has rank -1 and   *)
(* all of them form one layer.                                             *)
(***************************************************************************)
EXTENDS ASGraph

CONSTANTS Limits,  \* the arguments maxRounds considered, 0 for no limit
          Graphs,  \* the graphs considered
          Seeds    \* the ways to seed them: AS -> "none", "valid" or "invalid"

ASSUME LimitsAssumption == Limits \subseteq Nat

ASSUME GraphsAssumption ==
  \A g \in Graphs :
    /\ g.providers \in [ASN -> SUBSET ASN] /\ g.peers \in [ASN -> SUBSET ASN]
    /\ WellFormed(g) \/ \A n \in ASN : g.rank[n] = -1

ASSUME SeedsAssumption == Seeds \subseteq [ASN -> {"none", "valid", "invalid"}]

VARIABLES graph,          \* never changes
          maxRounds,      \* never changes
          loop,           \* the loop that runs
          todo,           \* its ASes that were not handled yet
          pending,        \* direction -> the ASes with something to send that way
          received_queue, \* AS -> announcements received and not yet processed
          tables,         \* AS -> routes and best route of its policy
          rounds,         \* finished rounds, counted if they are limited
          roundHadWork,   \* something was sent in this round
          hitRoundLimit   \* the limit ended the propagation

vars == <<graph, maxRounds, loop, todo, pending, received_queue, tables, rounds,
          roundHadWork, hitRoundLimit>>

Direction == {"up", "across", "down"}

Loop(phase, rank) == [phase |-> phase, rank |-> rank]

\* A layer of the graph, or everybody; layers are walked "up" and "down".
Layer(g, phase, rank) ==
  CASE phase \in {"up", "down"}       -> {n \in ASN : g.rank[n] = rank}
    [] phase \in {"across", "settle"} -> ASN
    [] phase = "done"                 -> {}

Bottom(g) == IF MaxRank(g) < 0 THEN -1 ELSE 0

Init ==
  /\ graph \in Graphs
  /\ maxRounds \in Limits
  /\ \E seeds \in Seeds : tables = [n \in ASN |-> Seeded(graph, seeds, n)]
  /\ pending = [d \in Direction |-> {n \in ASN : tables[n].best # NoRoute}]
  /\ received_queue = [n \in ASN |-> <<>>]
  /\ loop = Loop("up", Bottom(graph))
  /\ todo = Layer(graph, "up", Bottom(graph))
  /\ rounds = 0
  /\ roundHadWork = FALSE
  /\ hitRoundLimit = FALSE

\* The layers are sorted by ASN.
IsNext(n) == n \in todo /\ \A m \in todo : n <= m

\* One round of the loop of processReceivedQueueWithDiff, which looks for loops
\* in paths of every length.
AbsorbChecked(n, table, ann) ==
  IF ContainsASN(ann, n) THEN table
  ELSE Admit(graph, n, table, PrependASN(ann, n, ann.next_hop, ann.received_from))

Processed(n) ==
  LET queue == received_queue[n]
      after[k \in 0..Len(queue)] ==
        IF k = 0 THEN tables[n] ELSE AbsorbChecked(n, after[k - 1], queue[k])
  IN  after[Len(queue)]

\* The AS's deltas are not empty.
Changed(n, table) == table.best # tables[n].best

Receivers(direction, n) ==
  CASE direction = "up"     -> graph.providers[n]
    [] direction = "across" -> graph.peers[n]
    [] direction = "down"   -> Customers(graph, n)

SentAs(direction) ==
  CASE direction = "up"     -> "FROM_CUSTOMER"
    [] direction = "across" -> "FROM_PEER"
    [] direction = "down"   -> "FROM_PROVIDER"

\* The queues after an AS sent its best route, if it has one.
Delivered(queues, direction, n, best) ==
  [m \in ASN |-> IF m \in Receivers(direction, n) /\ best # NoRoute
                 THEN Append(queues[m], Export(n, best, SentAs(direction)))
                 ELSE queues[m]]

\* Faulty variant: what came from peers and providers is not sent up.
PendNeverUp(n, directions) ==
  [d \in Direction |-> IF d \in directions \ {"up"} THEN pending[d] \cup {n} ELSE pending[d]]

\* What pending becomes when n's changes are added in some directions.
Pend(n, directions) ==
  [d \in Direction |-> IF d \in directions THEN pending[d] \cup {n} ELSE pending[d]]

Take(n) ==
  /\ IsNext(n)
  /\ todo' = todo \ {n}
  /\ UNCHANGED <<graph, maxRounds, loop, rounds, hitRoundLimit>>

\* One AS of processUpLayer or processDownLayer: what changed is sent on in the
\* layers' direction and becomes pending in the other two.
ProcessAndSend(n) ==
  /\ loop.phase \in {"up", "down"}
  /\ Take(n)
  /\ \E table \in {Processed(n)} :
       LET sends   == n \in pending[loop.phase] \/ Changed(n, table)
           others  == IF Changed(n, table) THEN Pend(n, Direction \ {loop.phase}) ELSE pending
           cleared == [received_queue EXCEPT ![n] = <<>>]
       IN  /\ tables' = [tables EXCEPT ![n] = table]
           /\ pending' = [others EXCEPT ![loop.phase] = @ \ {n}]
           /\ received_queue' = IF sends THEN Delivered(cleared, loop.phase, n, table.best)
                                ELSE cleared
           /\ roundHadWork' = (roundHadWork \/ sends)

\* Faulty variant: what was sent stays pending.
SendAcrossAgain(n) ==
  LET sends == n \in pending["across"]
  IN  /\ loop.phase = "across"
      /\ Take(n)
      /\ received_queue' = IF sends THEN Delivered(received_queue, "across", n, tables[n].best)
                           ELSE received_queue
      /\ roundHadWork' = (roundHadWork \/ sends)
      /\ UNCHANGED <<tables, pending>>

\* One AS of the loop of sends to peers.
SendAcross(n) ==
  LET sends == n \in pending["across"]
  IN  /\ loop.phase = "across"
      /\ Take(n)
      /\ pending' = [pending EXCEPT !["across"] = @ \ {n}]
      /\ received_queue' = IF sends THEN Delivered(received_queue, "across", n, tables[n].best)
                           ELSE received_queue
      /\ roundHadWork' = (roundHadWork \/ sends)
      /\ UNCHANGED tables

\* One AS of the loop in which all process what they received.
Settle(n) ==
  /\ loop.phase = "settle"
  /\ Take(n)
  /\ \E table \in {Processed(n)} :
       /\ tables' = [tables EXCEPT ![n] = table]
       /\ pending' = IF Changed(n, table) THEN Pend(n, Direction) ELSE pending
  /\ received_queue' = [received_queue EXCEPT ![n] = <<>>]
  /\ UNCHANGED roundHadWork

Enter(phase, rank) ==
  /\ loop' = Loop(phase, rank)
  /\ todo' = Layer(graph, phase, rank)

NextLoop ==
  /\ todo = {}
  /\ \/ loop.phase = "up" /\ loop.rank < MaxRank(graph) /\ Enter("up", loop.rank + 1)
     \/ loop.phase = "up" /\ loop.rank >= MaxRank(graph) /\ Enter("across", 0)
     \/ loop.phase = "across" /\ Enter("settle", 0)
     \/ loop.phase = "settle" /\ Enter("down", MaxRank(graph))
     \/ loop.phase = "down" /\ loop.rank > Bottom(graph) /\ Enter("down", loop.rank - 1)
  /\ UNCHANGED <<graph, maxRounds, pending, received_queue, tables, rounds, roundHadWork, hitRoundLimit>>

\* Faulty variant: what was sent last is not waited for.
QuietWhenSent == \A d \in Direction : pending[d] = {}

\* Nothing was sent in this round, and nothing is to be sent.
Quiet == ~roundHadWork /\ \A d \in Direction : pending[d] = {}

LimitReached(finished) == maxRounds > 0 /\ finished >= maxRounds

\* The end of a round: stop if nothing was sent, or by the limit, or go on.
EndRound ==
  LET finished == IF maxRounds = 0 THEN 0 ELSE rounds + 1
  IN  /\ todo = {}
      /\ loop = Loop("down", Bottom(graph))
      /\ rounds' = finished
      /\ \/ Quiet /\ Enter("done", 0) /\ UNCHANGED <<roundHadWork, hitRoundLimit>>
         \/ /\ ~Quiet /\ LimitReached(finished)
            /\ Enter("done", 0)
            /\ hitRoundLimit' = TRUE
            /\ UNCHANGED roundHadWork
         \/ /\ ~Quiet /\ ~LimitReached(finished)
            /\ Enter("up", Bottom(graph))
            /\ roundHadWork' = FALSE
            /\ UNCHANGED hitRoundLimit
      /\ UNCHANGED <<graph, maxRounds, pending, received_queue, tables>>

Next ==
  \/ \E n \in ASN : ProcessAndSend(n) \/ SendAcross(n) \/ Settle(n)
  \/ NextLoop
  \/ EndRound

Spec == Init /\ [][Next]_vars

\* One thread runs all of it.
FairSpec == Spec /\ WF_vars(Next)
-----------------------------------------------------------------------------
\* No pair is related in two ways, so that an AS hears from another as one thing.
SimplyRelated ==
  \A n \in ASN :
    /\ graph.peers[n] \cap (graph.providers[n] \cup Customers(graph, n)) = {}
    /\ graph.providers[n] \cap Customers(graph, n) = {}

\* m drops what n makes of its best route.
Refuses(m, ann) == ContainsASN(ann, m) \/ (m \in graph.rov /\ ann.rov_invalid)

\* The last announcement of n that m has in its queue or, with none there, the
\* route of n in its tables, is this one.
Knows(m, n, ann) ==
  LET waiting == {k \in DOMAIN received_queue[m] : received_queue[m][k].next_hop = n}
  IN  IF waiting # {}
      THEN \E last \in waiting :
             received_queue[m][last] = ann /\ \A k \in waiting : k <= last
      ELSE \E k \in DOMAIN tables[m].queue :
             tables[m].queue[k] = PrependASN(ann, m, n, ann.received_from)

\* A change of a best route is not forgotten between the diff, the three pending
\* maps and the queues (as_graph.cpp:811-870): a neighbour has heard of it,
\* refuses it, or it is pending.
NoChangeLost ==
  SimplyRelated =>
    \A n \in ASN, d \in Direction : tables[n].best # NoRoute =>
      \A m \in Receivers(d, n) :
        LET ann == Export(n, tables[n].best, SentAs(d))
        IN  n \in pending[d] \/ Refuses(m, ann) \/ Knows(m, n, ann)

\* Without a limit in the way, the propagation ends with nothing received left
\* unprocessed and nothing changed left unsent (as_graph.h:266).
EndsQuiet ==
  loop.phase = "done" /\ ~hitRoundLimit =>
    /\ \A n \in ASN : received_queue[n] = <<>>
    /\ \A d \in Direction : pending[d] = {}

\* The rounds come to an end (as_graph.h:266, "until no further changes occur").
Terminates == <>(loop.phase = "done")

\* README.md:139, "follows the Gao-Rexford valley-free routing model".
BestAreValleyFree ==
  loop.phase = "done" =>
    \A n \in ASN : tables[n].best # NoRoute => ValleyFree(graph, tables[n].best.path)

\* announcement.h:219, refusing the own ASN keeps a "routing loop" from being
\* created: no ASes end with routes that send traffic around among them.
NoRoutingLoop ==
  loop.phase = "done" =>
    \A S \in (SUBSET ASN) \ {{}} :
      \E n \in S : \/ tables[n].best = NoRoute
                  \/ tables[n].best.next_hop \in {n} \cup (ASN \ S)
=============================================================================
