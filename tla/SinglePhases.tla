----------------------------- MODULE SinglePhases -----------------------------
(***************************************************************************)
(* propagateUp, propagateAcross, propagateDown and propagateAll            *)
(* (as_graph.cpp) as calls: what each makes of the routes and queues of    *)
(* all ASes,                                                               *)
(*                                                                         *)
(*   [tables |-> AS -> table, queues |-> AS -> received announcements].    *)
(*                                                                         *)
(* The threads inside a call are module Propagation's; they do not show in *)
(* its result (Propagation!IsLockStep), so that here every loop does all   *)
(* the processing first, and ASes send in some order that is always the    *)
(* same.                                                                   *)
(***************************************************************************)
EXTENDS ParallelLoops, SequencesExt

\* The loop of processReceivedQueue over a queue.
Absorbed(graph, n, table, queue) ==
  LET after[k \in 0..Len(queue)] ==
        IF k = 0 THEN table ELSE Absorb(graph, n, after[k - 1], queue[k])
  IN  after[Len(queue)]

\* processReceivedQueue, at each of these ASes.
AllProcess(graph, s, members) ==
  [tables |-> [n \in ASN |->
     IF n \in members THEN Absorbed(graph, n, s.tables[n], s.queues[n]) ELSE s.tables[n]],
   queues |-> [n \in ASN |-> IF n \in members THEN <<>> ELSE s.queues[n]]]

\* The send of each of these ASes that has a route: from m to targets[m].
AllSend(s, members, targets, rel) ==
  [tables |-> s.tables,
   queues |-> [n \in ASN |->
     LET senders == SetToSeq({m \in members : n \in targets[m] /\ s.tables[m].best # NoRoute})
     IN  s.queues[n] \o
           [k \in DOMAIN senders |-> Export(senders[k], s.tables[senders[k]].best, rel)]]]

\* buildRankBuckets
Bucket(graph, r) == {n \in ASN : graph.rank[n] = r}

CustomersOfAll(graph) == [m \in ASN |-> Customers(graph, m)]

\* The bodies of the loops over ranks, in propagateUp and in propagateDown.
RankUp(graph, s, r) ==
  AllSend(AllProcess(graph, s, Bucket(graph, r)), Bucket(graph, r), graph.providers, "FROM_CUSTOMER")

RankDown(graph, s, r) ==
  AllSend(AllProcess(graph, s, Bucket(graph, r)), Bucket(graph, r), CustomersOfAll(graph),
          "FROM_PROVIDER")

\* Faulty variant: the ranks are walked from the top.
PropagateUpFromTop(graph, s) ==
  LET after[k \in 0..(MaxRank(graph) + 1)] ==
        IF k = 0 THEN s ELSE RankUp(graph, after[k - 1], MaxRank(graph) + 1 - k)
  IN  after[MaxRank(graph) + 1]

PropagateUp(graph, s) ==
  LET after[k \in 0..(MaxRank(graph) + 1)] ==
        IF k = 0 THEN s ELSE RankUp(graph, after[k - 1], k - 1)
  IN  after[MaxRank(graph) + 1]

PropagateAcross(graph, s) ==
  AllProcess(graph, AllSend(s, ASN, graph.peers, "FROM_PEER"), ASN)

\* Faulty variant: all ranks send before any of them has processed.
PropagateDownTogether(graph, s) ==
  AllProcess(graph, AllSend(s, ASN, CustomersOfAll(graph), "FROM_PROVIDER"), ASN)

PropagateDown(graph, s) ==
  LET after[k \in 0..(MaxRank(graph) + 1)] ==
        IF k = 0 THEN s ELSE RankDown(graph, after[k - 1], MaxRank(graph) + 1 - k)
  IN  after[MaxRank(graph) + 1]
-----------------------------------------------------------------------------
\* The body of one loop of propagateAll, at all ASes of the loop.
LoopBody(graph, loop, s) ==
  AllSend(IF Processes(loop) THEN AllProcess(graph, s, Members(graph, loop)) ELSE s,
          Members(graph, loop), [n \in ASN |-> Receivers(graph, loop, n)], SentAs(loop))

\* Every iteration walks the ranks twice and has three loops in between.
LoopCount(graph) == Iterations * (2 * MaxRank(graph) + 5)

\* The loop that comes next and the state it finds, after so many loops
RunLoops(graph, s) ==
  LET after[k \in 0..LoopCount(graph)] ==
        IF k = 0 THEN [loop |-> FirstLoop, state |-> s]
        ELSE LET before == after[k - 1]
             IN  [loop  |-> NextLoop(graph, before.loop),
                  state |-> LoopBody(graph, before.loop, before.state)]
  IN  after

PropagateAll(graph, s) == RunLoops(graph, s)[LoopCount(graph)].state
=============================================================================
