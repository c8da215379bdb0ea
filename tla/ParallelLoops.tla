---------------------------- MODULE ParallelLoops ----------------------------
(***************************************************************************)
(* The loops propagateAll runs one after the other (as_graph.cpp): over    *)
(* which ASes, what these do with what they received, and to whom they     *)
(* send.                                                                   *)
(***************************************************************************)
EXTENDS ASGraph

CONSTANTS LoopCheckLen,  \* the path length from which loops are looked for, 10
          Iterations     \* the argument of propagateAll, 1 in main

ASSUME LoopCheckAssumption == LoopCheckLen \in Nat \ {0}

ASSUME IterationsAssumption == Iterations \in Nat \ {0}
-----------------------------------------------------------------------------
\* Loops are looked for in long paths only.
Accepts(n, ann) == ~(Len(ann.path) >= LoopCheckLen /\ ContainsASN(ann, n))

\* One round of the loop of processReceivedQueue.
Absorb(graph, n, table, ann) ==
  IF ~Accepts(n, ann) THEN table
  ELSE Admit(graph, n, table, PrependASN(ann, n, ann.next_hop, ann.received_from))

(***************************************************************************)
(* The parallel loops, in order: per iteration "up" for every rank, then   *)
(* "drain", "across" and "settle" for all ASes, then "down" for every      *)
(* rank from the top.                                                      *)
(***************************************************************************)
Phases == {"up", "drain", "across", "settle", "down", "done"}

LoopHead(iteration, phase, rank) ==
  [iteration |-> iteration, phase |-> phase, rank |-> rank]

FirstLoop == LoopHead(1, "up", 0)

\* Faulty variant: the ranks are walked from the bottom in the last phase too.
NextLoopDownFromBottom(graph, loop) ==
  CASE loop.phase = "up" /\ loop.rank < MaxRank(graph) ->
         LoopHead(loop.iteration, "up", loop.rank + 1)
    [] loop.phase = "up" /\ loop.rank >= MaxRank(graph) ->
         LoopHead(loop.iteration, "drain", 0)
    [] loop.phase = "drain"  -> LoopHead(loop.iteration, "across", 0)
    [] loop.phase = "across" -> LoopHead(loop.iteration, "settle", 0)
    [] loop.phase = "settle" -> LoopHead(loop.iteration, "down", 0)
    [] loop.phase = "down" /\ loop.rank < MaxRank(graph) ->
         LoopHead(loop.iteration, "down", loop.rank + 1)
    [] loop.phase = "down" /\ loop.rank >= MaxRank(graph) ->
         LoopHead(loop.iteration, "done", 0)

\* Faulty variant: the routes of peers are exchanged after the way down.
NextLoopAcrossLast(graph, loop) ==
  CASE loop.phase = "up" /\ loop.rank < MaxRank(graph) ->
         LoopHead(loop.iteration, "up", loop.rank + 1)
    [] loop.phase = "up" /\ loop.rank >= MaxRank(graph) ->
         LoopHead(loop.iteration, "down", MaxRank(graph))
    [] loop.phase = "down" /\ loop.rank > 0 ->
         LoopHead(loop.iteration, "down", loop.rank - 1)
    [] loop.phase = "down" /\ loop.rank = 0 -> LoopHead(loop.iteration, "drain", 0)
    [] loop.phase = "drain"  -> LoopHead(loop.iteration, "across", 0)
    [] loop.phase = "across" -> LoopHead(loop.iteration, "settle", 0)
    [] loop.phase = "settle" -> LoopHead(loop.iteration, "done", 0)

\* Which loop comes after this one.
NextLoop(graph, loop) ==
  CASE loop.phase = "up" /\ loop.rank < MaxRank(graph) ->
         LoopHead(loop.iteration, "up", loop.rank + 1)
    [] loop.phase = "up" /\ loop.rank >= MaxRank(graph) ->
         LoopHead(loop.iteration, "drain", 0)
    [] loop.phase = "drain"  -> LoopHead(loop.iteration, "across", 0)
    [] loop.phase = "across" -> LoopHead(loop.iteration, "settle", 0)
    [] loop.phase = "settle" -> LoopHead(loop.iteration, "down", MaxRank(graph))
    [] loop.phase = "down" /\ loop.rank > 0 ->
         LoopHead(loop.iteration, "down", loop.rank - 1)
    [] loop.phase = "down" /\ loop.rank = 0 /\ loop.iteration < Iterations ->
         LoopHead(loop.iteration + 1, "up", 0)
    [] loop.phase = "down" /\ loop.rank = 0 /\ loop.iteration >= Iterations ->
         LoopHead(loop.iteration, "done", 0)

\* Faulty variant: one loop over all ASes on the way up and down.
MembersOfAllRanks(graph, loop) == IF loop.phase = "done" THEN {} ELSE ASN

\* The ASes a loop runs over: a rank, or everybody.
Members(graph, loop) ==
  CASE loop.phase \in {"up", "down"} -> {n \in ASN : graph.rank[n] = loop.rank}
    [] loop.phase \in {"drain", "across", "settle"} -> ASN
    [] loop.phase = "done" -> {}

\* Whether the loop's body starts with processReceivedQueue.
Processes(loop) == loop.phase \in {"up", "drain", "settle", "down"}

\* To whom the loop's body then sends.
Receivers(graph, loop, n) ==
  CASE loop.phase = "up"     -> graph.providers[n]
    [] loop.phase = "across" -> graph.peers[n]
    [] loop.phase = "down"   -> Customers(graph, n)
    [] OTHER                 -> {}

\* As what they receive it.
SentAs(loop) ==
  CASE loop.phase = "up"     -> "FROM_CUSTOMER"
    [] loop.phase = "across" -> "FROM_PEER"
    [] OTHER                 -> "FROM_PROVIDER"
=============================================================================
