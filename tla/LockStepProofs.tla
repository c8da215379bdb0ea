---------------------------- MODULE LockStepProofs ----------------------------
(***************************************************************************)
(* What one pass of propagateAll computes, on every acyclic graph, for any *)
(* number of ASes and any bounds on paths: routes without valleys and      *)
(* loops that tell the truth about their origin, and, where no pair is     *)
(* related twice, the stable outcome of the Gao-Rexford model.             *)
(***************************************************************************)
EXTENDS LockStep, RouteTableProofs

LoopType == [iteration : Nat, phase : Phases, rank : Nat]

Held(n) == {routes[n][m] : m \in DOMAIN routes[n]}

TypeInv ==
  /\ WellFormed(graph)
  /\ seeds \in [ASN -> {"none", "valid", "invalid"}]
  /\ loop \in LoopType
  /\ DOMAIN heard = ASN /\ DOMAIN routes = ASN /\ DOMAIN best = ASN
  /\ \A n \in ASN :
       /\ heard[n] \subseteq Announcement
       /\ DOMAIN routes[n] \subseteq ASN
       /\ \A m \in DOMAIN routes[n] : routes[n][m] \in Announcement /\ routes[n][m].next_hop = m
       /\ best[n] = MostPreferred(Held(n))
-----------------------------------------------------------------------------
(***************************************************************************)
(* The operators a step is made of.                                        *)
(***************************************************************************)

\* An AS's own route: its ROV policy may have refused it.
LEMMA SeededResult ==
  ASSUME NEW g, NEW s \in [ASN -> {"none", "valid", "invalid"}], NEW n \in ASN
  PROVE  LET own == Seeded(g, s, n).best
         IN  \/ own = NoRoute
             \/ /\ own \in Announcement
                /\ own.path = <<n>> /\ own.next_hop = n /\ own.received_from = "ORIGIN"
                /\ s[n] = IF own.rov_invalid THEN "invalid" ELSE "valid"
                /\ own.rov_invalid => n \notin g.rov
<1> DEFINE ann == MakeAnnouncement(<<n>>, n, "ORIGIN", s[n] = "invalid")
<1>1. ann \in Announcement
  <2>1. <<n>> \in Path
    BY MaxPathLenAssumption DEF Path
  <2>2. QED BY <2>1 DEF MakeAnnouncement, Announcement, Relationship
<1>2. /\ ann.path = <<n>> /\ ann.next_hop = n /\ ann.received_from = "ORIGIN"
      /\ ann.rov_invalid = (s[n] = "invalid")
  BY DEF MakeAnnouncement
<1>3. Receive(EmptyTable, ann).best = ann
  BY DEF Receive, EmptyTable
<1>4. EmptyTable.best = NoRoute
  BY DEF EmptyTable
<1> HIDE DEF ann
<1>5. Seeded(g, s, n).best = IF s[n] = "none" \/ (n \in g.rov /\ ann.rov_invalid)
                             THEN NoRoute ELSE ann
  BY <1>3, <1>4 DEF Seeded, Admit, ann
<1>6. QED BY <1>1, <1>2, <1>5

\* What comes after a loop, case by case.
LEMMA NextLoopResult ==
  ASSUME NEW g, WellFormed(g), NEW l \in LoopType, l.phase # "done"
  PROVE  LET next == NextLoop(g, l)
         IN  /\ next \in LoopType
             /\ next.iteration = l.iteration \/ l.iteration < Iterations
             /\ \/ /\ l.phase = "up" /\ l.rank < MaxRank(g)
                   /\ next.phase = "up" /\ next.rank = l.rank + 1
                \/ /\ l.phase = "up" /\ l.rank >= MaxRank(g)
                   /\ next.phase = "drain"
                \/ l.phase = "drain" /\ next.phase = "across"
                \/ l.phase = "across" /\ next.phase = "settle"
                \/ l.phase = "settle" /\ next.phase = "down" /\ next.rank = MaxRank(g)
                \/ /\ l.phase = "down" /\ l.rank > 0
                   /\ next.phase = "down" /\ next.rank = l.rank - 1
                \/ /\ l.phase = "down" /\ l.rank = 0 /\ l.iteration < Iterations
                   /\ next.phase = "up"
                \/ /\ l.phase = "down" /\ l.rank = 0 /\ l.iteration >= Iterations
                   /\ next.phase = "done"
<1>1. MaxRank(g) \in Nat /\ Iterations \in Nat
  BY MaxRankType, IterationsAssumption
<1>2. l.iteration \in Nat /\ l.phase \in Phases /\ l.rank \in Nat
  BY DEF LoopType
<1>3. \A i, r \in Nat, p \in Phases :
        /\ LoopHead(i, p, r) \in LoopType
        /\ LoopHead(i, p, r).iteration = i
        /\ LoopHead(i, p, r).phase = p /\ LoopHead(i, p, r).rank = r
  BY DEF LoopHead, LoopType
<1>4. CASE l.phase = "up" /\ l.rank < MaxRank(g)
  <2>1. NextLoop(g, l) = LoopHead(l.iteration, "up", l.rank + 1)
    BY <1>1, <1>2, <1>4 DEF NextLoop
  <2>2. QED BY <1>2, <1>3, <1>4, <2>1, SMTT(30) DEF Phases
<1>5. CASE l.phase = "up" /\ l.rank >= MaxRank(g)
  <2>1. NextLoop(g, l) = LoopHead(l.iteration, "drain", 0)
    BY <1>1, <1>2, <1>5 DEF NextLoop
  <2>2. QED BY <1>2, <1>3, <1>5, <2>1 DEF Phases
<1>6. CASE l.phase = "drain"
  <2>1. NextLoop(g, l) = LoopHead(l.iteration, "across", 0)
    BY <1>6 DEF NextLoop
  <2>2. QED BY <1>2, <1>3, <1>6, <2>1 DEF Phases
<1>7. CASE l.phase = "across"
  <2>1. NextLoop(g, l) = LoopHead(l.iteration, "settle", 0)
    BY <1>7 DEF NextLoop
  <2>2. QED BY <1>2, <1>3, <1>7, <2>1 DEF Phases
<1>8. CASE l.phase = "settle"
  <2>1. NextLoop(g, l) = LoopHead(l.iteration, "down", MaxRank(g))
    BY <1>8 DEF NextLoop
  <2>2. QED BY <1>1, <1>2, <1>3, <1>8, <2>1 DEF Phases
<1>9. CASE l.phase = "down" /\ l.rank > 0
  <2>1. NextLoop(g, l) = LoopHead(l.iteration, "down", l.rank - 1)
    BY <1>1, <1>2, <1>9 DEF NextLoop
  <2>2. l.rank - 1 \in Nat
    BY <1>2, <1>9
  <2>3. QED BY <1>2, <1>3, <1>9, <2>1, <2>2 DEF Phases
<1>10. CASE l.phase = "down" /\ l.rank = 0 /\ l.iteration < Iterations
  <2>1. NextLoop(g, l) = LoopHead(l.iteration + 1, "up", 0)
    BY <1>1, <1>2, <1>10 DEF NextLoop
  <2>2. QED BY <1>2, <1>3, <1>10, <2>1 DEF Phases
<1>11. CASE l.phase = "down" /\ l.rank = 0 /\ l.iteration >= Iterations
  <2>1. NextLoop(g, l) = LoopHead(l.iteration, "done", 0)
    BY <1>1, <1>2, <1>11 DEF NextLoop
  <2>2. QED BY <1>2, <1>3, <1>11, <2>1 DEF Phases
<1>12. QED
  BY <1>1, <1>2, <1>4, <1>5, <1>6, <1>7, <1>8, <1>9, <1>10, <1>11 DEF Phases

\* The relationships and ranks of a graph, in the form the proofs need.
LEMMA GraphFacts ==
  ASSUME WellFormed(graph)
  PROVE  /\ \A n \in ASN : /\ graph.providers[n] \subseteq ASN
                           /\ graph.peers[n] \subseteq ASN
                           /\ graph.rank[n] \in Nat
         /\ \A m, n \in ASN : n \in graph.providers[m] => graph.rank[m] < graph.rank[n]
         /\ \A m, n \in ASN : m \in graph.peers[n] <=> n \in graph.peers[m]
         /\ MaxRank(graph) \in Nat /\ \A n \in ASN : graph.rank[n] <= MaxRank(graph)
<1>1. graph \in Graph /\ Flattened(graph)
  BY DEF WellFormed
<1>2. \A m, n \in ASN : n \in graph.providers[m] => m \in Customers(graph, n)
  BY DEF Customers
<1>3. QED BY <1>1, <1>2, MaxRankType DEF WellFormed, Graph, Flattened

\* Who sends, and to whom.
LEMMA SendersAndReceivers ==
  ASSUME TypeInv, NEW m \in Members(graph, loop), NEW n \in Receivers(graph, loop, m)
  PROVE  /\ m \in ASN /\ n \in ASN
         /\ \/ /\ loop.phase = "up" /\ n \in graph.providers[m]
               /\ SentAs(loop) = "FROM_CUSTOMER"
            \/ /\ loop.phase = "across" /\ n \in graph.peers[m]
               /\ SentAs(loop) = "FROM_PEER"
            \/ /\ loop.phase = "down" /\ m \in graph.providers[n]
               /\ SentAs(loop) = "FROM_PROVIDER"
<1>1. loop.phase \in Phases
  BY DEF TypeInv, LoopType
<1>2. m \in ASN
  BY <1>1 DEF Members, Phases
<1>3. loop.phase \in {"up", "across", "down"}
  BY <1>1 DEF Receivers, Phases
<1>4. graph.providers[m] \subseteq ASN /\ graph.peers[m] \subseteq ASN
  BY <1>2, GraphFacts DEF TypeInv
<1>5. CASE loop.phase = "up"
  BY <1>2, <1>4, <1>5 DEF Receivers, SentAs
<1>6. CASE loop.phase = "across"
  BY <1>2, <1>4, <1>6 DEF Receivers, SentAs
<1>7. CASE loop.phase = "down"
  BY <1>2, <1>7 DEF Receivers, SentAs, Customers
<1>8. QED BY <1>3, <1>5, <1>6, <1>7

\* An announcement that is kept is one that was heard, with the AS in front.
LEMMA KeptResult ==
  ASSUME TypeInv, NEW n \in ASN, NEW ann \in Kept(n)
  PROVE  \E a \in heard[n] :
           /\ a \in Announcement
           /\ Accepts(n, a) /\ ~(n \in graph.rov /\ a.rov_invalid)
           /\ ann = PrependASN(a, n, a.next_hop, a.received_from)
           /\ ann \in Announcement
           /\ ann.next_hop = a.next_hop /\ ann.received_from = a.received_from
           /\ ann.rov_invalid = a.rov_invalid
<1>1. PICK a \in heard[n] : /\ Accepts(n, a) /\ ~(n \in graph.rov /\ a.rov_invalid)
                            /\ ann = PrependASN(a, n, a.next_hop, a.received_from)
  BY DEF Kept
<1>2. a \in Announcement /\ a.next_hop \in ASN /\ a.received_from \in Relationship
  BY DEF TypeInv, Announcement
<1>3. QED BY <1>1, <1>2, PrependResult

LEMMA LearnResult ==
  ASSUME TypeInv, NEW n \in ASN
  PROVE  /\ DOMAIN Learn(n) = DOMAIN routes[n] \cup {ann.next_hop : ann \in Kept(n)}
         /\ \A m \in DOMAIN Learn(n) :
              \/ Learn(n)[m] \in Kept(n) /\ Learn(n)[m].next_hop = m
              \/ /\ m \in DOMAIN routes[n] /\ Learn(n)[m] = routes[n][m]
                 /\ \A ann \in Kept(n) : ann.next_hop # m
<1>1. DOMAIN Learn(n) = DOMAIN routes[n] \cup {ann.next_hop : ann \in Kept(n)}
  BY DEF Learn
<1>2. ASSUME NEW m \in DOMAIN Learn(n), NEW ann \in Kept(n), ann.next_hop = m
      PROVE  Learn(n)[m] \in Kept(n) /\ Learn(n)[m].next_hop = m
  <2>1. Learn(n)[m] = CHOOSE a \in Kept(n) : a.next_hop = m
    BY <1>1, <1>2 DEF Learn
  <2>2. QED BY <1>2, <2>1
<1>3. ASSUME NEW m \in DOMAIN Learn(n), \A ann \in Kept(n) : ann.next_hop # m
      PROVE  m \in DOMAIN routes[n] /\ Learn(n)[m] = routes[n][m]
  BY <1>1, <1>3 DEF Learn
<1>4. QED BY <1>1, <1>2, <1>3

\* The best of a table of routes.
LEMMA BestOfTable ==
  ASSUME NEW table, NEW b, b = MostPreferred({table[m] : m \in DOMAIN table}),
         \A m \in DOMAIN table : table[m] \in Announcement
  PROVE  /\ b \in Announcement \cup {NoRoute}
         /\ b # NoRoute => \E m \in DOMAIN table : b = table[m]
         /\ \A m \in DOMAIN table : b # NoRoute /\ ~PreferredTo(table[m], b)
<1> DEFINE held == {table[m] : m \in DOMAIN table}
<1>1. CASE held = {}
  BY <1>1 DEF MostPreferred
<1>2. CASE held # {}
  <2>1. held \subseteq Announcement
    OBVIOUS
  <2>2. b \in held /\ \A r \in held : ~PreferredTo(r, b)
    <3> HIDE DEF held
    <3>1. QED BY <1>2, <2>1, MostPreferredResult DEF held
  <2>3. b # NoRoute
    BY <2>1, <2>2, NoRouteAssumption
  <2>4. QED BY <2>1, <2>2, <2>3
<1>3. QED BY <1>1, <1>2

\* An AS that acts has learned what it kept; the others stay as they are.
LEMMA StepRoutes ==
  ASSUME TypeInv, Step, NEW n \in ASN
  PROVE  /\ routes'[n] = IF n \in Acting THEN Learn(n) ELSE routes[n]
         /\ DOMAIN routes'[n] \subseteq ASN
         /\ \A m \in DOMAIN routes'[n] :
              /\ routes'[n][m] \in Announcement /\ routes'[n][m].next_hop = m
              /\ \/ n \in Acting /\ routes'[n][m] \in Kept(n)
                 \/ m \in DOMAIN routes[n] /\ routes'[n][m] = routes[n][m]
         /\ best'[n] = MostPreferred({routes'[n][m] : m \in DOMAIN routes'[n]})
<1>1. /\ routes'[n] = IF n \in Acting THEN Learn(n) ELSE routes[n]
      /\ best'[n] = MostPreferred({routes'[n][m] : m \in DOMAIN routes'[n]})
  BY DEF Step
<1>2. /\ DOMAIN routes[n] \subseteq ASN
      /\ \A m \in DOMAIN routes[n] : routes[n][m] \in Announcement /\ routes[n][m].next_hop = m
  BY DEF TypeInv
<1>3. \A ann \in Kept(n) : ann \in Announcement /\ ann.next_hop \in ASN
  BY KeptResult DEF Announcement
<1>4. ASSUME n \notin Acting PROVE routes'[n] = routes[n]
  BY <1>1, <1>4
<1>5. ASSUME n \in Acting
      PROVE  /\ DOMAIN routes'[n] \subseteq ASN
             /\ \A m \in DOMAIN routes'[n] :
                  /\ routes'[n][m] \in Announcement /\ routes'[n][m].next_hop = m
                  /\ \/ routes'[n][m] \in Kept(n)
                     \/ m \in DOMAIN routes[n] /\ routes'[n][m] = routes[n][m]
  <2>1. routes'[n] = Learn(n)
    BY <1>1, <1>5
  <2>2. DOMAIN Learn(n) \subseteq ASN
    <3>1. DOMAIN Learn(n) = DOMAIN routes[n] \cup {ann.next_hop : ann \in Kept(n)}
      BY LearnResult
    <3>2. {ann.next_hop : ann \in Kept(n)} \subseteq ASN
      BY <1>3
    <3>3. QED BY <1>2, <3>1, <3>2
  <2>3. ASSUME NEW m \in DOMAIN Learn(n)
        PROVE  /\ Learn(n)[m] \in Announcement /\ Learn(n)[m].next_hop = m
               /\ \/ Learn(n)[m] \in Kept(n)
                  \/ m \in DOMAIN routes[n] /\ Learn(n)[m] = routes[n][m]
    BY <1>2, <1>3, LearnResult
  <2>4. QED BY <2>1, <2>2, <2>3
<1>6. QED
  <2>1. CASE n \in Acting
    BY <1>1, <1>5, <2>1
  <2>2. CASE n \notin Acting
    BY <1>1, <1>2, <1>4, <2>2
  <2>3. QED BY <2>1, <2>2

\* What an AS hears it has heard before, or somebody sends it now.
LEMMA StepHeard ==
  ASSUME TypeInv, Step, NEW n \in ASN, NEW a \in heard'[n]
  PROVE  \/ n \notin Acting /\ a \in heard[n]
         \/ \E m \in Members(graph, loop) :
              /\ n \in Receivers(graph, loop, m) /\ best'[m] # NoRoute
              /\ a = Export(m, best'[m], SentAs(loop))
BY DEF Step

\* The best route after a step is one of the routes after the step.
LEMMA StepBest ==
  ASSUME TypeInv, Step, NEW n \in ASN
  PROVE  /\ best'[n] \in Announcement \cup {NoRoute}
         /\ best'[n] # NoRoute => \E m \in DOMAIN routes'[n] : best'[n] = routes'[n][m]
         /\ \A m \in DOMAIN routes'[n] : best'[n] # NoRoute /\ ~PreferredTo(routes'[n][m], best'[n])
<1> DEFINE table == routes'[n]
<1>1. /\ \A m \in DOMAIN table : table[m] \in Announcement
      /\ best'[n] = MostPreferred({table[m] : m \in DOMAIN table})
  BY StepRoutes
<1> HIDE DEF table
<1>2. /\ best'[n] \in Announcement \cup {NoRoute}
      /\ best'[n] # NoRoute => \E m \in DOMAIN table : best'[n] = table[m]
      /\ \A m \in DOMAIN table : best'[n] # NoRoute /\ ~PreferredTo(table[m], best'[n])
  BY <1>1, BestOfTable
<1>3. QED BY <1>2 DEF table

LEMMA BestNow ==
  ASSUME TypeInv, NEW n \in ASN
  PROVE  /\ best[n] \in Announcement \cup {NoRoute}
         /\ best[n] # NoRoute => \E m \in DOMAIN routes[n] : best[n] = routes[n][m]
         /\ \A m \in DOMAIN routes[n] : best[n] # NoRoute /\ ~PreferredTo(routes[n][m], best[n])
<1>1. /\ \A m \in DOMAIN routes[n] : routes[n][m] \in Announcement
      /\ best[n] = MostPreferred({routes[n][m] : m \in DOMAIN routes[n]})
  BY DEF TypeInv, Held
<1>2. QED BY <1>1, BestOfTable

\* The routes to start with are the ASes' own.
LEMMA InitSeeds ==
  ASSUME Init, NEW n \in ASN, best[n] # NoRoute
  PROVE  /\ best[n] \in Announcement
         /\ best[n].path = <<n>> /\ best[n].next_hop = n /\ best[n].received_from = "ORIGIN"
         /\ seeds[n] = IF best[n].rov_invalid THEN "invalid" ELSE "valid"
         /\ best[n].rov_invalid => n \notin graph.rov
<1> DEFINE own == Seeded(graph, seeds, n).best
<1>1. seeds \in [ASN -> {"none", "valid", "invalid"}] /\ best[n] = own
  BY SeedsAssumption DEF Init
<1>2. \/ own = NoRoute
      \/ /\ own \in Announcement
         /\ own.path = <<n>> /\ own.next_hop = n /\ own.received_from = "ORIGIN"
         /\ seeds[n] = IF own.rov_invalid THEN "invalid" ELSE "valid"
         /\ own.rov_invalid => n \notin graph.rov
  BY <1>1, SeededResult
<1> HIDE DEF own
<1>3. QED BY <1>1, <1>2

\* The seeds are the routes to start with.
LEMMA InitRoutes ==
  ASSUME Init, NEW n \in ASN
  PROVE  /\ heard[n] = {}
         /\ best[n] = Seeded(graph, seeds, n).best
         /\ best[n] = NoRoute => DOMAIN routes[n] = {}
         /\ best[n] # NoRoute => DOMAIN routes[n] = {n} /\ routes[n][n] = best[n]
         /\ best[n] = MostPreferred(Held(n))
<1>1. /\ seeds \in [ASN -> {"none", "valid", "invalid"}]
      /\ heard[n] = {} /\ best[n] = Seeded(graph, seeds, n).best
      /\ routes[n] = IF best[n] = NoRoute THEN <<>> ELSE Remember(<<>>, best[n])
  BY SeedsAssumption DEF Init
<1>2. best[n] = NoRoute \/ (best[n] \in Announcement /\ best[n].next_hop = n)
  BY InitSeeds
<1>3. CASE best[n] = NoRoute
  <2>1. DOMAIN routes[n] = {}
    BY <1>1, <1>3
  <2>2. QED BY <1>1, <1>3, <2>1 DEF MostPreferred, Held
<1>4. CASE best[n] # NoRoute
  <2>1. DOMAIN routes[n] = {n} /\ routes[n][n] = best[n]
    BY <1>1, <1>2, <1>4 DEF Remember
  <2>2. Held(n) = {best[n]}
    BY <2>1 DEF Held
  <2>3. MostPreferred({best[n]}) = best[n]
    <3>1. {best[n]} \subseteq Announcement /\ {best[n]} # {}
      BY <1>2, <1>4
    <3>2. QED BY <3>1, MostPreferredResult
  <2>4. QED BY <1>1, <1>4, <2>1, <2>2, <2>3
<1>5. QED BY <1>3, <1>4

LEMMA InitTypeInv == Init => TypeInv
<1>1. SUFFICES ASSUME Init PROVE TypeInv
  OBVIOUS
<1>2. WellFormed(graph) /\ seeds \in [ASN -> {"none", "valid", "invalid"}]
  BY <1>1, GraphsAssumption, SeedsAssumption DEF Init
<1>3. loop \in LoopType
  BY <1>1 DEF Init, FirstLoop, LoopHead, LoopType, Phases
<1>4. DOMAIN heard = ASN /\ DOMAIN routes = ASN /\ DOMAIN best = ASN
  BY <1>1 DEF Init
<1>5. ASSUME NEW n \in ASN
      PROVE  /\ heard[n] \subseteq Announcement
             /\ DOMAIN routes[n] \subseteq ASN
             /\ \A m \in DOMAIN routes[n] : routes[n][m] \in Announcement /\ routes[n][m].next_hop = m
             /\ best[n] = MostPreferred(Held(n))
  <2>1. best[n] = NoRoute \/ (best[n] \in Announcement /\ best[n].next_hop = n)
    BY <1>1, <1>2, InitSeeds
  <2>2. QED BY <1>1, <2>1, InitRoutes
<1>6. QED BY <1>2, <1>3, <1>4, <1>5 DEF TypeInv

LEMMA StepTypeInv == TypeInv /\ Step => TypeInv'
<1>1. SUFFICES ASSUME TypeInv, Step PROVE TypeInv'
  OBVIOUS
<1>2. UNCHANGED <<graph, seeds>> /\ loop.phase # "done" /\ loop' = NextLoop(graph, loop)
  BY <1>1 DEF Step
<1>3. WellFormed(graph)' /\ (seeds \in [ASN -> {"none", "valid", "invalid"}])'
  BY <1>1, <1>2 DEF TypeInv
<1>4. (loop \in LoopType)'
  BY <1>1, <1>2, NextLoopResult DEF TypeInv
<1>5. (DOMAIN heard = ASN /\ DOMAIN routes = ASN /\ DOMAIN best = ASN)'
  BY <1>1 DEF Step
<1>6. ASSUME NEW n \in ASN
      PROVE  heard'[n] \subseteq Announcement
  <2>1. SUFFICES ASSUME NEW a \in heard'[n] PROVE a \in Announcement
    OBVIOUS
  <2>2. ASSUME NEW m \in Members(graph, loop), n \in Receivers(graph, loop, m),
               best'[m] # NoRoute, a = Export(m, best'[m], SentAs(loop))
        PROVE  a \in Announcement
    <3>1. m \in ASN /\ SentAs(loop) \in Relationship
      BY <1>1, <2>2, SendersAndReceivers DEF Relationship
    <3>2. best'[m] \in Announcement
      BY <1>1, <2>2, <3>1, StepBest
    <3>3. QED BY <2>2, <3>1, <3>2, ExportResult
  <2>3. QED BY <1>1, <2>1, <2>2, StepHeard DEF TypeInv
<1>7. ASSUME NEW n \in ASN
      PROVE  (/\ DOMAIN routes[n] \subseteq ASN
              /\ \A m \in DOMAIN routes[n] : routes[n][m] \in Announcement /\ routes[n][m].next_hop = m
              /\ best[n] = MostPreferred(Held(n)))'
  BY <1>1, StepRoutes DEF Held
<1>8. QED BY <1>3, <1>4, <1>5, <1>6, <1>7 DEF TypeInv

LEMMA TypeInvariant == Spec => []TypeInv
<1>1. TypeInv /\ UNCHANGED vars => TypeInv'
  BY DEF TypeInv, Held, vars
<1>2. QED BY <1>1, InitTypeInv, StepTypeInv, PTL DEF Spec, Next
-----------------------------------------------------------------------------
(***************************************************************************)
(* Origins.                                                                *)
(***************************************************************************)
Truthful(ann) ==
  Len(ann.path) < MaxPathLen =>
    seeds[GetOriginASN(ann)] = IF ann.rov_invalid THEN "invalid" ELSE "valid"

TruthInv ==
  \A n \in ASN : /\ \A a \in heard[n] : Truthful(a)
                 /\ \A m \in DOMAIN routes[n] : Truthful(routes[n][m])

LEMMA InitTruthInv == Init => TruthInv
<1>1. SUFFICES ASSUME Init, NEW n \in ASN
               PROVE  /\ heard[n] = {}
                      /\ \A m \in DOMAIN routes[n] : Truthful(routes[n][m])
  BY DEF TruthInv
<1>2. seeds \in [ASN -> {"none", "valid", "invalid"}]
  BY <1>1, SeedsAssumption DEF Init
<1>3. ASSUME best[n] # NoRoute PROVE Truthful(best[n])
  <2>1. /\ best[n].path = <<n>>
        /\ seeds[n] = IF best[n].rov_invalid THEN "invalid" ELSE "valid"
    BY <1>1, <1>3, InitSeeds
  <2>2. GetOriginASN(best[n]) = n
    BY <2>1 DEF GetOriginASN
  <2>3. QED BY <2>1, <2>2 DEF Truthful
<1>4. QED BY <1>1, <1>3, InitRoutes

LEMMA StepTruthInv == TypeInv /\ TruthInv /\ Step => TruthInv'
<1>1. SUFFICES ASSUME TypeInv, TruthInv, Step PROVE TruthInv'
  OBVIOUS
<1>2. seeds' = seeds
  BY <1>1 DEF Step
<1>3. ASSUME NEW n \in ASN, NEW ann \in Kept(n) PROVE Truthful(ann)
  <2>1. PICK a \in heard[n] : /\ a \in Announcement
                              /\ ann = PrependASN(a, n, a.next_hop, a.received_from)
    BY <1>1, <1>3, KeptResult
  <2>2. a.next_hop \in ASN /\ a.received_from \in Relationship /\ Len(a.path) \in Nat
    BY <2>1, FieldTypes DEF Announcement
  <2>3. /\ Len(ann.path) = IF Len(a.path) < MaxPathLen THEN Len(a.path) + 1 ELSE MaxPathLen
        /\ ann.rov_invalid = a.rov_invalid
        /\ Len(a.path) < MaxPathLen => GetOriginASN(ann) = GetOriginASN(a)
    BY <2>1, <2>2, PrependResult
  <2>4. Truthful(a)
    BY <1>1, <2>1 DEF TruthInv
  <2>5. Len(ann.path) < MaxPathLen => Len(a.path) < MaxPathLen
    BY <2>2, <2>3, MaxPathLenAssumption
  <2>6. QED BY <2>3, <2>4, <2>5 DEF Truthful
<1>4. ASSUME NEW n \in ASN, NEW m \in DOMAIN routes'[n] PROVE Truthful(routes'[n][m])
  <2>1. \/ routes'[n][m] \in Kept(n)
        \/ m \in DOMAIN routes[n] /\ routes'[n][m] = routes[n][m]
    BY <1>1, <1>4, StepRoutes
  <2>2. CASE routes'[n][m] \in Kept(n)
    BY <1>3, <2>2
  <2>3. CASE m \in DOMAIN routes[n] /\ routes'[n][m] = routes[n][m]
    <3>1. Truthful(routes[n][m])
      BY <1>1, <2>3 DEF TruthInv
    <3>2. QED BY <2>3, <3>1
  <2>4. QED BY <2>1, <2>2, <2>3
<1>5. ASSUME NEW n \in ASN, NEW a \in heard'[n] PROVE Truthful(a)
  <2>1. ASSUME NEW m \in Members(graph, loop), n \in Receivers(graph, loop, m),
               best'[m] # NoRoute, a = Export(m, best'[m], SentAs(loop))
        PROVE  Truthful(a)
    <3>1. m \in ASN
      BY <1>1, <2>1, SendersAndReceivers
    <3>2. Truthful(best'[m])
      BY <1>1, <1>4, <2>1, <3>1, StepBest
    <3>3. a.path = best'[m].path /\ a.rov_invalid = best'[m].rov_invalid
      BY <2>1 DEF Export, MakeAnnouncement
    <3>4. QED BY <3>2, <3>3 DEF Truthful, GetOriginASN
  <2>2. QED BY <1>1, <1>5, <2>1, StepHeard DEF TruthInv
<1>6. \A ann : Truthful(ann)' <=> Truthful(ann)
  BY <1>2 DEF Truthful
<1>7. QED BY <1>4, <1>5, <1>6 DEF TruthInv, Truthful

\* OriginIsTruthful, for any number of passes on any acyclic graph: the last AS
\* of a path that is not full is the one that announced the prefix, and the ROV
\* mark is that of its announcement (announcement.h:198, as_node.cpp:217).
THEOREM OriginsAreTruthful == Spec => []OriginIsTruthful
<1>1. TypeInv /\ TruthInv => OriginIsTruthful
  <2>1. SUFFICES ASSUME TypeInv, TruthInv, NEW n \in ASN, best[n] # NoRoute
                 PROVE  Truthful(best[n])
    BY DEF OriginIsTruthful, Truthful
  <2>2. QED BY <2>1, BestNow DEF TruthInv
<1>2. TruthInv /\ UNCHANGED vars => TruthInv'
  BY DEF TruthInv, Truthful, vars
<1>3. QED BY <1>1, <1>2, InitTruthInv, StepTruthInv, TypeInvariant, PTL DEF Spec, Next
-----------------------------------------------------------------------------
(***************************************************************************)
(* Valleys.  The order of the loops decides what an AS may know when it    *)
(* sends: routes of customers and its own until the peers have heard it,   *)
(* anything on the way down.                                               *)
(***************************************************************************)
Climbing(g, path, first) ==
  \A k \in (first + 1)..Len(path) : Climbs(g, path[k], path[k - 1])

RouteShape(g, n, route) ==
  /\ route.path[1] = n
  /\ route.received_from \in {"ORIGIN", "FROM_CUSTOMER"} => Climbing(g, route.path, 1)
  /\ route.received_from = "FROM_PEER" =>
       /\ Climbing(g, route.path, 2)
       /\ Len(route.path) > 1 => Crosses(g, route.path[2], route.path[1])
  /\ ValleyFree(g, route.path)

HeardShape(g, n, ann) ==
  /\ ann.path[1] = ann.next_hop
  /\ \/ /\ ann.received_from = "FROM_CUSTOMER"
        /\ Climbs(g, ann.next_hop, n) /\ Climbing(g, ann.path, 1)
     \/ /\ ann.received_from = "FROM_PEER"
        /\ Crosses(g, ann.next_hop, n) /\ Climbing(g, ann.path, 1)
     \/ /\ ann.received_from = "FROM_PROVIDER"
        /\ Descends(g, ann.next_hop, n) /\ ValleyFree(g, ann.path)

\* What a route may be in the tables, and what waits to be processed, when a loop starts.
KnownAs(phase) ==
  IF phase \in {"up", "drain", "across", "settle"} THEN {"ORIGIN", "FROM_CUSTOMER"}
  ELSE Relationship

HeardAs(phase) ==
  CASE phase \in {"up", "drain", "across"} -> {"FROM_CUSTOMER"}
    [] phase = "settle"                    -> {"FROM_CUSTOMER", "FROM_PEER"}
    [] OTHER                               -> Relationship

ShapeInv ==
  /\ loop.iteration = 1
  /\ \A n \in ASN :
       /\ \A a \in heard[n] : HeardShape(graph, n, a) /\ a.received_from \in HeardAs(loop.phase)
       /\ \A m \in DOMAIN routes[n] : /\ RouteShape(graph, n, routes[n][m])
                                      /\ routes[n][m].received_from \in KnownAs(loop.phase)

\* Climbing all the way, from the second AS on with a peering in front, or to a
\* turn: all are valley-free.
LEMMA ClimbingIsValleyFree ==
  ASSUME NEW g, NEW path \in Path, Climbing(g, path, 1)
  PROVE  ValleyFree(g, path)
<1>1. Len(path) \in Nat /\ 1 \in 1..Len(path)
  BY DEF Path
<1>2. \A k \in (1 + 1)..Len(path) : Climbs(g, path[k], path[k - 1])
  BY DEF Climbing
<1>3. \A k \in 1..(1 - 2) : Descends(g, path[k + 1], path[k])
  OBVIOUS
<1>4. QED BY <1>1, <1>2, <1>3 DEF ValleyFree

\* An announcement of the right shape becomes a route of the right shape.
LEMMA KeptShape ==
  ASSUME NEW g, NEW n \in ASN, NEW a \in Announcement, HeardShape(g, n, a)
  PROVE  RouteShape(g, n, PrependASN(a, n, a.next_hop, a.received_from))
<1> DEFINE new == PrependASN(a, n, a.next_hop, a.received_from)
           old == a.path
<1>1. a.next_hop \in ASN /\ a.received_from \in Relationship /\ old \in Path /\ Len(old) \in Nat \ {0}
  BY DEF Announcement, Path
<1>2. /\ new \in Announcement /\ new.path[1] = n /\ new.received_from = a.received_from
      /\ Len(new.path) \in Nat /\ Len(new.path) <= Len(old) + 1
      /\ \A k \in 2..Len(new.path) : new.path[k] = old[k - 1]
  BY <1>1, PrependResult, MaxPathLenAssumption, SMTT(30)
<1>3. new.path \in Path /\ Len(new.path) \in Nat \ {0}
  BY <1>2 DEF Announcement, Path
<1>4. old[1] = a.next_hop
  BY DEF HeardShape
<1> DEFINE path == new.path
<1>5. \A k \in 3..Len(path) : k - 1 \in 2..Len(old) /\ path[k] = old[k - 1] /\ path[k - 1] = old[k - 2]
  BY <1>1, <1>2
<1>6. Len(path) > 1 => path[2] = a.next_hop
  BY <1>2, <1>4
<1> HIDE DEF new, path, old
<1>7. ASSUME NEW first \in Nat \ {0}, Climbing(g, old, first)
      PROVE  Climbing(g, path, first + 1)
  <2>1. SUFFICES ASSUME NEW k \in ((first + 1) + 1)..Len(path)
                 PROVE  Climbs(g, path[k], path[k - 1])
    BY DEF Climbing
  <2>2. k \in 3..Len(path) /\ k - 1 \in (first + 1)..Len(old) /\ (k - 1) - 1 = k - 2
    BY <1>1, <1>3, <1>5, <2>1 DEF path
  <2>3. Climbs(g, old[k - 1], old[k - 2])
    BY <1>7, <2>2 DEF Climbing
  <2>4. QED BY <1>5, <2>2, <2>3
<1>8. CASE a.received_from = "FROM_CUSTOMER"
  <2>1. Climbs(g, a.next_hop, n) /\ Climbing(g, old, 1)
    BY <1>8 DEF HeardShape, old
  <2>2. Climbing(g, path, 2)
    BY <1>7, <2>1
  <2>3. Climbing(g, path, 1)
    <3>1. SUFFICES ASSUME NEW k \in (1 + 1)..Len(path)
                   PROVE  Climbs(g, path[k], path[k - 1])
      BY DEF Climbing
    <3>2. CASE k = 2
      BY <1>2, <1>3, <1>6, <2>1, <3>1, <3>2 DEF path
    <3>3. CASE k # 2
      <4>1. k \in (2 + 1)..Len(path)
        BY <1>3, <3>1, <3>3 DEF path
      <4>2. QED BY <2>2, <4>1 DEF Climbing
    <3>4. QED BY <3>2, <3>3
  <2>4. ValleyFree(g, path)
    BY <1>3, <2>3, ClimbingIsValleyFree DEF path
  <2>5. QED BY <1>2, <1>8, <2>3, <2>4 DEF RouteShape, path, new
<1>9. CASE a.received_from = "FROM_PEER"
  <2>1. Crosses(g, a.next_hop, n) /\ Climbing(g, old, 1)
    BY <1>9 DEF HeardShape, old
  <2>2. Climbing(g, path, 2)
    BY <1>7, <2>1
  <2>3. Len(path) > 1 => Crosses(g, path[2], path[1])
    BY <1>2, <1>6, <2>1 DEF path
  <2>4. ValleyFree(g, path)
    <3>1. CASE Len(path) > 1
      <4>1. 2 \in 1..Len(path) /\ \A k \in 1..(2 - 2) : Descends(g, path[k + 1], path[k])
        BY <1>3, <3>1 DEF path
      <4>2. Crosses(g, path[2], path[2 - 1])
        BY <2>3, <3>1
      <4>3. QED BY <2>2, <4>1, <4>2 DEF ValleyFree, Climbing
    <3>2. CASE Len(path) = 1
      <4>1. Climbing(g, path, 1)
        BY <3>2 DEF Climbing
      <4>2. QED BY <1>3, <4>1, ClimbingIsValleyFree DEF path
    <3>3. Len(path) > 1 \/ Len(path) = 1
      <4>1. \A k \in Nat \ {0} : k > 1 \/ k = 1
        OBVIOUS
      <4>2. Len(path) \in Nat \ {0}
        BY <1>3 DEF path
      <4>3. QED BY <4>1, <4>2
    <3>4. QED BY <3>1, <3>2, <3>3
  <2>5. QED BY <1>2, <1>9, <2>2, <2>3, <2>4 DEF RouteShape, path, new
<1>10. CASE a.received_from = "FROM_PROVIDER"
  <2>1. Descends(g, a.next_hop, n) /\ ValleyFree(g, old)
    BY <1>10 DEF HeardShape, old
  <2>2. PICK turn \in 1..Len(old) :
          /\ Climbing(g, old, turn)
          /\ \A k \in 1..(turn - 2) : Descends(g, old[k + 1], old[k])
          /\ turn > 1 => \/ Crosses(g, old[turn], old[turn - 1])
                         \/ Descends(g, old[turn], old[turn - 1])
    BY <2>1 DEF ValleyFree, Climbing
  <2>3. turn \in Nat \ {0}
    BY <1>1, <2>2
  <2>4. \A k \in 1..(turn - 1) : k < Len(path) => Descends(g, path[k + 1], path[k])
    <3>1. SUFFICES ASSUME NEW k \in 1..(turn - 1), k < Len(path)
                   PROVE  Descends(g, path[k + 1], path[k])
      OBVIOUS
    <3>2. CASE k = 1
      BY <1>2, <1>3, <1>6, <2>1, <3>1, <3>2 DEF path
    <3>3. CASE k # 1
      <4>1. k + 1 \in 3..Len(path) /\ k - 1 \in 1..(turn - 2) /\ (k - 1) + 1 = k
            /\ (k + 1) - 1 = k /\ (k + 1) - 2 = k - 1
        BY <1>3, <2>3, <3>1, <3>3 DEF path
      <4>2. path[k + 1] = old[k] /\ path[k] = old[k - 1]
        BY <1>5, <4>1
      <4>3. Descends(g, old[k], old[k - 1])
        BY <2>2, <4>1
      <4>4. QED BY <4>2, <4>3
    <3>4. QED BY <3>2, <3>3
  <2>5. CASE turn < Len(path)
    <3>1. turn + 1 \in 1..Len(path) /\ turn + 1 > 1 /\ (turn + 1) - 2 = turn - 1
          /\ (turn + 1) - 1 = turn
      BY <1>3, <2>3, <2>5 DEF path
    <3>2. \A k \in ((turn + 1) + 1)..Len(path) : Climbs(g, path[k], path[k - 1])
      BY <1>7, <2>2, <2>3 DEF Climbing
    <3>3. \A k \in 1..((turn + 1) - 2) : Descends(g, path[k + 1], path[k])
      BY <1>3, <2>3, <2>4, <2>5, <3>1 DEF path
    <3>4. \/ Crosses(g, path[turn + 1], path[turn])
          \/ Descends(g, path[turn + 1], path[turn])
      <4>1. CASE turn = 1
        BY <1>2, <1>3, <1>6, <2>1, <2>5, <4>1 DEF path
      <4>2. CASE turn > 1
        <5>1. turn + 1 \in 3..Len(path) /\ (turn + 1) - 1 = turn /\ (turn + 1) - 2 = turn - 1
          BY <1>3, <2>3, <2>5, <4>2 DEF path
        <5>2. path[turn + 1] = old[turn] /\ path[turn] = old[turn - 1]
          BY <1>5, <5>1
        <5>3. QED BY <2>2, <4>2, <5>2
      <4>3. QED BY <2>3, <4>1, <4>2
    <3>5. ValleyFree(g, path)
      BY <3>1, <3>2, <3>3, <3>4 DEF ValleyFree
    <3>6. QED BY <1>2, <1>10, <3>5 DEF RouteShape, path, new
  <2>6. CASE turn >= Len(path)
    <3>1. Len(path) \in 1..Len(path) /\ Len(path) \in Nat \ {0} /\ Len(path) <= turn
      BY <1>3, <2>3, <2>6 DEF path
    <3>2. \A k \in (Len(path) + 1)..Len(path) : Climbs(g, path[k], path[k - 1])
      BY <3>1
    <3>3. \A k \in 1..(Len(path) - 2) : Descends(g, path[k + 1], path[k])
      BY <2>3, <2>4, <3>1
    <3>4. Len(path) > 1 => Descends(g, path[Len(path)], path[Len(path) - 1])
      <4>1. Len(path) > 1 => /\ Len(path) - 1 \in 1..(turn - 1) /\ Len(path) - 1 < Len(path)
                             /\ (Len(path) - 1) + 1 = Len(path)
        BY <2>3, <3>1
      <4>2. QED BY <2>4, <4>1
    <3>5. ValleyFree(g, path)
      BY <3>1, <3>2, <3>3, <3>4 DEF ValleyFree
    <3>6. QED BY <1>2, <1>10, <3>5 DEF RouteShape, path, new
  <2>7. QED BY <1>3, <2>3, <2>5, <2>6 DEF path
<1>11. QED BY <1>1, <1>8, <1>9, <1>10 DEF HeardShape, Relationship

\* What an AS sends has the right shape for who receives it, if it is a climbing
\* route or goes down.
LEMMA ExportShape ==
  ASSUME NEW g, NEW m \in ASN, NEW n \in ASN, NEW route \in Announcement,
         RouteShape(g, m, route), NEW rel \in Relationship,
         \/ /\ rel = "FROM_CUSTOMER" /\ Climbs(g, m, n)
            /\ route.received_from \in {"ORIGIN", "FROM_CUSTOMER"}
         \/ /\ rel = "FROM_PEER" /\ Crosses(g, m, n)
            /\ route.received_from \in {"ORIGIN", "FROM_CUSTOMER"}
         \/ rel = "FROM_PROVIDER" /\ Descends(g, m, n)
  PROVE  HeardShape(g, n, Export(m, route, rel))
<1> DEFINE ann == Export(m, route, rel)
<1>1. ann.path = route.path /\ ann.next_hop = m /\ ann.received_from = rel
  BY ExportResult
<1> HIDE DEF ann
<1>2. HeardShape(g, n, ann)
  BY <1>1 DEF HeardShape, RouteShape
<1>3. QED BY <1>2 DEF ann

LEMMA InitShapeInv == Init => ShapeInv
<1>1. SUFFICES ASSUME Init PROVE ShapeInv
  OBVIOUS
<1>2. loop.iteration = 1 /\ loop.phase = "up"
  BY <1>1 DEF Init, FirstLoop, LoopHead
<1>3. ASSUME NEW n \in ASN, NEW m \in DOMAIN routes[n]
      PROVE  RouteShape(graph, n, routes[n][m]) /\ routes[n][m].received_from = "ORIGIN"
  <2>1. best[n] # NoRoute /\ routes[n][m] = best[n]
    BY <1>1, <1>3, InitRoutes
  <2>2. best[n] \in Announcement /\ best[n].path = <<n>> /\ best[n].received_from = "ORIGIN"
    BY <1>1, <2>1, InitSeeds
  <2>3. Climbing(graph, best[n].path, 1) /\ best[n].path[1] = n
    BY <2>2 DEF Climbing
  <2>4. best[n].path \in Path
    BY <2>2 DEF Announcement
  <2>5. ValleyFree(graph, best[n].path)
    BY <2>3, <2>4, ClimbingIsValleyFree
  <2>6. QED BY <2>1, <2>2, <2>3, <2>5 DEF RouteShape
<1>4. QED BY <1>1, <1>2, <1>3, InitRoutes DEF ShapeInv, KnownAs

\* A pass is not repeated; the kinds of routes that are known and heard follow the phases.
LEMMA NextShape ==
  ASSUME TypeInv, ShapeInv, Step, Iterations = 1
  PROVE  /\ loop'.iteration = 1
         /\ KnownAs(loop.phase) \subseteq KnownAs(loop'.phase)
         /\ HeardAs(loop.phase) \subseteq KnownAs(loop'.phase) \/ ~Processes(loop)
         /\ HeardAs(loop.phase) \subseteq HeardAs(loop'.phase)
         /\ loop.phase = "up" => "FROM_CUSTOMER" \in HeardAs(loop'.phase)
         /\ loop.phase = "across" => "FROM_PEER" \in HeardAs(loop'.phase)
         /\ loop.phase = "down" => "FROM_PROVIDER" \in HeardAs(loop'.phase)
         /\ loop.phase \in {"up", "across"} => KnownAs(loop'.phase) = {"ORIGIN", "FROM_CUSTOMER"}
<1>1. /\ loop' = NextLoop(graph, loop) /\ loop.phase # "done"
      /\ WellFormed(graph) /\ loop \in LoopType /\ loop.iteration = 1
  BY DEF TypeInv, ShapeInv, Step
<1> DEFINE next == NextLoop(graph, loop)
<1>2. /\ next.iteration = 1
      /\ \/ loop.phase = "up" /\ next.phase \in {"up", "drain"}
         \/ loop.phase = "drain" /\ next.phase = "across"
         \/ loop.phase = "across" /\ next.phase = "settle"
         \/ loop.phase = "settle" /\ next.phase = "down"
         \/ loop.phase = "down" /\ next.phase \in {"down", "done"}
  <2>1. next \in LoopType /\ (next.iteration = loop.iteration \/ loop.iteration < Iterations)
    BY <1>1, NextLoopResult
  <2>2. next.iteration = 1
    BY <1>1, <2>1
  <2>3. \/ loop.phase = "up" /\ next.phase \in {"up", "drain"}
        \/ loop.phase = "drain" /\ next.phase = "across"
        \/ loop.phase = "across" /\ next.phase = "settle"
        \/ loop.phase = "settle" /\ next.phase = "down"
        \/ loop.phase = "down" /\ (next.phase \in {"down", "done"} \/ loop.iteration < Iterations)
    BY <1>1, NextLoopResult
  <2>4. QED BY <1>1, <2>2, <2>3
<1> HIDE DEF next
<1>3. loop' = next
  BY <1>1 DEF next
<1>4. QED BY <1>2, <1>3 DEF KnownAs, HeardAs, Processes, Relationship

LEMMA StepShapeInv == Iterations = 1 /\ TypeInv /\ ShapeInv /\ Step => ShapeInv'
<1>1. SUFFICES ASSUME Iterations = 1, TypeInv, ShapeInv, Step PROVE ShapeInv'
  OBVIOUS
<1>2. graph' = graph
  BY <1>1 DEF Step
<1>3. ASSUME NEW n \in ASN, NEW m \in DOMAIN routes'[n]
      PROVE  /\ RouteShape(graph, n, routes'[n][m])
             /\ routes'[n][m].received_from \in KnownAs(loop'.phase)
  <2>1. \/ n \in Acting /\ routes'[n][m] \in Kept(n)
        \/ m \in DOMAIN routes[n] /\ routes'[n][m] = routes[n][m]
    BY <1>1, <1>3, StepRoutes
  <2>2. CASE n \in Acting /\ routes'[n][m] \in Kept(n)
    <3>1. PICK a \in heard[n] :
            /\ a \in Announcement
            /\ routes'[n][m] = PrependASN(a, n, a.next_hop, a.received_from)
            /\ routes'[n][m].received_from = a.received_from
      BY <1>1, <2>2, KeptResult
    <3>2. HeardShape(graph, n, a) /\ a.received_from \in HeardAs(loop.phase)
      BY <1>1, <3>1 DEF ShapeInv
    <3>3. RouteShape(graph, n, PrependASN(a, n, a.next_hop, a.received_from))
      BY <3>1, <3>2, KeptShape
    <3>4. Processes(loop)
      BY <2>2 DEF Acting
    <3>5. QED BY <1>1, <3>1, <3>2, <3>3, <3>4, NextShape
  <2>3. CASE m \in DOMAIN routes[n] /\ routes'[n][m] = routes[n][m]
    BY <1>1, <2>3, NextShape DEF ShapeInv
  <2>4. QED BY <2>1, <2>2, <2>3
<1>4. ASSUME NEW n \in ASN, NEW a \in heard'[n]
      PROVE  HeardShape(graph, n, a) /\ a.received_from \in HeardAs(loop'.phase)
  <2>1. CASE a \in heard[n]
    BY <1>1, <2>1, NextShape DEF ShapeInv
  <2>2. ASSUME NEW m \in Members(graph, loop), n \in Receivers(graph, loop, m),
               best'[m] # NoRoute, a = Export(m, best'[m], SentAs(loop))
        PROVE  HeardShape(graph, n, a) /\ a.received_from \in HeardAs(loop'.phase)
    <3>1. m \in ASN
      BY <1>1, <2>2, SendersAndReceivers
    <3>2. PICK k \in DOMAIN routes'[m] : best'[m] = routes'[m][k]
      BY <1>1, <2>2, <3>1, StepBest
    <3>3. /\ best'[m] \in Announcement /\ RouteShape(graph, m, best'[m])
          /\ best'[m].received_from \in KnownAs(loop'.phase)
      <4>1. best'[m] \in Announcement
        BY <1>1, <2>2, <3>1, StepBest
      <4>2. QED BY <1>3, <3>1, <3>2, <4>1
    <3>4. \/ loop.phase = "up" /\ Climbs(graph, m, n) /\ SentAs(loop) = "FROM_CUSTOMER"
          \/ loop.phase = "across" /\ Crosses(graph, m, n) /\ SentAs(loop) = "FROM_PEER"
          \/ loop.phase = "down" /\ Descends(graph, m, n) /\ SentAs(loop) = "FROM_PROVIDER"
      BY <1>1, <2>2, SendersAndReceivers DEF Climbs, Crosses, Descends
    <3>5. loop.phase \in {"up", "across"} => best'[m].received_from \in {"ORIGIN", "FROM_CUSTOMER"}
      BY <1>1, <3>3, NextShape
    <3>6. HeardShape(graph, n, Export(m, best'[m], SentAs(loop)))
      <4>1. SentAs(loop) \in Relationship
        BY <3>4 DEF Relationship
      <4>2. QED BY <1>4, <3>1, <3>3, <3>4, <3>5, <4>1, ExportShape
    <3>7. a.received_from = SentAs(loop)
      BY <2>2 DEF Export, MakeAnnouncement
    <3>8. QED BY <1>1, <2>2, <3>4, <3>6, <3>7, NextShape
  <2>3. QED BY <1>1, <1>4, <2>1, <2>2, StepHeard
<1>5. loop'.iteration = 1
  BY <1>1, NextShape
<1>6. QED BY <1>2, <1>3, <1>4, <1>5 DEF ShapeInv

\* BestAreValleyFree, on every acyclic graph, pairs that are related twice
\* included: in the one pass that main asks for (main.cpp:395), no route goes up
\* or across once it has been down or across (as_graph.cpp:714-755).
THEOREM BestRoutesAreValleyFree ==
  ASSUME Iterations = 1
  PROVE  Spec => []BestAreValleyFree
<1>1. TypeInv /\ ShapeInv => BestAreValleyFree
  <2>1. SUFFICES ASSUME TypeInv, ShapeInv, NEW n \in ASN, best[n] # NoRoute
                 PROVE  ValleyFree(graph, best[n].path)
    BY DEF BestAreValleyFree
  <2>2. QED BY <2>1, BestNow DEF ShapeInv, RouteShape
<1>2. ShapeInv /\ UNCHANGED vars => ShapeInv'
  BY DEF ShapeInv, vars
<1>3. TypeInv /\ ShapeInv /\ Step => ShapeInv'
  BY StepShapeInv
<1>4. QED BY <1>1, <1>2, <1>3, InitShapeInv, TypeInvariant, PTL DEF Spec, Next
-----------------------------------------------------------------------------
(***************************************************************************)
(* What an AS knows, exactly, where no pair is related twice: for every    *)
(* neighbour that has had its turn, the route that this neighbour uses     *)
(* now.  It holds because nobody changes a route that has been sent.       *)
(***************************************************************************)
ClimbDone(g, l, n)   == l.phase # "up" \/ g.rank[n] < l.rank
DescentDone(g, l, n) == l.phase = "done" \/ (l.phase = "down" /\ g.rank[n] > l.rank)

\* Whether m has sent its best route to those that receive it as rel, and
\* whether n has processed what it received as rel.
Sent(g, l, m, rel) ==
  \/ rel = "FROM_CUSTOMER" /\ ClimbDone(g, l, m)
  \/ rel = "FROM_PEER"     /\ l.phase \in {"settle", "down", "done"}
  \/ rel = "FROM_PROVIDER" /\ DescentDone(g, l, m)

TookIn(g, l, n, rel) ==
  \/ rel = "FROM_CUSTOMER" /\ ClimbDone(g, l, n)
  \/ rel = "FROM_PEER"     /\ l.phase \in {"down", "done"}
  \/ rel = "FROM_PROVIDER" /\ DescentDone(g, l, n)

\* The loop check and the ROV policy of n let m's best route pass.
Passes(n, m) == Accepts(n, best[m]) /\ ~(n \in graph.rov /\ best[m].rov_invalid)

\* What n keeps of m's best route, and what m sends of it.
RouteVia(n, m) == PrependASN(Export(m, best[m], RelationTo(n, m)), n, m, RelationTo(n, m))

Message(n, m) == Export(m, best[m], RelationTo(n, m))

Source(l, n, m) ==
  /\ m \in Neighbours(n)
  /\ TookIn(graph, l, n, RelationTo(n, m))
  /\ HandsOn(m, RelationTo(n, m)) /\ Passes(n, m)

Waiting(n, m) ==
  /\ m \in Neighbours(n)
  /\ Sent(graph, loop, m, RelationTo(n, m)) /\ ~TookIn(graph, loop, n, RelationTo(n, m))
  /\ HandsOn(m, RelationTo(n, m))

RoutesInv ==
  \A n \in ASN :
    /\ DOMAIN routes[n] = {m \in ASN : (m = n /\ Own(n) # {}) \/ Source(loop, n, m)}
    /\ n \in DOMAIN routes[n] => routes[n][n] \in Own(n)
    /\ \A m \in DOMAIN routes[n] \ {n} : routes[n][m] = RouteVia(n, m)

HeardInv ==
  \A n \in ASN : heard[n] = {Message(n, m) : m \in {a \in ASN : Waiting(n, a)}}

ExactInv == SimplyRelated => RoutesInv /\ HeardInv

\* The ASes that use a route of a customer or their own.
Up(n) == HandsOn(n, "FROM_CUSTOMER")

UpASes == {n \in ASN : Up(n)}

\* Ranks along a path: rising up to the turn, falling after it, which is where
\* the ASes in up are.
Turned(rank, up, path, turn) ==
  /\ \A k \in 1..Len(path) : path[k] \in up <=> k >= turn
  /\ \A j, k \in 1..Len(path) : j < k =>
       /\ j >= turn => rank[path[k]] < rank[path[j]]
       /\ k < turn  => rank[path[j]] < rank[path[k]]

PathInv ==
  SimplyRelated =>
    \A n \in ASN : best[n] # NoRoute =>
      \E turn \in 1..(Len(best[n].path) + 1) : Turned(graph.rank, UpASes, best[n].path, turn)

LEMMA Related ==
  ASSUME WellFormed(graph), SimplyRelated, NEW n \in ASN, NEW m \in ASN
  PROVE  /\ m \in Neighbours(n) =>
              m # n /\ RelationTo(n, m) \in {"FROM_CUSTOMER", "FROM_PEER", "FROM_PROVIDER"}
         /\ n \in graph.providers[m] <=>
              m \in Neighbours(n) /\ RelationTo(n, m) = "FROM_CUSTOMER"
         /\ n \in graph.peers[m] <=>
              m \in Neighbours(n) /\ RelationTo(n, m) = "FROM_PEER"
         /\ m \in graph.providers[n] <=>
              m \in Neighbours(n) /\ RelationTo(n, m) = "FROM_PROVIDER"
         /\ n \in graph.providers[m] => graph.rank[m] < graph.rank[n]
         /\ m \in graph.providers[n] => graph.rank[n] < graph.rank[m]
         /\ graph.rank[n] \in Nat /\ graph.rank[m] \in Nat
<1>1. /\ graph.rank[n] \in Nat /\ graph.rank[m] \in Nat
      /\ n \in graph.providers[m] => graph.rank[m] < graph.rank[n]
      /\ m \in graph.providers[n] => graph.rank[n] < graph.rank[m]
      /\ m \in graph.peers[n] <=> n \in graph.peers[m]
      /\ n \in graph.providers[n] => graph.rank[n] < graph.rank[n]
  BY GraphFacts
<1>2. m \in Neighbours(n) <=>
        m \in graph.providers[n] \/ m \in graph.peers[n] \/ n \in graph.providers[m]
  BY DEF Neighbours, Customers
<1>3. m \in graph.peers[n] => m # n /\ m \notin graph.providers[n] /\ n \notin graph.providers[m]
  BY DEF SimplyRelated, Customers
<1>4. ~(m \in graph.providers[n] /\ n \in graph.providers[m])
  BY <1>1
<1>5. m \in graph.providers[n] \/ n \in graph.providers[m] => m # n
  BY <1>1
<1>6. CASE n \in graph.providers[m]
  <2>1. RelationTo(n, m) = "FROM_CUSTOMER"
    BY <1>1, <1>3, <1>4, <1>6 DEF RelationTo
  <2>2. QED BY <1>1, <1>2, <1>3, <1>4, <1>5, <1>6, <2>1
<1>7. CASE n \in graph.peers[m]
  <2>1. RelationTo(n, m) = "FROM_PEER"
    BY <1>1, <1>3, <1>7 DEF RelationTo
  <2>2. QED BY <1>1, <1>2, <1>3, <1>7, <2>1
<1>8. CASE m \in graph.providers[n]
  <2>1. RelationTo(n, m) = "FROM_PROVIDER"
    BY <1>1, <1>3, <1>4, <1>8 DEF RelationTo
  <2>2. QED BY <1>1, <1>2, <1>3, <1>4, <1>5, <1>8, <2>1
<1>9. QED BY <1>1, <1>2, <1>6, <1>7, <1>8

\* The turns of the ASes: who acts processes all that has been sent to it, and
\* a loop's members send for the first time, to ASes whose turn comes later.
LEMMA Turns ==
  ASSUME TypeInv, ShapeInv, Step, Iterations = 1, SimplyRelated, NEW n \in ASN, NEW m \in Neighbours(n)
  PROVE  LET rel   == RelationTo(n, m)
             sends == m \in Members(graph, loop) /\ n \in Receivers(graph, loop, m)
         IN  /\ TookIn(graph, loop, n, rel) => Sent(graph, loop, m, rel)
             /\ n \notin Acting => (TookIn(graph, loop', n, rel) <=> TookIn(graph, loop, n, rel))
             /\ n \in Acting => (TookIn(graph, loop', n, rel) <=> Sent(graph, loop, m, rel))
             /\ Sent(graph, loop', m, rel) <=> Sent(graph, loop, m, rel) \/ sends
             /\ sends => SentAs(loop) = rel /\ ~TookIn(graph, loop', n, rel)
<1> DEFINE rel   == RelationTo(n, m)
           sends == m \in Members(graph, loop) /\ n \in Receivers(graph, loop, m)
           rn    == graph.rank[n]
           rm    == graph.rank[m]
           next  == NextLoop(graph, loop)
<1>1. /\ loop' = next /\ loop.phase # "done" /\ WellFormed(graph)
      /\ loop \in LoopType /\ loop.iteration = 1
  BY DEF TypeInv, ShapeInv, Step
<1>2. /\ next \in LoopType
      /\ \/ /\ loop.phase = "up" /\ loop.rank < MaxRank(graph)
            /\ next.phase = "up" /\ next.rank = loop.rank + 1
         \/ loop.phase = "up" /\ loop.rank >= MaxRank(graph) /\ next.phase = "drain"
         \/ loop.phase = "drain" /\ next.phase = "across"
         \/ loop.phase = "across" /\ next.phase = "settle"
         \/ loop.phase = "settle" /\ next.phase = "down" /\ next.rank = MaxRank(graph)
         \/ loop.phase = "down" /\ loop.rank > 0 /\ next.phase = "down" /\ next.rank = loop.rank - 1
         \/ loop.phase = "down" /\ loop.rank = 0 /\ next.phase = "done"
  <2>1. ~(loop.iteration < Iterations)
    BY <1>1
  <2>2. QED BY <1>1, <2>1, NextLoopResult
<1>3. /\ m \in ASN /\ m # n
      /\ rn \in Nat /\ rm \in Nat /\ MaxRank(graph) \in Nat /\ rn <= MaxRank(graph) /\ rm <= MaxRank(graph)
      /\ loop.rank \in Nat /\ next.rank \in Nat
      /\ \/ rel = "FROM_CUSTOMER" /\ n \in graph.providers[m] /\ rm < rn
         \/ rel = "FROM_PEER" /\ n \in graph.peers[m]
         \/ rel = "FROM_PROVIDER" /\ m \in graph.providers[n] /\ rn < rm
      /\ n \in graph.providers[m] <=> rel = "FROM_CUSTOMER"
      /\ n \in graph.peers[m] <=> rel = "FROM_PEER"
      /\ m \in graph.providers[n] <=> rel = "FROM_PROVIDER"
  <2>1. m \in ASN
    BY <1>1, GraphFacts DEF Neighbours, Customers
  <2>2. QED BY <1>1, <1>2, <2>1, Related, GraphFacts DEF LoopType
<1>4. /\ m \in Members(graph, loop) <=> loop.phase \in {"drain", "across", "settle"} \/ rm = loop.rank
      /\ n \in Acting <=> loop.phase \in {"drain", "settle"} \/ (loop.phase \in {"up", "down"} /\ rn = loop.rank)
  BY <1>1, <1>2, <1>3 DEF Members, Acting, Processes
<1>5. n \in Receivers(graph, loop, m) <=>
        \/ loop.phase = "up" /\ rel = "FROM_CUSTOMER"
        \/ loop.phase = "across" /\ rel = "FROM_PEER"
        \/ loop.phase = "down" /\ rel = "FROM_PROVIDER"
  BY <1>2, <1>3 DEF Receivers, Customers
<1>6. /\ SentAs(loop) = IF loop.phase = "up" THEN "FROM_CUSTOMER"
                        ELSE IF loop.phase = "across" THEN "FROM_PEER" ELSE "FROM_PROVIDER"
  BY DEF SentAs
<1> HIDE DEF rel, rn, rm, next
<1>7. /\ TookIn(graph, loop, n, rel) => Sent(graph, loop, m, rel)
      /\ n \notin Acting => (TookIn(graph, next, n, rel) <=> TookIn(graph, loop, n, rel))
      /\ n \in Acting => (TookIn(graph, next, n, rel) <=> Sent(graph, loop, m, rel))
      /\ Sent(graph, next, m, rel) <=> Sent(graph, loop, m, rel) \/ sends
      /\ sends => SentAs(loop) = rel /\ ~TookIn(graph, next, n, rel)
  <2>1. CASE rel = "FROM_CUSTOMER"
    BY <1>2, <1>3, <1>4, <1>5, <1>6, <2>1 DEF TookIn, Sent, ClimbDone, rn, rm
  <2>2. CASE rel = "FROM_PEER"
    BY <1>2, <1>3, <1>4, <1>5, <1>6, <2>2 DEF TookIn, Sent
  <2>3. CASE rel = "FROM_PROVIDER"
    BY <1>2, <1>3, <1>4, <1>5, <1>6, <2>3 DEF TookIn, Sent, DescentDone, rn, rm
  <2>4. QED BY <1>3, <2>1, <2>2, <2>3
<1>8. QED BY <1>1, <1>7 DEF rel

\* An AS has one route of its own at most.
LEMMA OwnResult ==
  ASSUME TypeInv, NEW n \in ASN
  PROVE  /\ \A a, b \in Own(n) : a = b
         /\ \A own \in Own(n) : /\ own \in Announcement /\ own.next_hop = n
                                /\ own.path = <<n>> /\ own.received_from = "ORIGIN"
                                /\ own.rov_invalid => n \notin graph.rov
<1> DEFINE own == Seeded(graph, seeds, n).best
<1>1. Own(n) = {ann \in {own} : ann # NoRoute} /\ seeds \in [ASN -> {"none", "valid", "invalid"}]
  BY DEF Own, TypeInv
<1>2. \/ own = NoRoute
      \/ /\ own \in Announcement
         /\ own.path = <<n>> /\ own.next_hop = n /\ own.received_from = "ORIGIN"
         /\ seeds[n] = IF own.rov_invalid THEN "invalid" ELSE "valid"
         /\ own.rov_invalid => n \notin graph.rov
  BY <1>1, SeededResult
<1> HIDE DEF own
<1>3. QED BY <1>1, <1>2

LEMMA RouteViaResult ==
  ASSUME TypeInv, SimplyRelated, NEW n \in ASN, NEW m \in Neighbours(n), best[m] # NoRoute
  PROVE  /\ m \in ASN /\ m # n
         /\ best[m] \in Announcement
         /\ RouteVia(n, m) \in Announcement
         /\ RouteVia(n, m).next_hop = m
         /\ RouteVia(n, m).received_from = RelationTo(n, m)
         /\ RouteVia(n, m).rov_invalid = best[m].rov_invalid
         /\ RouteVia(n, m).path = PrependASN(best[m], n, m, RelationTo(n, m)).path
         /\ Message(n, m).next_hop = m /\ Message(n, m).received_from = RelationTo(n, m)
         /\ Message(n, m).path = best[m].path
         /\ Message(n, m).rov_invalid = best[m].rov_invalid
<1>1. m \in ASN
  BY GraphFacts DEF TypeInv, Neighbours, Customers
<1>2. m # n /\ RelationTo(n, m) \in Relationship
  BY <1>1, Related DEF TypeInv, Relationship
<1>3. best[m] \in Announcement
  BY <1>1, BestNow
<1> DEFINE sent == Export(m, best[m], RelationTo(n, m))
<1>4. /\ sent \in Announcement /\ sent.path = best[m].path /\ sent.next_hop = m
      /\ sent.received_from = RelationTo(n, m) /\ sent.rov_invalid = best[m].rov_invalid
  BY <1>1, <1>2, <1>3, ExportResult
<1> HIDE DEF sent
<1>5. /\ RouteVia(n, m) = PrependASN(sent, n, m, RelationTo(n, m))
      /\ Message(n, m) = sent
  BY DEF RouteVia, Message, sent
<1>6. PrependASN(sent, n, m, RelationTo(n, m)).path = PrependASN(best[m], n, m, RelationTo(n, m)).path
  BY <1>4 DEF PrependASN, MakeAnnouncement
<1>7. /\ RouteVia(n, m) \in Announcement
      /\ RouteVia(n, m).next_hop = m
      /\ RouteVia(n, m).received_from = RelationTo(n, m)
      /\ RouteVia(n, m).rov_invalid = sent.rov_invalid
  BY <1>1, <1>2, <1>4, <1>5, PrependResult
<1>8. QED BY <1>1, <1>2, <1>3, <1>4, <1>5, <1>6, <1>7

\* What an AS keeps are the routes that wait for it and pass.
LEMMA KeptExact ==
  ASSUME TypeInv, HeardInv, SimplyRelated, NEW n \in ASN
  PROVE  /\ \A m \in ASN : Waiting(n, m) /\ Passes(n, m) => RouteVia(n, m) \in Kept(n)
         /\ \A ann \in Kept(n) : /\ ann.next_hop \in ASN
                                 /\ Waiting(n, ann.next_hop) /\ Passes(n, ann.next_hop)
                                 /\ ann = RouteVia(n, ann.next_hop)
<1>1. heard[n] = {Message(n, m) : m \in {a \in ASN : Waiting(n, a)}}
  BY DEF HeardInv
<1>2. ASSUME NEW m \in ASN, Waiting(n, m)
      PROVE  /\ RouteVia(n, m).next_hop = m
             /\ Accepts(n, Message(n, m)) /\ ~(n \in graph.rov /\ Message(n, m).rov_invalid)
                  <=> Passes(n, m)
             /\ PrependASN(Message(n, m), n, Message(n, m).next_hop, Message(n, m).received_from)
                  = RouteVia(n, m)
  <2>1. m \in Neighbours(n) /\ best[m] # NoRoute
    BY <1>2 DEF Waiting, HandsOn
  <2>2. /\ RouteVia(n, m).next_hop = m
        /\ Message(n, m).next_hop = m /\ Message(n, m).received_from = RelationTo(n, m)
        /\ Message(n, m).path = best[m].path
        /\ Message(n, m).rov_invalid = best[m].rov_invalid
    BY <2>1, RouteViaResult
  <2>3. Accepts(n, Message(n, m)) <=> Accepts(n, best[m])
    BY <2>2 DEF Accepts, ContainsASN
  <2>4. RouteVia(n, m) = PrependASN(Message(n, m), n, m, RelationTo(n, m))
    BY DEF RouteVia, Message
  <2>5. QED BY <2>2, <2>3, <2>4 DEF Passes
<1>3. ASSUME NEW m \in ASN, Waiting(n, m), Passes(n, m)
      PROVE  RouteVia(n, m) \in Kept(n)
  <2>1. Message(n, m) \in heard[n]
    BY <1>1, <1>3
  <2>2. QED BY <1>2, <1>3, <2>1 DEF Kept
<1>4. ASSUME NEW ann \in Kept(n)
      PROVE  /\ ann.next_hop \in ASN
             /\ Waiting(n, ann.next_hop) /\ Passes(n, ann.next_hop)
             /\ ann = RouteVia(n, ann.next_hop)
  <2>1. PICK a \in heard[n] : /\ Accepts(n, a) /\ ~(n \in graph.rov /\ a.rov_invalid)
                              /\ ann = PrependASN(a, n, a.next_hop, a.received_from)
    BY <1>4 DEF Kept
  <2>2. PICK m \in ASN : Waiting(n, m) /\ a = Message(n, m)
    BY <1>1, <2>1
  <2>3. ann = RouteVia(n, m) /\ Passes(n, m) /\ ann.next_hop = m
    BY <1>2, <2>1, <2>2
  <2>4. QED BY <2>2, <2>3
<1>5. QED BY <1>3, <1>4

\* The tables after a step, in terms of the best routes before it.
LEMMA StepRoutesExact ==
  ASSUME TypeInv, ShapeInv, RoutesInv, HeardInv, Step, Iterations = 1, SimplyRelated, NEW n \in ASN
  PROVE  /\ DOMAIN routes'[n] = {m \in ASN : (m = n /\ Own(n) # {}) \/ Source(loop', n, m)}
         /\ n \in DOMAIN routes'[n] => routes'[n][n] \in Own(n)
         /\ \A m \in DOMAIN routes'[n] \ {n} : routes'[n][m] = RouteVia(n, m)
<1>1. /\ DOMAIN routes[n] = {m \in ASN : (m = n /\ Own(n) # {}) \/ Source(loop, n, m)}
      /\ n \in DOMAIN routes[n] => routes[n][n] \in Own(n)
      /\ \A m \in DOMAIN routes[n] \ {n} : routes[n][m] = RouteVia(n, m)
  BY DEF RoutesInv
<1>2. routes'[n] = IF n \in Acting THEN Learn(n) ELSE routes[n]
  BY DEF Step
<1>3. CASE n \notin Acting
  <2>1. \A m : Source(loop', n, m) <=> Source(loop, n, m)
    BY <1>3, Turns DEF Source
  <2>2. QED BY <1>1, <1>2, <1>3, <2>1
<1>4. CASE n \in Acting
  <2>1. \A m : Source(loop', n, m) <=> Source(loop, n, m) \/ (Waiting(n, m) /\ Passes(n, m))
    BY <1>4, Turns DEF Source, Waiting
  <2>2. \A m : m \in {ann.next_hop : ann \in Kept(n)} <=>
                 m \in ASN /\ Waiting(n, m) /\ Passes(n, m)
    <3>1. ASSUME NEW m \in ASN, Waiting(n, m), Passes(n, m)
          PROVE  \E ann \in Kept(n) : m = ann.next_hop
      <4>1. m \in Neighbours(n) /\ best[m] # NoRoute
        BY <3>1 DEF Waiting, HandsOn
      <4>2. RouteVia(n, m) \in Kept(n) /\ RouteVia(n, m).next_hop = m
        BY <3>1, <4>1, KeptExact, RouteViaResult
      <4>3. QED BY <4>2
    <3>2. QED BY <3>1, KeptExact
  <2>3. DOMAIN Learn(n) = {m \in ASN : (m = n /\ Own(n) # {}) \/ Source(loop', n, m)}
    <3>1. DOMAIN Learn(n) = DOMAIN routes[n] \cup {ann.next_hop : ann \in Kept(n)}
      BY LearnResult
    <3>2. QED BY <1>1, <2>1, <2>2, <3>1
  <2>4. ~Waiting(n, n)
    BY Related DEF TypeInv, Waiting
  <2>5. ASSUME NEW m \in DOMAIN Learn(n)
        PROVE  \/ m = n /\ Learn(n)[m] \in Own(n)
               \/ m # n /\ Learn(n)[m] = RouteVia(n, m)
    <3>1. CASE Learn(n)[m] \in Kept(n) /\ Learn(n)[m].next_hop = m
      BY <2>4, <3>1, KeptExact
    <3>2. CASE m \in DOMAIN routes[n] /\ Learn(n)[m] = routes[n][m]
      BY <1>1, <3>2
    <3>3. QED BY <3>1, <3>2, LearnResult
  <2>6. routes'[n] = Learn(n)
    BY <1>2, <1>4
  <2>7. QED BY <2>3, <2>5, <2>6
<1>5. QED BY <1>3, <1>4

\* Nothing that is known is forgotten or replaced.
LEMMA RoutesGrow ==
  ASSUME TypeInv, ShapeInv, RoutesInv, HeardInv, Step, Iterations = 1, SimplyRelated,
         NEW n \in ASN, NEW m \in DOMAIN routes[n]
  PROVE  m \in DOMAIN routes'[n] /\ routes'[n][m] = routes[n][m]
<1>1. /\ m \in ASN /\ ((m = n /\ Own(n) # {}) \/ Source(loop, n, m))
      /\ n \in DOMAIN routes[n] => routes[n][n] \in Own(n)
      /\ m # n => routes[n][m] = RouteVia(n, m)
  BY DEF RoutesInv
<1>2. Source(loop, n, m) => Source(loop', n, m)
  BY Turns DEF Source
<1>3. m \in DOMAIN routes'[n]
  BY <1>1, <1>2, StepRoutesExact
<1>4. CASE m = n
  BY <1>1, <1>3, <1>4, StepRoutesExact, OwnResult
<1>5. CASE m # n
  BY <1>1, <1>3, <1>5, StepRoutesExact
<1>6. QED BY <1>4, <1>5

\* The best of a table comes from a customer or is an own route if any in it does.
LEMMA UpBest ==
  ASSUME NEW table, NEW b, b = MostPreferred({table[m] : m \in DOMAIN table}),
         \A m \in DOMAIN table : table[m] \in Announcement
  PROVE  b # NoRoute /\ b.received_from \in {"ORIGIN", "FROM_CUSTOMER"} <=>
           \E m \in DOMAIN table : table[m].received_from \in {"ORIGIN", "FROM_CUSTOMER"}
<1>1. /\ b # NoRoute => \E m \in DOMAIN table : b = table[m]
      /\ \A m \in DOMAIN table : b # NoRoute /\ ~PreferredTo(table[m], b)
      /\ b \in Announcement \cup {NoRoute}
  BY BestOfTable
<1>2. ASSUME NEW m \in DOMAIN table, table[m].received_from \in {"ORIGIN", "FROM_CUSTOMER"}
      PROVE  b # NoRoute /\ b.received_from \in {"ORIGIN", "FROM_CUSTOMER"}
  <2>1. b # NoRoute /\ b \in Announcement /\ ~PreferredTo(table[m], b)
    BY <1>1, <1>2
  <2>2. b.received_from \in Relationship
    BY <2>1 DEF Announcement
  <2>3. ~(Place(table[m].received_from) < Place(b.received_from))
    BY <2>1 DEF PreferredTo
  <2>4. QED BY <1>2, <2>1, <2>2, <2>3, PlaceValues DEF Relationship
<1>3. QED BY <1>1, <1>2

\* Who does not act keeps its best route.
LEMMA IdleKeepsBest ==
  ASSUME TypeInv, Step, NEW n \in ASN, n \notin Acting
  PROVE  best'[n] = best[n]
<1>1. routes'[n] = routes[n] /\ best'[n] = MostPreferred({routes'[n][m] : m \in DOMAIN routes'[n]})
  BY StepRoutes
<1>2. best[n] = MostPreferred({routes[n][m] : m \in DOMAIN routes[n]})
  BY DEF TypeInv, Held
<1>3. QED BY <1>1, <1>2

\* Once an AS has had its turn on the way up, it is settled whether its route is
\* a customer's or its own, and if it is, the route is.
LEMMA ClimbedKeepsUp ==
  ASSUME TypeInv, ShapeInv, RoutesInv, HeardInv, Step, Iterations = 1, SimplyRelated,
         NEW n \in ASN, ClimbDone(graph, loop, n)
  PROVE  /\ Up(n)' <=> Up(n)
         /\ Up(n) => best'[n] = best[n]
<1> DEFINE old == routes[n]
           new == routes'[n]
           ups == {"ORIGIN", "FROM_CUSTOMER"}
<1>1. /\ \A m \in DOMAIN old : old[m] \in Announcement /\ old[m].next_hop = m
      /\ \A m \in DOMAIN new : new[m] \in Announcement /\ new[m].next_hop = m
      /\ best[n] = MostPreferred({old[m] : m \in DOMAIN old})
      /\ best'[n] = MostPreferred({new[m] : m \in DOMAIN new})
  <2>1. best[n] = MostPreferred({old[m] : m \in DOMAIN old})
    BY DEF TypeInv, Held
  <2>2. \A m \in DOMAIN old : old[m] \in Announcement /\ old[m].next_hop = m
    BY DEF TypeInv
  <2>3. QED BY <2>1, <2>2, StepRoutes
<1>2. \A m \in DOMAIN old : m \in DOMAIN new /\ new[m] = old[m]
  BY RoutesGrow
<1>3. ASSUME NEW m \in DOMAIN new, m \notin DOMAIN old
      PROVE  new[m].received_from \in {"FROM_PEER", "FROM_PROVIDER"}
  <2>1. /\ m \in ASN /\ ((m = n /\ Own(n) # {}) \/ Source(loop', n, m))
        /\ m # n => new[m] = RouteVia(n, m)
    BY <1>3, StepRoutesExact
  <2>2. ~(m = n /\ Own(n) # {}) /\ ~Source(loop, n, m)
    BY <1>3, <2>1 DEF RoutesInv
  <2>3. m \in Neighbours(n) /\ best[m] # NoRoute
    BY <2>1, <2>2 DEF Source, HandsOn
  <2>4. RelationTo(n, m) # "FROM_CUSTOMER"
    BY <2>1, <2>2 DEF Source, TookIn
  <2>5. m # n /\ RelationTo(n, m) \in {"FROM_CUSTOMER", "FROM_PEER", "FROM_PROVIDER"}
    BY <2>1, <2>3, Related DEF TypeInv
  <2>6. QED BY <2>1, <2>3, <2>4, <2>5, RouteViaResult
<1>4. /\ Up(n) <=> \E m \in DOMAIN old : old[m].received_from \in ups
      /\ Up(n)' <=> \E m \in DOMAIN new : new[m].received_from \in ups
  <2>1. /\ Up(n) <=> best[n] # NoRoute /\ best[n].received_from \in ups
        /\ Up(n)' <=> best'[n] # NoRoute /\ best'[n].received_from \in ups
    BY DEF Up, HandsOn
  <2> HIDE DEF old, new
  <2>2. QED BY <1>1, <2>1, UpBest
<1>5. Up(n)' <=> Up(n)
  BY <1>2, <1>3, <1>4
<1>6. ASSUME Up(n) PROVE best'[n] = best[n]
  <2>1. best[n] # NoRoute /\ best[n].received_from \in ups
    BY <1>6 DEF Up, HandsOn
  <2>2. /\ \E m \in DOMAIN old : best[n] = old[m]
        /\ \A m \in DOMAIN old : ~PreferredTo(old[m], best[n])
    BY <2>1, BestNow
  <2>3. \A m \in DOMAIN new : ~PreferredTo(new[m], best[n])
    <3>1. SUFFICES ASSUME NEW m \in DOMAIN new, m \notin DOMAIN old
                   PROVE  ~PreferredTo(new[m], best[n])
      BY <1>2, <2>2
    <3>2. new[m].received_from \in {"FROM_PEER", "FROM_PROVIDER"}
      BY <1>3, <3>1
    <3>3. QED BY <2>1, <3>2, PlaceValues DEF PreferredTo
  <2>4. \E m \in DOMAIN new : best[n] = new[m]
    BY <1>2, <2>2
  <2> DEFINE held == {new[m] : m \in DOMAIN new}
  <2>5. /\ held \subseteq Announcement /\ best[n] \in held
        /\ \A a, b \in held : a.next_hop = b.next_hop => a = b
        /\ \A b \in held : ~PreferredTo(b, best[n])
    <3>1. \A m \in DOMAIN new : new[m] \in Announcement /\ new[m].next_hop = m
      BY <1>1
    <3> HIDE DEF new
    <3>2. \A a \in held : \E m \in DOMAIN new : a = new[m]
      OBVIOUS
    <3>3. best[n] \in held
      BY <2>4
    <3> HIDE DEF held
    <3>4. \A a \in held : a \in Announcement /\ ~PreferredTo(a, best[n])
      BY <2>3, <3>1, <3>2
    <3>5. \A a, b \in held : a.next_hop = b.next_hop => a = b
      BY <3>1, <3>2
    <3>6. QED BY <3>3, <3>4, <3>5
  <2>6. best'[n] = MostPreferred(held)
    BY StepRoutes
  <2> HIDE DEF held
  <2>7. QED BY <2>5, <2>6, MostPreferredUnique
<1>7. QED BY <1>5, <1>6

\* A route that has been sent is not changed any more.
LEMMA SentIsFinal ==
  ASSUME TypeInv, ShapeInv, RoutesInv, HeardInv, Step, Iterations = 1, SimplyRelated,
         NEW n \in ASN, NEW m \in Neighbours(n),
         NEW rel, rel = RelationTo(n, m), Sent(graph, loop, m, rel)
  PROVE  /\ HandsOn(m, rel)' <=> HandsOn(m, rel)
         /\ HandsOn(m, rel) => best'[m] = best[m]
<1>1. /\ loop.phase \in Phases /\ loop.phase # "done" /\ m \in ASN
      /\ rel \in {"FROM_CUSTOMER", "FROM_PEER", "FROM_PROVIDER"}
      /\ graph.rank[m] \in Nat /\ loop.rank \in Nat
  <2>1. m \in ASN
    BY GraphFacts DEF TypeInv, Neighbours, Customers
  <2>2. loop.phase \in Phases /\ loop.phase # "done" /\ loop.rank \in Nat
    BY DEF TypeInv, LoopType, Step
  <2>3. QED BY <2>1, <2>2, Related DEF TypeInv
<1>2. CASE rel = "FROM_PROVIDER"
  <2>1. loop.phase = "down" /\ graph.rank[m] > loop.rank
    BY <1>1, <1>2 DEF Sent, DescentDone
  <2>2. m \notin Acting
    BY <1>1, <2>1 DEF Acting, Members
  <2>3. best'[m] = best[m]
    BY <1>1, <2>2, IdleKeepsBest
  <2>4. QED BY <2>3 DEF HandsOn
<1>3. CASE rel # "FROM_PROVIDER"
  <2>1. ClimbDone(graph, loop, m)
    BY <1>1, <1>3 DEF Sent, ClimbDone
  <2>2. /\ HandsOn(m, rel)' <=> Up(m)'
        /\ HandsOn(m, rel) <=> Up(m)
    BY <1>3 DEF HandsOn, Up
  <2>3. QED BY <1>1, <2>1, <2>2, ClimbedKeepsUp
<1>4. QED BY <1>2, <1>3

LEMMA InitExactInv == Init => ExactInv
<1>1. SUFFICES ASSUME Init PROVE RoutesInv /\ HeardInv
  BY DEF ExactInv
<1>2. TypeInv /\ loop.phase = "up" /\ loop.rank = 0
  BY <1>1, InitTypeInv DEF Init, FirstLoop, LoopHead
<1>3. ASSUME NEW n \in ASN PROVE ~ClimbDone(graph, loop, n) /\ ~DescentDone(graph, loop, n)
  <2>1. graph.rank[n] \in Nat
    BY <1>2, <1>3, GraphFacts DEF TypeInv
  <2>2. QED BY <1>2, <2>1 DEF ClimbDone, DescentDone
<1>4. ASSUME NEW n \in ASN, NEW m \in ASN PROVE ~Source(loop, n, m) /\ ~Waiting(n, m)
  BY <1>2, <1>3 DEF Source, Waiting, TookIn, Sent
<1>5. ASSUME NEW n \in ASN
      PROVE  /\ DOMAIN routes[n] = {m \in ASN : m = n /\ Own(n) # {}}
             /\ n \in DOMAIN routes[n] => routes[n][n] \in Own(n)
             /\ heard[n] = {}
  <2>1. Own(n) = {ann \in {best[n]} : ann # NoRoute}
    BY <1>1, InitRoutes DEF Own
  <2>2. CASE best[n] = NoRoute
    <3>1. Own(n) = {} /\ DOMAIN routes[n] = {} /\ heard[n] = {}
      BY <1>1, <2>1, <2>2, InitRoutes
    <3>2. QED BY <3>1
  <2>3. CASE best[n] # NoRoute
    <3>1. Own(n) = {best[n]} /\ DOMAIN routes[n] = {n} /\ routes[n][n] = best[n] /\ heard[n] = {}
      BY <1>1, <2>1, <2>3, InitRoutes
    <3>2. QED BY <3>1
  <2>4. QED BY <2>2, <2>3
<1>6. RoutesInv
  BY <1>4, <1>5 DEF RoutesInv
<1>7. HeardInv
  BY <1>4, <1>5 DEF HeardInv
<1>8. QED BY <1>6, <1>7

LEMMA StepExactInv ==
  Iterations = 1 /\ TypeInv /\ ShapeInv /\ ExactInv /\ Step => ExactInv'
<1>1. (graph' = graph /\ seeds' = seeds) \/ ~Step
  BY DEF Step
<1>2. SUFFICES ASSUME Iterations = 1, TypeInv, ShapeInv, RoutesInv, HeardInv, Step, SimplyRelated
               PROVE  RoutesInv' /\ HeardInv'
  BY <1>1 DEF ExactInv, SimplyRelated, Customers
<1>3. graph' = graph /\ seeds' = seeds
  BY <1>1, <1>2
<1>4. ASSUME NEW n \in ASN
      PROVE  Own(n)' = Own(n) /\ Neighbours(n)' = Neighbours(n)
  BY <1>3 DEF Own, Neighbours, Customers
<1>5. ASSUME NEW n \in ASN, NEW m \in ASN PROVE RelationTo(n, m)' = RelationTo(n, m)
  BY <1>3 DEF RelationTo
  \* Seen from a neighbour, a route that has been sent is the same after the step.
<1>6. ASSUME NEW n \in ASN, NEW m \in ASN, m \in Neighbours(n),
             Sent(graph, loop, m, RelationTo(n, m))
      PROVE  /\ HandsOn(m, RelationTo(n, m))' <=> HandsOn(m, RelationTo(n, m))
             /\ HandsOn(m, RelationTo(n, m)) =>
                  /\ best'[m] = best[m]
                  /\ Passes(n, m)' <=> Passes(n, m)
                  /\ RouteVia(n, m)' = RouteVia(n, m)
                  /\ Message(n, m)' = Message(n, m)
  <2> DEFINE rel == RelationTo(n, m)
  <2>1. rel' = rel
    BY <1>5
  <2> HIDE DEF rel
  <2>2. \A r : r = rel => /\ HandsOn(m, r)' <=> HandsOn(m, r)
                          /\ HandsOn(m, r) => best'[m] = best[m]
    BY <1>2, <1>6, SentIsFinal DEF rel
  <2>3. HandsOn(m, rel)' <=> HandsOn(m, rel)
    BY <2>1, <2>2 DEF HandsOn
  <2>4. ASSUME best'[m] = best[m]
        PROVE  /\ Passes(n, m)' <=> Passes(n, m)
               /\ RouteVia(n, m)' = RouteVia(n, m)
               /\ Message(n, m)' = Message(n, m)
    BY <1>3, <1>5, <2>4 DEF Passes, RouteVia, Message
  <2>5. QED BY <2>2, <2>3, <2>4 DEF rel
<1>7. ASSUME NEW n \in ASN, NEW m \in ASN
      PROVE  /\ Source(loop, n, m)' <=> Source(loop', n, m)
             /\ Source(loop', n, m) => RouteVia(n, m)' = RouteVia(n, m)
  <2>1. CASE m \in Neighbours(n) /\ TookIn(graph, loop', n, RelationTo(n, m))
    <3>1. Sent(graph, loop, m, RelationTo(n, m))
      BY <1>2, <2>1, Turns
    <3>2. /\ HandsOn(m, RelationTo(n, m))' <=> HandsOn(m, RelationTo(n, m))
          /\ HandsOn(m, RelationTo(n, m)) =>
               (Passes(n, m)' <=> Passes(n, m)) /\ RouteVia(n, m)' = RouteVia(n, m)
      BY <1>6, <2>1, <3>1
    <3>3. Source(loop, n, m)' <=> HandsOn(m, RelationTo(n, m))' /\ Passes(n, m)'
      BY <1>3, <1>4, <1>5, <2>1 DEF Source
    <3>4. Source(loop', n, m) <=> HandsOn(m, RelationTo(n, m)) /\ Passes(n, m)
      BY <2>1 DEF Source
    <3>5. QED BY <3>2, <3>3, <3>4
  <2>2. CASE ~(m \in Neighbours(n) /\ TookIn(graph, loop', n, RelationTo(n, m)))
    BY <1>3, <1>4, <1>5, <2>2 DEF Source
  <2>3. QED BY <2>1, <2>2
<1>8. RoutesInv'
  <2>1. SUFFICES ASSUME NEW n \in ASN
                 PROVE  /\ DOMAIN routes'[n] = {m \in ASN : (m = n /\ Own(n) # {}) \/ Source(loop, n, m)'}
                        /\ n \in DOMAIN routes'[n] => routes'[n][n] \in Own(n)
                        /\ \A m \in DOMAIN routes'[n] \ {n} : routes'[n][m] = RouteVia(n, m)'
    BY <1>4 DEF RoutesInv
  <2>2. /\ DOMAIN routes'[n] = {m \in ASN : (m = n /\ Own(n) # {}) \/ Source(loop', n, m)}
        /\ n \in DOMAIN routes'[n] => routes'[n][n] \in Own(n)
        /\ \A m \in DOMAIN routes'[n] \ {n} : routes'[n][m] = RouteVia(n, m)
    BY <1>2, StepRoutesExact
  <2>3. DOMAIN routes'[n] = {m \in ASN : (m = n /\ Own(n) # {}) \/ Source(loop, n, m)'}
    BY <1>7, <2>2
  <2>4. ASSUME NEW m \in DOMAIN routes'[n] \ {n} PROVE routes'[n][m] = RouteVia(n, m)'
    BY <1>7, <2>2
  <2>5. QED BY <2>2, <2>3, <2>4
<1>9. HeardInv'
  <2>1. SUFFICES ASSUME NEW n \in ASN
                 PROVE  heard'[n] = {Message(n, m)' : m \in {a \in ASN : Waiting(n, a)'}}
    BY DEF HeardInv
  <2> DEFINE sends(m) == m \in Members(graph, loop) /\ n \in Receivers(graph, loop, m)
  <2>2. heard[n] = {Message(n, m) : m \in {a \in ASN : Waiting(n, a)}}
    BY <1>2 DEF HeardInv
  <2>3. ASSUME NEW m \in ASN, Waiting(n, m), n \notin Acting
        PROVE  Waiting(n, m)' /\ Message(n, m)' = Message(n, m)
    <3>1. /\ m \in Neighbours(n) /\ HandsOn(m, RelationTo(n, m))
          /\ Sent(graph, loop, m, RelationTo(n, m)) /\ ~TookIn(graph, loop, n, RelationTo(n, m))
      BY <2>3 DEF Waiting
    <3>2. /\ Sent(graph, loop', m, RelationTo(n, m)) /\ ~TookIn(graph, loop', n, RelationTo(n, m))
      BY <1>2, <2>3, <3>1, Turns
    <3>3. HandsOn(m, RelationTo(n, m))' /\ Message(n, m)' = Message(n, m)
      BY <1>6, <3>1
    <3>4. QED BY <1>3, <1>4, <1>5, <3>1, <3>2, <3>3 DEF Waiting
  <2>4. ASSUME NEW m \in ASN, sends(m), best'[m] # NoRoute
        PROVE  Waiting(n, m)' /\ Message(n, m)' = Export(m, best'[m], SentAs(loop))
    <3>1. m \in Neighbours(n)
      BY <1>2, <2>4, SendersAndReceivers DEF Neighbours, Customers, WellFormed, TypeInv
    <3>2. /\ SentAs(loop) = RelationTo(n, m)
          /\ Sent(graph, loop', m, RelationTo(n, m)) /\ ~TookIn(graph, loop', n, RelationTo(n, m))
      BY <1>2, <2>4, <3>1, Turns
    <3>3. HandsOn(m, RelationTo(n, m))'
      <4>1. CASE loop.phase \in {"up", "across"}
        <5>1. KnownAs(loop'.phase) = {"ORIGIN", "FROM_CUSTOMER"}
          BY <1>2, <4>1, NextShape
        <5>2. PICK k \in DOMAIN routes'[m] : best'[m] = routes'[m][k]
          BY <1>2, <2>4, StepBest
        <5>3. routes'[m][k].received_from \in KnownAs(loop'.phase)
          <6>1. ShapeInv'
            BY <1>2, StepShapeInv
          <6>2. QED BY <5>2, <6>1 DEF ShapeInv
        <5>4. QED BY <2>4, <5>1, <5>2, <5>3 DEF HandsOn
      <4>2. CASE loop.phase \notin {"up", "across"}
        <5>1. SentAs(loop) = "FROM_PROVIDER"
          BY <4>2 DEF SentAs
        <5>2. RelationTo(n, m)' = "FROM_PROVIDER"
          BY <1>5, <3>2, <5>1
        <5>3. QED BY <2>4, <5>2 DEF HandsOn
      <4>3. QED BY <4>1, <4>2
    <3>4. Message(n, m)' = Export(m, best'[m], SentAs(loop))
      BY <1>5, <3>2 DEF Message
    <3>5. QED BY <1>3, <1>4, <1>5, <3>1, <3>2, <3>3, <3>4 DEF Waiting
  <2>5. ASSUME NEW m \in ASN, Waiting(n, m)'
        PROVE  \/ n \notin Acting /\ Waiting(n, m) /\ Message(n, m)' = Message(n, m)
               \/ sends(m) /\ best'[m] # NoRoute
    <3>1. /\ m \in Neighbours(n) /\ HandsOn(m, RelationTo(n, m))'
          /\ Sent(graph, loop', m, RelationTo(n, m)) /\ ~TookIn(graph, loop', n, RelationTo(n, m))
      BY <1>3, <1>4, <1>5, <2>5 DEF Waiting
    <3>2. best'[m] # NoRoute
      BY <3>1 DEF HandsOn
    <3>3. CASE Sent(graph, loop, m, RelationTo(n, m))
      <4>1. n \notin Acting /\ ~TookIn(graph, loop, n, RelationTo(n, m))
        BY <1>2, <3>1, <3>3, Turns
      <4>2. HandsOn(m, RelationTo(n, m)) /\ Message(n, m)' = Message(n, m)
        BY <1>6, <3>1, <3>3
      <4>3. QED BY <3>1, <3>3, <4>1, <4>2 DEF Waiting
    <3>4. CASE ~Sent(graph, loop, m, RelationTo(n, m))
      BY <1>2, <3>1, <3>2, <3>4, Turns
    <3>5. QED BY <3>3, <3>4
  <2>6. heard'[n] = (IF n \in Acting THEN {} ELSE heard[n])
                      \cup {Export(m, best'[m], SentAs(loop)) :
                              m \in {a \in Members(graph, loop) :
                                       n \in Receivers(graph, loop, a) /\ best'[a] # NoRoute}}
    BY <1>2 DEF Step
  <2>7. Members(graph, loop) \subseteq ASN
    <3>1. loop.phase \in Phases
      BY <1>2 DEF TypeInv, LoopType
    <3>2. QED BY <3>1 DEF Members, Phases
  <2> HIDE DEF sends
  <2>8. ASSUME NEW a \in heard'[n]
        PROVE  \E m \in ASN : Waiting(n, m)' /\ a = Message(n, m)'
    <3>1. CASE n \notin Acting /\ a \in heard[n]
      BY <2>2, <2>3, <3>1
    <3>2. CASE \E m \in Members(graph, loop) :
                 /\ n \in Receivers(graph, loop, m) /\ best'[m] # NoRoute
                 /\ a = Export(m, best'[m], SentAs(loop))
      BY <2>4, <2>7, <3>2 DEF sends
    <3>3. QED BY <2>6, <2>8, <3>1, <3>2
  <2>9. ASSUME NEW m \in ASN, Waiting(n, m)'
        PROVE  Message(n, m)' \in heard'[n]
    <3>1. CASE n \notin Acting /\ Waiting(n, m) /\ Message(n, m)' = Message(n, m)
      BY <2>2, <2>6, <3>1
    <3>2. CASE sends(m) /\ best'[m] # NoRoute
      <4>1. Message(n, m)' = Export(m, best'[m], SentAs(loop))
        BY <2>4, <3>2
      <4>2. m \in {a \in Members(graph, loop) : n \in Receivers(graph, loop, a) /\ best'[a] # NoRoute}
        BY <3>2 DEF sends
      <4>3. QED BY <2>6, <4>1, <4>2
    <3>3. QED BY <2>5, <2>9, <3>1, <3>2
  <2>10. QED BY <2>8, <2>9
<1>10. QED BY <1>8, <1>9

\* A path stays turned when a neighbour goes in front: one that joins the climb,
\* or one that is not an Up AS, beside the top or below its provider.
LEMMA TurnedByPrepending ==
  ASSUME NEW rank \in [ASN -> Nat], NEW up, NEW n \in ASN, NEW old \in Path, NEW new \in Path,
         Len(new) = Len(old) \/ Len(new) = Len(old) + 1,
         new[1] = n, \A k \in 2..Len(new) : new[k] = old[k - 1],
         NEW turn \in 1..(Len(old) + 1), Turned(rank, up, old, turn),
         \/ n \in up /\ turn = 1 /\ rank[old[1]] < rank[n]
         \/ n \notin up /\ turn = 1
         \/ n \notin up /\ rank[n] < rank[old[1]]
  PROVE  \E t \in 1..(Len(new) + 1) : Turned(rank, up, new, t)
<1>1. /\ Len(old) \in Nat \ {0} /\ Len(new) \in Nat \ {0} /\ turn \in Nat \ {0}
      /\ \A k \in 1..Len(old) : old[k] \in ASN /\ rank[old[k]] \in Nat
      /\ rank[n] \in Nat
  BY SMTT(30) DEF Path
<1>2. /\ \A k \in 1..Len(old) : old[k] \in up <=> k >= turn
      /\ \A j, k \in 1..Len(old) : j < k =>
           /\ j >= turn => rank[old[k]] < rank[old[j]]
           /\ k < turn  => rank[old[j]] < rank[old[k]]
  BY DEF Turned
<1>3. \A k \in 1..Len(new) : k # 1 => k - 1 \in 1..Len(old) /\ new[k] = old[k - 1]
  BY <1>1, SMTT(30)
<1> DEFINE Rank(i) == rank[old[i]]
<1>4. /\ \A i \in 1..Len(old) : Rank(i) \in Nat
      /\ \A i, j \in 1..Len(old) : i < j /\ i >= turn => Rank(j) < Rank(i)
      /\ \A i, j \in 1..Len(old) : i < j /\ j < turn => Rank(i) < Rank(j)
      /\ 1 \in 1..Len(old)
  BY <1>1, <1>2
<1> HIDE DEF Rank
<1>5. CASE n \in up
  <2>1. turn = 1 /\ rank[old[1]] < rank[n]
    BY <1>5
  <2>2. ASSUME NEW k \in 1..Len(new) PROVE new[k] \in up <=> k >= 1
    BY <1>1, <1>2, <1>3, <1>5, <2>1
  <2>3. ASSUME NEW j \in 1..Len(new), NEW k \in 1..Len(new), j < k
        PROVE  rank[new[k]] < rank[new[j]] /\ ~(k < 1)
    <3>1. k - 1 \in 1..Len(old) /\ new[k] = old[k - 1]
      BY <1>3, <2>3
    <3>2. CASE j = 1
      <4>1. k - 1 = 1 \/ rank[old[k - 1]] < rank[old[1]]
        <5>1. k - 1 = 1 \/ (1 < k - 1 /\ 1 >= turn)
          BY <2>1, <3>1
        <5>2. k - 1 = 1 \/ Rank(k - 1) < Rank(1)
          BY <1>4, <3>1, <5>1
        <5>3. QED BY <5>2 DEF Rank
      <4>2. rank[old[k - 1]] \in Nat /\ rank[old[1]] \in Nat
        BY <1>1, <1>4, <3>1
      <4>3. rank[old[k - 1]] < rank[n]
        BY <1>1, <2>1, <4>1, <4>2
      <4>4. QED BY <2>3, <3>1, <3>2, <4>3
    <3>3. CASE j # 1
      <4>1. j - 1 \in 1..Len(old) /\ new[j] = old[j - 1] /\ j - 1 < k - 1
        BY <1>1, <1>3, <2>3, <3>3
      <4>2. rank[old[k - 1]] < rank[old[j - 1]]
        <5>1. j - 1 >= turn
          BY <2>1, <4>1
        <5>2. Rank(k - 1) < Rank(j - 1)
          BY <1>4, <3>1, <4>1, <5>1
        <5>3. QED BY <5>2 DEF Rank
      <4>3. QED BY <2>3, <3>1, <4>1, <4>2
    <3>4. QED BY <3>2, <3>3
  <2>4. Turned(rank, up, new, 1)
    BY <2>2, <2>3 DEF Turned
  <2>5. 1 \in 1..(Len(new) + 1)
    BY <1>1
  <2>6. QED BY <2>4, <2>5
<1>6. CASE n \notin up
  <2> DEFINE t == IF turn <= Len(new) THEN turn + 1 ELSE Len(new) + 1
  <2>1. t \in 1..(Len(new) + 1) /\ t \in Nat /\ t >= 2
    BY <1>1
  <2>2. ASSUME NEW k \in 1..Len(new), k # 1 PROVE k >= t <=> k - 1 >= turn
    BY <1>1, <2>2
  <2> HIDE DEF t
  <2>3. ASSUME NEW k \in 1..Len(new) PROVE new[k] \in up <=> k >= t
    <3>1. CASE k = 1
      BY <1>6, <2>1, <3>1
    <3>2. CASE k # 1
      BY <1>2, <1>3, <2>2, <3>2
    <3>3. QED BY <3>1, <3>2
  <2>4. ASSUME NEW j \in 1..Len(new), NEW k \in 1..Len(new), j < k
        PROVE  /\ j >= t => rank[new[k]] < rank[new[j]]
               /\ k < t  => rank[new[j]] < rank[new[k]]
    <3>1. /\ k - 1 \in 1..Len(old) /\ new[k] = old[k - 1] /\ k # 1
          /\ k >= t <=> k - 1 >= turn
      BY <1>1, <1>3, <2>2, <2>4
    <3>2. CASE j = 1
      <4>1. ~(j >= t)
        BY <2>1, <3>2
      <4>2. ASSUME k < t PROVE rank[n] < rank[old[k - 1]]
        <5>1. ~(k - 1 >= turn)
          BY <1>1, <2>1, <3>1, <4>2
        <5>2. turn # 1 /\ rank[n] < rank[old[1]]
          BY <1>1, <1>6, <3>1, <5>1
        <5>3. k - 1 = 1 \/ rank[old[1]] < rank[old[k - 1]]
          <6>1. k - 1 < turn /\ (k - 1 = 1 \/ 1 < k - 1)
            BY <1>1, <3>1, <5>1
          <6>2. k - 1 = 1 \/ Rank(1) < Rank(k - 1)
            BY <1>4, <3>1, <6>1
          <6>3. QED BY <6>2 DEF Rank
        <5>4. rank[old[k - 1]] \in Nat /\ rank[old[1]] \in Nat
          BY <1>1, <1>4, <3>1
        <5>5. QED BY <1>1, <5>2, <5>3, <5>4
      <4>3. QED BY <3>1, <3>2, <4>1, <4>2
    <3>3. CASE j # 1
      <4>1. /\ j - 1 \in 1..Len(old) /\ new[j] = old[j - 1] /\ j - 1 < k - 1
            /\ j >= t <=> j - 1 >= turn
        BY <1>1, <1>3, <2>2, <2>4, <3>3
      <4>2. k < t => k - 1 < turn
        BY <1>1, <2>1, <3>1
      <4>3. QED BY <1>2, <3>1, <4>1, <4>2
    <3>4. QED BY <3>2, <3>3
  <2>5. Turned(rank, up, new, t)
    BY <2>3, <2>4 DEF Turned
  <2>6. QED BY <2>1, <2>5
<1>7. QED BY <1>5, <1>6

\* The set of Up ASes grows on the way up, and stays the same after it.
LEMMA UpGrows ==
  ASSUME TypeInv, ShapeInv, RoutesInv, HeardInv, Step, Iterations = 1, SimplyRelated, NEW n \in ASN
  PROVE  /\ Up(n) => Up(n)'
         /\ loop.phase # "up" => (Up(n)' <=> Up(n))
<1>1. CASE loop.phase # "up"
  BY <1>1, ClimbedKeepsUp DEF ClimbDone
<1>2. CASE loop.phase = "up"
  <2>1. SUFFICES ASSUME Up(n) PROVE Up(n)'
    BY <1>2
  <2>2. PICK m \in DOMAIN routes[n] : best[n] = routes[n][m]
    BY <2>1, BestNow DEF Up, HandsOn
  <2>3. best'[n] # NoRoute
    BY <2>2, RoutesGrow, StepBest
  <2>4. PICK k \in DOMAIN routes'[n] : best'[n] = routes'[n][k]
    BY <2>3, StepBest
  <2>5. routes'[n][k].received_from \in KnownAs(loop'.phase)
    <3>1. ShapeInv'
      BY StepShapeInv
    <3>2. QED BY <2>4, <3>1 DEF ShapeInv
  <2>6. KnownAs(loop'.phase) = {"ORIGIN", "FROM_CUSTOMER"}
    BY <1>2, NextShape
  <2>7. QED BY <2>3, <2>4, <2>5, <2>6 DEF Up, HandsOn
<1>3. QED BY <1>1, <1>2

LEMMA InitPathInv == Init => PathInv
<1>1. SUFFICES ASSUME Init, NEW n \in ASN, best[n] # NoRoute
               PROVE  \E turn \in 1..(Len(best[n].path) + 1) :
                        Turned(graph.rank, UpASes, best[n].path, turn)
  BY DEF PathInv
<1>2. best[n].path = <<n>> /\ best[n].received_from = "ORIGIN"
  BY <1>1, InitSeeds
<1>3. n \in UpASes
  BY <1>1, <1>2 DEF UpASes, Up, HandsOn
<1>4. Turned(graph.rank, UpASes, <<n>>, 1)
  BY <1>3 DEF Turned
<1>5. QED BY <1>2, <1>4

LEMMA StepPathInv ==
  Iterations = 1 /\ TypeInv /\ ShapeInv /\ ExactInv /\ PathInv /\ Step => PathInv'
<1>1. graph' = graph \/ ~Step
  BY DEF Step
<1>2. SUFFICES ASSUME Iterations = 1, TypeInv, ShapeInv, RoutesInv, HeardInv, PathInv,
                      Step, SimplyRelated, NEW n \in ASN, best'[n] # NoRoute
               PROVE  \E turn \in 1..(Len(best'[n].path) + 1) :
                        Turned(graph.rank, UpASes', best'[n].path, turn)
  BY <1>1 DEF PathInv, ExactInv, SimplyRelated, Customers
<1>3. UpASes' = {k \in ASN : Up(k)'}
  BY DEF UpASes
<1>4. PICK m \in DOMAIN routes'[n] : best'[n] = routes'[n][m]
  BY <1>2, StepBest
<1>5. /\ m \in ASN /\ ((m = n /\ Own(n) # {}) \/ Source(loop', n, m))
      /\ m = n => best'[n] \in Own(n)
      /\ m # n => best'[n] = RouteVia(n, m)
  BY <1>2, <1>4, StepRoutesExact
<1>6. CASE m = n
  <2>1. best'[n].path = <<n>> /\ best'[n].received_from = "ORIGIN"
    BY <1>2, <1>5, <1>6, OwnResult
  <2>2. n \in UpASes'
    BY <1>2, <1>3, <2>1 DEF Up, HandsOn
  <2>3. Turned(graph.rank, UpASes', <<n>>, 1)
    BY <2>2 DEF Turned
  <2>4. QED BY <2>1, <2>3
<1>7. CASE m # n
  <2> DEFINE rel == RelationTo(n, m)
             old == best[m].path
             new == best'[n].path
  <2>1. /\ m \in Neighbours(n) /\ TookIn(graph, loop', n, rel) /\ HandsOn(m, rel)
        /\ best[m] # NoRoute /\ best'[n] = RouteVia(n, m)
    BY <1>5, <1>7 DEF Source, HandsOn
  <2>2. /\ best[m] \in Announcement /\ best'[n] \in Announcement
        /\ best'[n].received_from = rel
        /\ new = PrependASN(best[m], n, m, rel).path
        /\ rel \in {"FROM_CUSTOMER", "FROM_PEER", "FROM_PROVIDER"}
        /\ rel = "FROM_CUSTOMER" => graph.rank[m] < graph.rank[n]
        /\ rel = "FROM_PROVIDER" => graph.rank[n] < graph.rank[m]
        /\ graph.rank \in [ASN -> Nat]
    <3>1. WellFormed(graph)
      BY <1>2 DEF TypeInv
    <3>2. /\ rel \in {"FROM_CUSTOMER", "FROM_PEER", "FROM_PROVIDER"}
          /\ rel = "FROM_CUSTOMER" => graph.rank[m] < graph.rank[n]
          /\ rel = "FROM_PROVIDER" => graph.rank[n] < graph.rank[m]
      BY <1>2, <1>5, <2>1, <3>1, Related
    <3>3. graph.rank \in [ASN -> Nat]
      BY <3>1 DEF WellFormed, Graph
    <3>4. QED BY <1>2, <2>1, <3>2, <3>3, RouteViaResult
  <2>3. /\ old \in Path /\ new \in Path
        /\ Len(new) = Len(old) \/ Len(new) = Len(old) + 1
        /\ new[1] = n /\ \A k \in 2..Len(new) : new[k] = old[k - 1]
    <3>1. old \in Path /\ new \in Path
      BY <2>2 DEF Announcement
    <3>2. rel \in Relationship
      BY <2>2 DEF Relationship
    <3>3. /\ new[1] = n
          /\ Len(new) = IF Len(old) < MaxPathLen THEN Len(old) + 1 ELSE MaxPathLen
          /\ \A k \in 2..Len(new) : new[k] = old[k - 1]
      BY <1>5, <2>2, <3>2, PrependResult
    <3>4. Len(old) \in 1..MaxPathLen /\ MaxPathLen \in Nat
      BY <3>1, MaxPathLenAssumption DEF Path
    <3>5. QED BY <3>1, <3>3, <3>4
  <2>4. old[1] = m
    BY <1>2, <1>5, <2>1, BestNow DEF ShapeInv, RouteShape
  <2>5. PICK turn \in 1..(Len(old) + 1) : Turned(graph.rank, UpASes, old, turn)
    BY <1>2, <1>5, <2>1 DEF PathInv
  <2>6. /\ 1 \in 1..Len(old) /\ turn \in Nat \ {0}
        /\ \A k \in 1..Len(old) : old[k] \in ASN
    BY <2>3, <2>5 DEF Path
  <2>7. rel # "FROM_PROVIDER" => turn = 1
    <3>1. SUFFICES ASSUME rel # "FROM_PROVIDER" PROVE turn = 1
      OBVIOUS
    <3>2. m \in UpASes
      BY <1>5, <2>1, <3>1 DEF UpASes, Up, HandsOn
    <3>3. 1 >= turn
      BY <2>4, <2>5, <2>6, <3>2 DEF Turned
    <3>4. QED BY <2>6, <3>3
  <2>8. \A k \in 1..Len(old) : old[k] \in UpASes' <=> k >= turn
    <3>1. CASE loop.phase # "up"
      <4>1. UpASes' = UpASes
        BY <1>2, <1>3, <3>1, UpGrows DEF UpASes
      <4>2. QED BY <2>5, <4>1 DEF Turned
    <3>2. CASE loop.phase = "up"
      <4>1. loop'.phase \in {"up", "drain"}
        <5>1. loop' = NextLoop(graph, loop) /\ WellFormed(graph) /\ loop \in LoopType
          BY <1>2 DEF Step, TypeInv
        <5>2. QED BY <3>2, <5>1, NextLoopResult
      <4>2. rel = "FROM_CUSTOMER"
        BY <2>1, <4>1 DEF TookIn, DescentDone
      <4>3. turn = 1
        BY <2>7, <4>2
      <4>4. \A k \in 1..Len(old) : k >= turn /\ old[k] \in UpASes
        BY <2>3, <2>5, <4>3 DEF Turned
      <4>5. UpASes \subseteq UpASes'
        BY <1>2, <1>3, UpGrows DEF UpASes
      <4>6. QED BY <4>4, <4>5
    <3>3. QED BY <3>1, <3>2
  <2>9. Turned(graph.rank, UpASes', old, turn)
    BY <2>5, <2>8 DEF Turned
  <2>10. n \in UpASes' <=> rel = "FROM_CUSTOMER"
    BY <1>2, <1>3, <2>2 DEF Up, HandsOn
  <2>11. \/ n \in UpASes' /\ turn = 1 /\ graph.rank[old[1]] < graph.rank[n]
         \/ n \notin UpASes' /\ turn = 1
         \/ n \notin UpASes' /\ graph.rank[n] < graph.rank[old[1]]
    BY <2>2, <2>4, <2>7, <2>10
  <2> HIDE DEF old, new, rel
  <2>12. \E t \in 1..(Len(new) + 1) : Turned(graph.rank, UpASes', new, t)
    BY <2>2, <2>3, <2>5, <2>9, <2>11, TurnedByPrepending, SMTT(30)
  <2>13. QED BY <2>12 DEF new
<1>8. QED BY <1>6, <1>7

LEMMA ExactInvariant ==
  ASSUME Iterations = 1
  PROVE  Spec => [](TypeInv /\ ShapeInv /\ ExactInv /\ PathInv)
<1> DEFINE AllInv == TypeInv /\ ShapeInv /\ ExactInv /\ PathInv
<1>1. Init => AllInv
  BY InitTypeInv, InitShapeInv, InitExactInv, InitPathInv
<1>2. AllInv /\ Step => AllInv'
  BY StepTypeInv, StepShapeInv, StepExactInv, StepPathInv
<1>3. AllInv /\ UNCHANGED vars => AllInv'
  <2>1. SUFFICES ASSUME AllInv, UNCHANGED vars PROVE AllInv'
    OBVIOUS
  <2>2. TypeInv' /\ ShapeInv'
    BY <2>1 DEF TypeInv, ShapeInv, Held, vars
  <2>3. SimplyRelated' <=> SimplyRelated
    BY <2>1 DEF SimplyRelated, Customers, vars
  <2>4. RoutesInv' <=> RoutesInv
    BY <2>1 DEF RoutesInv, Source, Passes, RouteVia, RelationTo, Neighbours, Customers, HandsOn,
                Own, vars
  <2>5. HeardInv' <=> HeardInv
    BY <2>1 DEF HeardInv, Waiting, Message, RelationTo, Neighbours, Customers, HandsOn, vars
  <2>6. PathInv' <=> PathInv
    BY <2>1, <2>3 DEF PathInv, UpASes, Up, HandsOn, vars
  <2>7. QED BY <2>1, <2>2, <2>3, <2>4, <2>5, <2>6 DEF ExactInv
<1> HIDE DEF AllInv
<1>4. QED BY <1>1, <1>2, <1>3, PTL DEF Spec, Next, AllInv

\* BestAreLoopFree, on graphs where no pair is related twice, however long the
\* paths grow and however late the program starts to look for loops
\* (as_node.cpp:203-211): an AS that has a route from below never takes one from
\* beside or above, and only such an AS is on paths that come back to it.
THEOREM BestRoutesAreLoopFree ==
  ASSUME Iterations = 1
  PROVE  Spec => [](SimplyRelated => BestAreLoopFree)
<1>1. TypeInv /\ PathInv => (SimplyRelated => BestAreLoopFree)
  <2>1. SUFFICES ASSUME TypeInv, PathInv, SimplyRelated, NEW n \in ASN, best[n] # NoRoute
                 PROVE  LoopFree(best[n].path)
    BY DEF BestAreLoopFree
  <2> DEFINE path == best[n].path
  <2>2. PICK turn \in 1..(Len(path) + 1) : Turned(graph.rank, UpASes, path, turn)
    BY <2>1 DEF PathInv
  <2>3. path \in Path
    BY <2>1, BestNow DEF Announcement
  <2>4. /\ Len(path) \in Nat /\ turn \in Nat
        /\ \A k \in 1..Len(path) : graph.rank[path[k]] \in Nat
    BY <2>1, <2>2, <2>3, GraphFacts DEF Path, TypeInv
  <2> HIDE DEF path
  <2>5. ASSUME NEW j \in 1..Len(path), NEW k \in 1..Len(path), j < k
        PROVE  path[j] # path[k]
    <3>1. CASE j >= turn
      BY <2>2, <2>4, <2>5, <3>1 DEF Turned
    <3>2. CASE k < turn
      BY <2>2, <2>4, <2>5, <3>2 DEF Turned
    <3>3. CASE j < turn /\ k >= turn
      BY <2>2, <2>4, <3>3 DEF Turned
    <3>4. QED BY <2>4, <3>1, <3>2, <3>3
  <2>6. LoopFree(path)
    BY <2>4, <2>5 DEF LoopFree
  <2>7. QED BY <2>6 DEF path
<1>2. QED BY <1>1, ExactInvariant, PTL

\* ForwardingFollowsPath: when the pass is over, the path an AS writes is its own
\* number in front of the path that its next hop writes (as_node.cpp:217).
THEOREM ForwardingFollowsPaths ==
  ASSUME Iterations = 1
  PROVE  Spec => []ForwardingFollowsPath
<1>1. TypeInv /\ ExactInv => ForwardingFollowsPath
  <2>1. SUFFICES ASSUME TypeInv, RoutesInv, SimplyRelated,
                        NEW n \in ASN, best[n] # NoRoute, best[n].next_hop # n
                 PROVE  LET next == best[best[n].next_hop]
                        IN  /\ next # NoRoute
                            /\ best[n].path = PrependASN(next, n, best[n].next_hop, best[n].received_from).path
    BY DEF ForwardingFollowsPath, ExactInv
  <2>2. PICK m \in DOMAIN routes[n] : best[n] = routes[n][m]
    BY <2>1, BestNow
  <2>3. best[n].next_hop = m
    BY <2>1, <2>2 DEF TypeInv
  <2>4. Source(loop, n, m) /\ best[n] = RouteVia(n, m)
    BY <2>1, <2>2, <2>3 DEF RoutesInv
  <2>5. m \in Neighbours(n) /\ best[m] # NoRoute
    BY <2>4 DEF Source, HandsOn
  <2>6. /\ best[n].received_from = RelationTo(n, m)
        /\ best[n].path = PrependASN(best[m], n, m, RelationTo(n, m)).path
    BY <2>1, <2>4, <2>5, RouteViaResult
  <2>7. QED BY <2>3, <2>5, <2>6
<1>2. QED BY <1>1, ExactInvariant, PTL

\* StableAtEnd: the routes of one pass are the stable routes of the Gao-Rexford
\* model, in which an AS tells its customers everything and its peers and
\* providers about its customers only (as_graph.cpp:714-755).  What the loop
\* check refuses is worse than what the AS has.
THEOREM OnePassIsStable ==
  ASSUME Iterations = 1
  PROVE  Spec => []StableAtEnd
<1>1. TypeInv /\ ShapeInv /\ ExactInv /\ PathInv => StableAtEnd
  <2>1. SUFFICES ASSUME TypeInv, ShapeInv, RoutesInv, PathInv, SimplyRelated, loop.phase = "done",
                        NEW n \in ASN
                 PROVE  best[n] = MostPreferred(Own(n) \cup Offered(n))
    BY DEF StableAtEnd, ExactInv
  <2> DEFINE known == Own(n) \cup Offered(n)
             hands(m) == /\ m \in Neighbours(n) /\ HandsOn(m, RelationTo(n, m))
                         /\ ~(n \in graph.rov /\ best[m].rov_invalid)
  <2>2. \A a : a \in Offered(n) <=> \E m : hands(m) /\ a = RouteVia(n, m)
    BY DEF Offered, RouteVia
  <2>3. /\ DOMAIN routes[n] = {m \in ASN : (m = n /\ Own(n) # {}) \/ Source(loop, n, m)}
        /\ n \in DOMAIN routes[n] => routes[n][n] \in Own(n)
        /\ \A m \in DOMAIN routes[n] \ {n} : routes[n][m] = RouteVia(n, m)
    BY <2>1 DEF RoutesInv
  <2>4. \A m : hands(m) => /\ m \in Neighbours(n) /\ m \in ASN /\ m # n /\ best[m] # NoRoute
                           /\ RouteVia(n, m) \in Announcement /\ RouteVia(n, m).next_hop = m
                           /\ RouteVia(n, m).received_from = RelationTo(n, m)
    BY <2>1, RouteViaResult DEF HandsOn
  <2>5. ASSUME NEW m, hands(m), ~Accepts(n, best[m])
        PROVE  /\ Up(n) /\ ~PreferredTo(RouteVia(n, m), best[n])
    <3> DEFINE path == best[m].path
    <3>1. m \in ASN /\ m # n /\ best[m] # NoRoute /\ m \in Neighbours(n)
      BY <2>4, <2>5
    <3>2. best[m] \in Announcement /\ path \in Path /\ path[1] = m
      BY <2>1, <3>1, BestNow DEF ShapeInv, RouteShape, Announcement
    <3>3. PICK i \in 1..Len(path) : path[i] = n
      BY <2>5 DEF Accepts, ContainsASN
    <3>4. PICK turn \in 1..(Len(path) + 1) : Turned(graph.rank, UpASes, path, turn)
      BY <2>1, <3>1 DEF PathInv
    <3>5. /\ Len(path) \in Nat \ {0} /\ turn \in Nat /\ 1 < i /\ 1 \in 1..Len(path)
          /\ path[i] \in UpASes <=> i >= turn
          /\ path[1] \in UpASes <=> 1 >= turn
          /\ 1 >= turn => graph.rank[n] < graph.rank[m]
          /\ i < turn => graph.rank[m] < graph.rank[n]
      <4>1. Len(path) \in Nat \ {0} /\ i # 1 /\ turn \in Nat
        BY <3>1, <3>2, <3>3, <3>4 DEF Path
      <4>2. 1 \in 1..Len(path) /\ 1 < i
        BY <4>1
      <4> HIDE DEF path
      <4>3. QED BY <3>2, <3>3, <3>4, <4>1, <4>2 DEF Turned
    <3>6. /\ RelationTo(n, m) \in {"FROM_CUSTOMER", "FROM_PEER", "FROM_PROVIDER"}
          /\ RelationTo(n, m) = "FROM_CUSTOMER" => graph.rank[m] < graph.rank[n]
          /\ RelationTo(n, m) = "FROM_PROVIDER" => graph.rank[n] < graph.rank[m]
          /\ graph.rank[n] \in Nat /\ graph.rank[m] \in Nat
      BY <2>1, <3>1, Related DEF TypeInv
    <3>7. RelationTo(n, m) # "FROM_PROVIDER" => m \in UpASes
      BY <2>5, <3>1, <3>6 DEF UpASes, Up, HandsOn
    <3>8. RelationTo(n, m) # "FROM_CUSTOMER"
      BY <3>2, <3>5, <3>6, <3>7
    <3>9. Up(n)
      <4>1. i >= turn
        BY <3>2, <3>5, <3>6, <3>7, <3>8
      <4>2. QED BY <3>3, <3>5, <4>1 DEF UpASes
    <3>10. ~PreferredTo(RouteVia(n, m), best[n])
      BY <2>4, <2>5, <3>6, <3>8, <3>9, PlaceValues DEF PreferredTo, Up, HandsOn
    <3>11. QED BY <3>9, <3>10
  <2>6. ASSUME NEW a \in known PROVE best[n] # NoRoute /\ ~PreferredTo(a, best[n])
    <3>1. CASE a \in Own(n)
      <4>1. n \in DOMAIN routes[n] /\ routes[n][n] = a
        BY <2>1, <2>3, <3>1, OwnResult
      <4>2. QED BY <2>1, <4>1, BestNow
    <3>2. CASE a \in Offered(n)
      <4>1. PICK m : hands(m) /\ a = RouteVia(n, m)
        BY <2>2, <3>2
      <4>2. CASE Accepts(n, best[m])
        <5>1. TookIn(graph, loop, n, RelationTo(n, m))
          <6>1. RelationTo(n, m) \in {"FROM_CUSTOMER", "FROM_PEER", "FROM_PROVIDER"}
            BY <2>1, <2>4, <4>1, Related DEF TypeInv
          <6>2. QED BY <2>1, <6>1 DEF TookIn, ClimbDone, DescentDone
        <5>2. Source(loop, n, m)
          BY <4>1, <4>2, <5>1 DEF Source, Passes
        <5>3. m \in DOMAIN routes[n] /\ routes[n][m] = a
          BY <2>3, <2>4, <4>1, <5>2
        <5>4. QED BY <2>1, <5>3, BestNow
      <4>3. CASE ~Accepts(n, best[m])
        BY <2>5, <4>1, <4>3 DEF Up, HandsOn
      <4>4. QED BY <4>2, <4>3
    <3>3. QED BY <2>6, <3>1, <3>2
  <2>7. CASE best[n] = NoRoute
    <3>1. known = {}
      BY <2>6, <2>7
    <3>2. QED BY <2>7, <3>1 DEF MostPreferred
  <2>8. CASE best[n] # NoRoute
    <3>1. PICK m \in DOMAIN routes[n] : best[n] = routes[n][m]
      BY <2>1, <2>8, BestNow
    <3>2. best[n] \in known
      <4>1. CASE m = n
        BY <2>3, <3>1, <4>1
      <4>2. CASE m # n
        BY <2>2, <2>3, <3>1, <4>2 DEF Source, Passes
      <4>3. QED BY <4>1, <4>2
    <3>3. known \subseteq Announcement /\ \A a, b \in known : a.next_hop = b.next_hop => a = b
      <4>1. \A a \in Own(n) : a \in Announcement /\ a.next_hop = n
        BY <2>1, OwnResult
      <4>2. \A a, b \in Own(n) : a = b
        BY <2>1, OwnResult
      <4>3. \A a \in Offered(n) : a \in Announcement /\ a.next_hop # n /\ a = RouteVia(n, a.next_hop)
        BY <2>2, <2>4
      <4>4. QED BY <4>1, <4>2, <4>3
    <3> HIDE DEF known
    <3>4. MostPreferred(known) = best[n]
      BY <2>6, <3>2, <3>3, MostPreferredUnique
    <3>5. QED BY <3>4 DEF known
  <2>9. QED BY <2>7, <2>8
<1>2. QED BY <1>1, ExactInvariant, PTL
-----------------------------------------------------------------------------
(***************************************************************************)
(* Pairs that are related twice.  A customer that is a peer, too, has its  *)
(* provider replace the route of a customer by one of a peer, so that the  *)
(* provider may come to prefer what others offer, its own route on its way *)
(* back included.  What keeps that one out is its length: the route that   *)
(* went out is still there under the customer's number, and shorter.       *)
(***************************************************************************)
NoSelfPeering == \A n \in ASN : n \notin graph.peers[n]

\* Until the peers have been heard, a route is the one its sender uses, which
\* does not change any more once the sender had its turn.
Early == loop.phase \in {"up", "drain", "across", "settle"}

HadTurn(m) == loop.phase = "up" => graph.rank[m] < loop.rank

SentInv ==
  Early =>
    \A n \in ASN :
      /\ \A m \in DOMAIN routes[n] \ {n} :
           /\ best[m] # NoRoute /\ HadTurn(m)
           /\ routes[n][m].path = PrependASN(best[m], n, m, "FROM_CUSTOMER").path
      /\ \A a \in heard[n] :
           /\ best[a.next_hop] # NoRoute /\ HadTurn(a.next_hop) /\ a.path = best[a.next_hop].path
           /\ loop.phase = "settle" \/ (loop.phase = "up" /\ loop.rank <= graph.rank[n])

\* An AS has its own route or one by way of a customer that is not longer.
Anchored(g, tables, n, len) ==
  \E c \in DOMAIN tables[n] :
    /\ c = n \/ n \in g.providers[c]
    /\ tables[n][c].received_from \in {"ORIGIN", "FROM_CUSTOMER", "FROM_PEER"}
    /\ Len(tables[n][c].path) <= len

\* Where a path climbs, it has come from an AS that is anchored.
ComesFrom(g, tables, path, k) ==
  Climbing(g, path, k) => Anchored(g, tables, path[k], Len(path) + 1 - k)

KeptBy(g, tables, n, m, route) ==
  /\ route.received_from = "ORIGIN" <=> m = n
  /\ route.received_from = "FROM_PROVIDER" => m \in g.providers[n]
  /\ m # n /\ MaxPathLen > 1 => Len(route.path) > 1 /\ route.path[2] = m
  /\ \A j, k \in 2..Len(route.path) : route.path[j] = route.path[k] => j = k
  /\ \A k \in 2..Len(route.path) :
       Len(route.path) < MaxPathLen \/ route.path[k] = n => ComesFrom(g, tables, route.path, k)

OnItsWay(g, tables, ann) ==
  /\ LoopFree(ann.path)
  /\ Len(ann.path) < MaxPathLen => \A k \in 1..Len(ann.path) : ComesFrom(g, tables, ann.path, k)

KeptInv == \A n \in ASN : \A m \in DOMAIN routes[n] : KeptBy(graph, routes, n, m, routes[n][m])

OnItsWayInv ==
  \A n \in ASN : \A a \in heard[n] :
    /\ OnItsWay(graph, routes, a) /\ a.next_hop # n
    /\ loop.phase \in {"down", "done"} => a.received_from = "FROM_PROVIDER"

TwiceInv == NoSelfPeering => SentInv /\ KeptInv /\ OnItsWayInv

\* Ranks fall where a path climbs, read from the AS that has the route,
LEMMA ClimbingFalls ==
  ASSUME WellFormed(graph), NEW path \in Path, NEW j \in 1..Len(path), NEW k \in 1..Len(path),
         j < k, Climbing(graph, path, j)
  PROVE  graph.rank[path[k]] < graph.rank[path[j]]
<1> DEFINE Rank(i) == graph.rank[path[i]]
           bad == {i \in (j + 1)..Len(path) : ~(Rank(i) < Rank(j))}
<1>1. /\ Len(path) \in Nat /\ j \in Nat /\ k \in Nat
      /\ \A i \in 1..Len(path) : path[i] \in ASN
  BY DEF Path
<1>2. \A i \in 1..Len(path) : Rank(i) \in Nat
  BY <1>1, GraphFacts
<1>3. \A i \in (j + 1)..Len(path) : Rank(i) < Rank(i - 1)
  <2>1. SUFFICES ASSUME NEW i \in (j + 1)..Len(path) PROVE Rank(i) < Rank(i - 1)
    OBVIOUS
  <2>2. path[i] \in ASN /\ path[i - 1] \in ASN /\ path[i - 1] \in graph.providers[path[i]]
    BY <1>1, <2>1 DEF Climbing, Climbs
  <2>3. QED BY <2>2, GraphFacts
<1> HIDE DEF Rank
<1>4. bad = {}
  <2>1. SUFFICES ASSUME bad # {} PROVE FALSE
    OBVIOUS
  <2>2. bad \subseteq Nat
    BY <1>1
  <2>3. PICK i \in bad : \A other \in bad : i <= other
    <3> HIDE DEF bad
    <3>1. QED BY <2>1, <2>2, LeastElement
  <2>4. i \in (j + 1)..Len(path) /\ ~(Rank(i) < Rank(j)) /\ i - 1 \notin bad
    BY <1>1, <2>2, <2>3
  <2>5. Rank(i) < Rank(i - 1) /\ Rank(i) \in Nat /\ Rank(i - 1) \in Nat /\ Rank(j) \in Nat
    BY <1>1, <1>2, <1>3, <2>4
  <2>6. i - 1 = j \/ i - 1 \in (j + 1)..Len(path)
    BY <1>1, <2>4
  <2>7. i - 1 = j \/ Rank(i - 1) < Rank(j)
    BY <2>4, <2>6
  <2>8. QED BY <2>4, <2>5, <2>7
<1>5. k \in (j + 1)..Len(path)
  BY <1>1
<1>6. Rank(k) < Rank(j)
  BY <1>4, <1>5
<1>7. QED BY <1>6 DEF Rank

\* and rise where it descends.
LEMMA DescendingRises ==
  ASSUME WellFormed(graph), NEW path \in Path, NEW last \in 1..Len(path), NEW k \in 2..last,
         \A i \in 1..(last - 1) : Descends(graph, path[i + 1], path[i])
  PROVE  graph.rank[path[1]] < graph.rank[path[k]]
<1> DEFINE Rank(i) == graph.rank[path[i]]
           bad == {i \in 2..last : ~(Rank(1) < Rank(i))}
<1>1. /\ Len(path) \in Nat /\ last \in Nat /\ k \in Nat
      /\ \A i \in 1..Len(path) : path[i] \in ASN
  BY DEF Path
<1>2. \A i \in 1..last : Rank(i) \in Nat
  BY <1>1, GraphFacts
<1>3. \A i \in 2..last : Rank(i - 1) < Rank(i)
  <2>1. SUFFICES ASSUME NEW i \in 2..last PROVE Rank(i - 1) < Rank(i)
    OBVIOUS
  <2>2. i - 1 \in 1..(last - 1) /\ (i - 1) + 1 = i /\ i \in 1..Len(path) /\ i - 1 \in 1..Len(path)
    BY <1>1, <2>1
  <2>3. path[i] \in ASN /\ path[i - 1] \in ASN /\ path[i] \in graph.providers[path[i - 1]]
    <3>1. Descends(graph, path[(i - 1) + 1], path[i - 1])
      BY <2>2
    <3>2. QED BY <1>1, <2>2, <3>1 DEF Descends
  <2>4. QED BY <2>3, GraphFacts
<1> HIDE DEF Rank
<1>4. bad = {}
  <2>1. SUFFICES ASSUME bad # {} PROVE FALSE
    OBVIOUS
  <2>2. bad \subseteq Nat
    BY <1>1
  <2>3. PICK i \in bad : \A other \in bad : i <= other
    <3> HIDE DEF bad
    <3>1. QED BY <2>1, <2>2, LeastElement
  <2>4. i \in 2..last /\ ~(Rank(1) < Rank(i)) /\ i - 1 \notin bad
    BY <1>1, <2>2, <2>3
  <2>5. Rank(i - 1) < Rank(i) /\ Rank(i) \in Nat /\ Rank(i - 1) \in Nat /\ Rank(1) \in Nat
    BY <1>1, <1>2, <1>3, <2>4
  <2>6. i - 1 = 1 \/ i - 1 \in 2..last
    BY <1>1, <2>4
  <2>7. i - 1 = 1 \/ Rank(1) < Rank(i - 1)
    BY <2>4, <2>6
  <2>8. QED BY <2>4, <2>5, <2>7
<1>5. Rank(1) < Rank(k)
  BY <1>4
<1>6. QED BY <1>5 DEF Rank

\* What an anchored AS uses is of a customer or, if of a peer, not longer.
LEMMA AnchoredBest ==
  ASSUME TypeInv, NEW n \in ASN, NEW len \in Nat, Anchored(graph, routes, n, len)
  PROVE  /\ best[n] # NoRoute
         /\ best[n].received_from # "FROM_PROVIDER"
         /\ best[n].received_from = "FROM_PEER" => Len(best[n].path) <= len
<1>1. PICK c \in DOMAIN routes[n] :
        /\ routes[n][c].received_from \in {"ORIGIN", "FROM_CUSTOMER", "FROM_PEER"}
        /\ Len(routes[n][c].path) <= len
  BY DEF Anchored
<1> DEFINE anchor == routes[n][c]
<1>2. /\ best[n] # NoRoute /\ best[n] \in Announcement /\ anchor \in Announcement
      /\ ~PreferredTo(anchor, best[n])
  BY BestNow DEF TypeInv
<1>3. /\ best[n].received_from \in Relationship
      /\ Len(best[n].path) \in Nat /\ Len(anchor.path) \in Nat
  BY <1>2 DEF Announcement, Path
<1> HIDE DEF anchor
<1>4. ~(Place(anchor.received_from) < Place(best[n].received_from))
  BY <1>2 DEF PreferredTo
<1>5. anchor.received_from = best[n].received_from => ~(Len(anchor.path) < Len(best[n].path))
  BY <1>2 DEF PreferredTo
<1>6. /\ anchor.received_from \in {"ORIGIN", "FROM_CUSTOMER", "FROM_PEER"}
      /\ Len(anchor.path) <= len
  BY <1>1 DEF anchor
<1>7. best[n].received_from # "FROM_PROVIDER"
  BY <1>4, <1>6, PlaceValues
<1>8. best[n].received_from = "FROM_PEER" => anchor.received_from = "FROM_PEER"
  BY <1>4, <1>6, PlaceValues
<1>9. QED BY <1>2, <1>3, <1>5, <1>6, <1>7, <1>8

\* Hence no AS uses a route that comes back to it.
LEMMA KeptIsLoopFree ==
  TypeInv /\ ShapeInv /\ NoSelfPeering /\ KeptInv => BestAreLoopFree
<1>1. SUFFICES ASSUME TypeInv, ShapeInv, NoSelfPeering, KeptInv, NEW n \in ASN, best[n] # NoRoute
               PROVE  LoopFree(best[n].path)
  BY DEF BestAreLoopFree
<1>2. PICK m \in DOMAIN routes[n] : best[n] = routes[n][m]
  BY <1>1, BestNow
<1> DEFINE route == best[n]
           path == route.path
<1>3. /\ KeptBy(graph, routes, n, m, route) /\ RouteShape(graph, n, route)
      /\ route \in Announcement
  BY <1>1, <1>2, BestNow DEF KeptInv, ShapeInv
<1>4. path \in Path /\ Len(path) \in Nat \ {0} /\ route.received_from \in Relationship
  BY <1>3 DEF Announcement, Path
<1>5. /\ WellFormed(graph) /\ path[1] = n
      /\ \A j, k \in 2..Len(path) : path[j] = path[k] => j = k
      /\ graph.rank[n] \in Nat
  BY <1>1, <1>3, GraphFacts DEF TypeInv, RouteShape, KeptBy
<1> HIDE DEF route, path
<1>6. ASSUME NEW k \in 2..Len(path), path[k] = n PROVE FALSE
  <2>1. /\ k \in 1..Len(path) /\ 1 \in 1..Len(path) /\ 1 < k /\ Len(path) + 1 - k \in Nat
        /\ Len(path) + 1 - k < Len(path)
    BY <1>4, <1>6
  <2>2. ~Climbing(graph, path, 1)
    <3>1. SUFFICES ASSUME Climbing(graph, path, 1) PROVE FALSE
      OBVIOUS
    <3>2. graph.rank[path[k]] < graph.rank[path[1]]
      BY <1>4, <1>5, <2>1, <3>1, ClimbingFalls
    <3>3. QED BY <1>5, <1>6, <3>2
  <2>3. Climbing(graph, path, k) => Anchored(graph, routes, n, Len(path) + 1 - k)
    BY <1>3, <1>6 DEF KeptBy, ComesFrom, path
  <2>4. Climbing(graph, path, k) =>
          /\ route.received_from # "FROM_PROVIDER"
          /\ route.received_from = "FROM_PEER" => Len(path) <= Len(path) + 1 - k
    BY <1>1, <2>1, <2>3, AnchoredBest DEF route, path
  <2>5. CASE route.received_from \in {"ORIGIN", "FROM_CUSTOMER"}
    BY <1>3, <2>2, <2>5 DEF RouteShape, path
  <2>6. CASE route.received_from = "FROM_PEER"
    <3>1. Climbing(graph, path, 2) /\ Crosses(graph, path[2], path[1])
      BY <1>3, <1>4, <1>6, <2>6 DEF RouteShape, path
    <3>2. k # 2
      BY <1>1, <1>5, <1>6, <3>1 DEF Crosses, NoSelfPeering
    <3>3. Climbing(graph, path, k)
      BY <1>4, <1>6, <3>1, <3>2 DEF Climbing
    <3>4. QED BY <2>1, <2>4, <2>6, <3>3, <1>4
  <2>7. CASE route.received_from = "FROM_PROVIDER"
    <3>1. PICK turn \in 1..Len(path) :
            /\ \A i \in (turn + 1)..Len(path) : Climbs(graph, path[i], path[i - 1])
            /\ \A i \in 1..(turn - 2) : Descends(graph, path[i + 1], path[i])
      BY <1>3 DEF RouteShape, ValleyFree, path
    <3>2. CASE turn <= k
      <4>1. Climbing(graph, path, k)
        BY <1>4, <1>6, <3>1, <3>2 DEF Climbing
      <4>2. QED BY <2>4, <2>7, <4>1
    <3>3. CASE k < turn
      <4> DEFINE last == turn - 1
      <4>1. last \in 1..Len(path) /\ k \in 2..last /\ last - 1 = turn - 2
        BY <1>4, <1>6, <3>1, <3>3
      <4>2. \A i \in 1..(last - 1) : Descends(graph, path[i + 1], path[i])
        BY <3>1, <4>1
      <4> HIDE DEF last
      <4>3. graph.rank[path[1]] < graph.rank[path[k]]
        BY <1>4, <1>5, <4>1, <4>2, DescendingRises
      <4>4. QED BY <1>5, <1>6, <4>3
    <3>4. QED BY <1>4, <1>6, <3>1, <3>2, <3>3
  <2>8. QED BY <1>4, <2>5, <2>6, <2>7 DEF Relationship
<1>7. ASSUME NEW j \in 1..Len(path), NEW k \in 1..Len(path), path[j] = path[k] PROVE j = k
  <2>1. (j = 1 \/ j \in 2..Len(path)) /\ (k = 1 \/ k \in 2..Len(path))
    BY <1>4
  <2>2. QED BY <1>5, <1>6, <1>7, <2>1
<1>8. LoopFree(path)
  BY <1>7 DEF LoopFree
<1>9. QED BY <1>8 DEF path, route

\* Where it has come up to an AS, the route is the AS's anchor.
AnchorsBest ==
  \A n \in ASN :
    best[n] # NoRoute /\ Len(best[n].path) < MaxPathLen /\ Climbing(graph, best[n].path, 1) =>
      Anchored(graph, routes, n, Len(best[n].path))

LEMMA ClimbedIsAnchored == TypeInv /\ ShapeInv /\ KeptInv => AnchorsBest
<1>1. SUFFICES ASSUME TypeInv, ShapeInv, KeptInv, NEW n \in ASN, best[n] # NoRoute,
                      Len(best[n].path) < MaxPathLen, Climbing(graph, best[n].path, 1)
               PROVE  Anchored(graph, routes, n, Len(best[n].path))
  BY DEF AnchorsBest
<1>2. PICK m \in DOMAIN routes[n] : best[n] = routes[n][m]
  BY <1>1, BestNow
<1> DEFINE route == best[n]
           path == route.path
<1>3. /\ KeptBy(graph, routes, n, m, route) /\ RouteShape(graph, n, route)
      /\ route \in Announcement /\ m \in ASN
  BY <1>1, <1>2, BestNow DEF KeptInv, ShapeInv, TypeInv
<1>4. /\ path \in Path /\ Len(path) \in Nat \ {0} /\ route.received_from \in Relationship
      /\ Len(path) <= Len(path) /\ path[1] = n
  BY <1>3 DEF Announcement, Path, RouteShape
<1>5. ASSUME m # n PROVE n \in graph.providers[m]
  <2>1. Len(path) > 1 /\ path[2] = m
    BY <1>1, <1>3, <1>4, <1>5, MaxPathLenAssumption DEF KeptBy, path
  <2>2. 2 \in (1 + 1)..Len(path) /\ 2 - 1 = 1
    BY <1>4, <2>1
  <2>3. Climbs(graph, path[2], path[1])
    BY <1>1, <2>2 DEF Climbing, path
  <2>4. QED BY <1>4, <2>1, <2>3 DEF Climbs
<1>6. route.received_from # "FROM_PROVIDER"
  <2>1. SUFFICES ASSUME route.received_from = "FROM_PROVIDER" PROVE FALSE
    OBVIOUS
  <2>2. m \in graph.providers[n] /\ m # n
    BY <1>3, <2>1 DEF KeptBy
  <2>3. graph.rank[n] < graph.rank[m] /\ graph.rank[m] < graph.rank[n]
        /\ graph.rank[n] \in Nat /\ graph.rank[m] \in Nat
    BY <1>1, <1>3, <1>5, <2>2, GraphFacts DEF TypeInv
  <2>4. QED BY <2>3
<1>7. QED BY <1>2, <1>4, <1>5, <1>6 DEF Anchored, Relationship

\* What an AS has after a step it had before or has learned from what it heard.
LEMMA StepLearns ==
  ASSUME TypeInv, Step, NEW n \in ASN
  PROVE  /\ DOMAIN routes[n] \subseteq DOMAIN routes'[n]
         /\ \A m \in DOMAIN routes'[n] :
              \/ m \in DOMAIN routes[n] /\ routes'[n][m] = routes[n][m]
              \/ /\ n \in Acting
                 /\ \E a \in heard[n] :
                      /\ a \in Announcement /\ a.next_hop = m /\ Accepts(n, a)
                      /\ routes'[n][m] = PrependASN(a, n, m, a.received_from)
<1>1. DOMAIN routes[n] \subseteq DOMAIN routes'[n]
  BY StepRoutes, LearnResult
<1>2. ASSUME NEW m \in DOMAIN routes'[n], ~(m \in DOMAIN routes[n] /\ routes'[n][m] = routes[n][m])
      PROVE  /\ n \in Acting
             /\ \E a \in heard[n] :
                  /\ a \in Announcement /\ a.next_hop = m /\ Accepts(n, a)
                  /\ routes'[n][m] = PrependASN(a, n, m, a.received_from)
  <2>1. n \in Acting /\ routes'[n][m] \in Kept(n) /\ routes'[n][m].next_hop = m
    BY <1>2, StepRoutes
  <2>2. PICK a \in heard[n] :
          /\ a \in Announcement /\ Accepts(n, a)
          /\ routes'[n][m] = PrependASN(a, n, a.next_hop, a.received_from)
          /\ routes'[n][m].next_hop = a.next_hop
    BY <2>1, KeptResult
  <2>3. a.next_hop = m
    BY <2>1, <2>2
  <2>4. QED BY <2>1, <2>2, <2>3
<1>3. QED BY <1>1, <1>2

\* The path after prepending depends on the path before it only.
LEMMA PrependedPath ==
  ASSUME NEW a, NEW b, a.path = b.path, NEW n, NEW m, NEW k, NEW r, NEW s
  PROVE  PrependASN(a, n, m, r).path = PrependASN(b, n, k, s).path
BY DEF PrependASN, MakeAnnouncement

LEMMA InitSentInv == Init => SentInv
<1>1. SUFFICES ASSUME Init, NEW n \in ASN
               PROVE  heard[n] = {} /\ DOMAIN routes[n] \subseteq {n}
  BY DEF SentInv
<1>2. QED BY <1>1, InitRoutes

LEMMA StepSentInv ==
  ASSUME Iterations = 1, TypeInv, ShapeInv, SentInv, Step
  PROVE  SentInv'
<1>1. SUFFICES ASSUME Early' PROVE SentInv'
  BY DEF SentInv
<1>2. /\ graph' = graph /\ loop' = NextLoop(graph, loop) /\ loop.phase # "done"
      /\ WellFormed(graph) /\ loop \in LoopType /\ loop.rank \in Nat /\ loop.phase \in Phases
      /\ loop.iteration = 1
  BY DEF Step, TypeInv, ShapeInv, LoopType
<1>3. \/ /\ loop.phase = "up" /\ loop'.phase = "up" /\ loop'.rank = loop.rank + 1
      \/ loop.phase = "up" /\ loop'.phase = "drain" /\ loop.rank >= MaxRank(graph)
      \/ loop.phase = "drain" /\ loop'.phase = "across"
      \/ loop.phase = "across" /\ loop'.phase = "settle"
  <2>1. ~(loop.phase = "down" /\ loop'.phase = "up")
    BY <1>2, NextShape, NextLoopResult
  <2>2. QED BY <1>1, <1>2, <2>1, NextLoopResult DEF Early
<1>4. Early
  BY <1>3 DEF Early
<1>5. ASSUME NEW n \in ASN, NEW m \in DOMAIN routes[n] \ {n}
      PROVE  /\ m \in ASN /\ best[m] # NoRoute /\ HadTurn(m)
             /\ routes[n][m].path = PrependASN(best[m], n, m, "FROM_CUSTOMER").path
  BY <1>4, <1>5 DEF SentInv, TypeInv
<1>6. ASSUME NEW n \in ASN, NEW a \in heard[n]
      PROVE  /\ a.next_hop \in ASN /\ best[a.next_hop] # NoRoute /\ HadTurn(a.next_hop)
             /\ a.path = best[a.next_hop].path
             /\ loop.phase = "up" /\ loop.rank <= graph.rank[n]
  <2>1. a \in Announcement /\ loop.phase # "settle"
    BY <1>3, <1>6 DEF TypeInv
  <2>2. QED BY <1>4, <1>6, <2>1 DEF SentInv, Announcement
<1>7. ASSUME NEW m \in ASN, HadTurn(m)
      PROVE  best'[m] = best[m] /\ HadTurn(m)'
  <2>1. CASE loop.phase = "up"
    <3>1. graph.rank[m] < loop.rank /\ graph.rank[m] \in Nat
      BY <1>2, <1>7, <2>1, GraphFacts DEF HadTurn
    <3>2. m \notin Acting
      BY <1>2, <2>1, <3>1 DEF Acting, Members
    <3>3. HadTurn(m)'
      BY <1>2, <1>3, <3>1 DEF HadTurn
    <3>4. QED BY <3>2, <3>3, IdleKeepsBest
  <2>2. CASE loop.phase = "drain"
    <3>1. heard[m] = {}
      BY <1>6, <2>2
    <3>2. /\ DOMAIN routes'[m] = DOMAIN routes[m]
          /\ \A k \in DOMAIN routes[m] : routes'[m][k] = routes[m][k]
      BY <3>1, StepLearns
    <3>3. {routes'[m][k] : k \in DOMAIN routes'[m]} = {routes[m][k] : k \in DOMAIN routes[m]}
      BY <3>2
    <3>4. best'[m] = best[m]
      <4>1. best[m] = MostPreferred({routes[m][k] : k \in DOMAIN routes[m]})
        BY <1>7 DEF TypeInv, Held
      <4>2. best'[m] = MostPreferred({routes'[m][k] : k \in DOMAIN routes'[m]})
        BY <1>7, StepRoutes
      <4>3. QED BY <3>3, <4>1, <4>2
    <3>5. QED BY <1>3, <2>2, <3>4 DEF HadTurn
  <2>3. CASE loop.phase = "across"
    <3>1. m \notin Acting
      BY <2>3 DEF Acting, Processes
    <3>2. QED BY <1>3, <2>3, <3>1, IdleKeepsBest DEF HadTurn
  <2>4. QED BY <1>3, <2>1, <2>2, <2>3
<1>8. ASSUME NEW n \in ASN, NEW m \in DOMAIN routes'[n] \ {n}
      PROVE  /\ best'[m] # NoRoute /\ HadTurn(m)'
             /\ routes'[n][m].path = PrependASN(best'[m], n, m, "FROM_CUSTOMER").path
  <2>1. CASE m \in DOMAIN routes[n] /\ routes'[n][m] = routes[n][m]
    BY <1>5, <1>7, <1>8, <2>1
  <2>2. ASSUME NEW a \in heard[n], a.next_hop = m,
               routes'[n][m] = PrependASN(a, n, m, a.received_from)
        PROVE  /\ best'[m] # NoRoute /\ HadTurn(m)'
               /\ routes'[n][m].path = PrependASN(best'[m], n, m, "FROM_CUSTOMER").path
    <3>1. /\ m \in ASN /\ best[m] # NoRoute /\ HadTurn(m) /\ a.path = best[m].path
      BY <1>6, <2>2
    <3>2. best'[m] = best[m] /\ HadTurn(m)'
      BY <1>7, <3>1
    <3>3. QED BY <2>2, <3>1, <3>2, PrependedPath
  <2>3. QED BY <1>8, <2>1, <2>2, StepLearns
<1>9. ASSUME NEW n \in ASN, NEW a \in heard'[n]
      PROVE  /\ best'[a.next_hop] # NoRoute /\ HadTurn(a.next_hop)'
             /\ a.path = best'[a.next_hop].path
             /\ loop'.phase = "settle" \/ (loop'.phase = "up" /\ loop'.rank <= graph.rank[n])
  <2>1. CASE n \notin Acting /\ a \in heard[n]
    <3>1. /\ a.next_hop \in ASN /\ best[a.next_hop] # NoRoute /\ HadTurn(a.next_hop)
          /\ a.path = best[a.next_hop].path
          /\ loop.phase = "up" /\ loop.rank <= graph.rank[n]
      BY <1>6, <2>1
    <3>2. best'[a.next_hop] = best[a.next_hop] /\ HadTurn(a.next_hop)'
      BY <1>7, <3>1
    <3>3. graph.rank[n] # loop.rank
      BY <2>1, <3>1 DEF Acting, Processes, Members
    <3>4. graph.rank[n] \in Nat /\ graph.rank[n] <= MaxRank(graph) /\ MaxRank(graph) \in Nat
      BY <1>2, GraphFacts
    <3>5. loop'.phase = "up" /\ loop'.rank <= graph.rank[n]
      BY <1>2, <1>3, <3>1, <3>3, <3>4
    <3>6. QED BY <3>1, <3>2, <3>5
  <2>2. ASSUME NEW m \in Members(graph, loop), n \in Receivers(graph, loop, m),
               best'[m] # NoRoute, a = Export(m, best'[m], SentAs(loop))
        PROVE  /\ best'[a.next_hop] # NoRoute /\ HadTurn(a.next_hop)'
               /\ a.path = best'[a.next_hop].path
               /\ loop'.phase = "settle" \/ (loop'.phase = "up" /\ loop'.rank <= graph.rank[n])
    <3>1. a.next_hop = m /\ a.path = best'[m].path
      BY <2>2 DEF Export, MakeAnnouncement
    <3>2. /\ m \in ASN
          /\ \/ loop.phase = "up" /\ n \in graph.providers[m]
             \/ loop.phase = "across"
      BY <1>3, <2>2, SendersAndReceivers
    <3>3. CASE loop.phase = "across"
      BY <1>3, <2>2, <3>1, <3>3 DEF HadTurn
    <3>4. CASE loop.phase = "up" /\ n \in graph.providers[m]
      <4>1. graph.rank[m] = loop.rank
        BY <2>2, <3>4 DEF Members
      <4>2. /\ graph.rank[m] < graph.rank[n] /\ graph.rank[n] \in Nat
            /\ graph.rank[n] <= MaxRank(graph) /\ MaxRank(graph) \in Nat
        BY <1>2, <3>2, <3>4, GraphFacts
      <4>3. loop'.phase = "up" /\ loop'.rank = loop.rank + 1
        BY <1>2, <1>3, <3>4, <4>1, <4>2
      <4>4. QED BY <1>2, <2>2, <3>1, <4>1, <4>2, <4>3 DEF HadTurn
    <3>5. QED BY <3>2, <3>3, <3>4
  <2>3. QED BY <1>9, <2>1, <2>2, StepHeard
<1>10. QED BY <1>2, <1>8, <1>9 DEF SentInv

\* What anchors an AS stays: until the peers have been heard, nobody sends
\* anything new, and from then on it is providers that send.
LEMMA AnchoredKept ==
  ASSUME TypeInv, ShapeInv, SentInv, OnItsWayInv, Step,
         NEW x \in ASN, NEW len, Anchored(graph, routes, x, len)
  PROVE  Anchored(graph, routes', x, len)
<1>1. PICK c \in DOMAIN routes[x] :
        /\ c = x \/ x \in graph.providers[c]
        /\ routes[x][c].received_from \in {"ORIGIN", "FROM_CUSTOMER", "FROM_PEER"}
        /\ Len(routes[x][c].path) <= len
  BY DEF Anchored
<1>2. /\ c \in ASN /\ c \in DOMAIN routes'[x] /\ WellFormed(graph)
      /\ loop.phase \in Phases /\ loop.phase # "done"
  BY <1>1, StepLearns DEF TypeInv, LoopType, Step
<1>3. CASE routes'[x][c] = routes[x][c]
  BY <1>1, <1>2, <1>3 DEF Anchored
<1>4. ASSUME NEW a \in heard[x], a \in Announcement, a.next_hop = c,
             routes'[x][c] = PrependASN(a, x, c, a.received_from)
      PROVE  Anchored(graph, routes', x, len)
  <2>1. c # x /\ x \in graph.providers[c]
    BY <1>1, <1>4 DEF OnItsWayInv
  <2>2. CASE Early
    <3>1. a.path = best[c].path /\ routes[x][c].path = PrependASN(best[c], x, c, "FROM_CUSTOMER").path
      BY <1>1, <1>4, <2>1, <2>2 DEF SentInv
    <3>2. routes'[x][c].path = routes[x][c].path
      BY <1>4, <3>1, PrependedPath
    <3>3. a.received_from \in {"FROM_CUSTOMER", "FROM_PEER"}
      BY <1>4, <2>2 DEF ShapeInv, HeardAs, Early
    <3>4. routes'[x][c].received_from = a.received_from
      BY <1>4 DEF PrependASN, MakeAnnouncement
    <3>5. QED BY <1>1, <1>2, <2>1, <3>2, <3>3, <3>4 DEF Anchored
  <2>3. CASE ~Early
    <3>1. a.received_from = "FROM_PROVIDER"
      BY <1>2, <1>4, <2>3 DEF OnItsWayInv, Early, Phases
    <3>2. c \in graph.providers[x]
      BY <1>4, <3>1 DEF ShapeInv, HeardShape, Descends
    <3>3. /\ graph.rank[c] < graph.rank[x] /\ graph.rank[x] < graph.rank[c]
          /\ graph.rank[c] \in Nat /\ graph.rank[x] \in Nat
      BY <1>2, <2>1, <3>2, GraphFacts
    <3>4. QED BY <3>3
  <2>4. QED BY <2>2, <2>3
<1>5. QED BY <1>2, <1>3, <1>4, StepLearns

\* A route that is kept by its rules when it is heard is kept by them ever after.
LEMMA StepKeptInv ==
  ASSUME LoopCheckLen <= MaxPathLen, TypeInv, ShapeInv, SentInv, OnItsWayInv, KeptInv, Step
  PROVE  KeptInv'
<1>1. graph' = graph
  BY DEF Step
<1>2. SUFFICES ASSUME NEW n \in ASN, NEW m \in DOMAIN routes'[n]
               PROVE  KeptBy(graph, routes', n, m, routes'[n][m])
  BY <1>1 DEF KeptInv
<1>3. m \in ASN /\ routes'[n][m] \in Announcement
  BY StepRoutes
<1>4. CASE m \in DOMAIN routes[n] /\ routes'[n][m] = routes[n][m]
  <2> DEFINE route == routes[n][m]
  <2>1. KeptBy(graph, routes, n, m, route) /\ route \in Announcement
    BY <1>3, <1>4 DEF KeptInv
  <2>2. \A k \in 1..Len(route.path) : route.path[k] \in ASN
    BY <2>1 DEF Announcement, Path
  <2>3. Len(route.path) \in Nat
    BY <2>1 DEF Announcement, Path
  <2> HIDE DEF route
  <2>4. ASSUME NEW k \in 2..Len(route.path), ComesFrom(graph, routes, route.path, k)
        PROVE  ComesFrom(graph, routes', route.path, k)
    <3>1. route.path[k] \in ASN
      BY <2>2, <2>3
    <3>2. QED BY <2>4, <3>1, AnchoredKept DEF ComesFrom
  <2>5. KeptBy(graph, routes', n, m, route)
    BY <2>1, <2>4 DEF KeptBy
  <2>6. QED BY <1>4, <2>5 DEF route
<1>5. ASSUME NEW a \in heard[n], a \in Announcement, a.next_hop = m, Accepts(n, a),
             routes'[n][m] = PrependASN(a, n, m, a.received_from)
      PROVE  KeptBy(graph, routes', n, m, routes'[n][m])
  <2> DEFINE new == PrependASN(a, n, m, a.received_from)
             old == a.path
             path == new.path
  <2>1. /\ OnItsWay(graph, routes, a) /\ m # n /\ HeardShape(graph, n, a)
    BY <1>5 DEF OnItsWayInv, ShapeInv
  <2>2. /\ a.received_from \in Relationship /\ old \in Path
        /\ Len(old) \in Nat \ {0} /\ Len(old) <= MaxPathLen /\ MaxPathLen \in Nat \ {0}
        /\ \A k \in 1..Len(old) : old[k] \in ASN
    BY <1>5, MaxPathLenAssumption DEF Announcement, Path
  <2>3. /\ new.received_from = a.received_from /\ path[1] = n
        /\ Len(path) = IF Len(old) < MaxPathLen THEN Len(old) + 1 ELSE MaxPathLen
        /\ \A k \in 2..Len(path) : path[k] = old[k - 1]
    BY <1>3, <1>5, <2>2, PrependResult
  <2>4. /\ a.received_from # "ORIGIN" /\ old[1] = m
        /\ a.received_from = "FROM_PROVIDER" => m \in graph.providers[n]
    BY <1>5, <2>1 DEF HeardShape, Descends
  <2>5. /\ LoopFree(old)
        /\ Len(old) < MaxPathLen => \A k \in 1..Len(old) : ComesFrom(graph, routes, old, k)
    BY <2>1 DEF OnItsWay
  <2>6. Accepts(n, a) => Len(old) < LoopCheckLen \/ \A k \in 1..Len(old) : old[k] # n
    BY <2>2, LoopCheckAssumption DEF Accepts, ContainsASN
  <2> HIDE DEF new, old, path
  <2>7. \A k \in 2..Len(path) : k - 1 \in 1..Len(old) /\ k \in Nat
    BY <2>2, <2>3
  <2>8. MaxPathLen > 1 => Len(path) > 1 /\ path[2] = m
    <3>1. MaxPathLen > 1 => Len(path) > 1 /\ 2 \in 2..Len(path) /\ 2 - 1 = 1
      BY <2>2, <2>3
    <3>2. QED BY <2>3, <2>4, <3>1
  <2>9. ASSUME NEW j \in 2..Len(path), NEW k \in 2..Len(path), path[j] = path[k] PROVE j = k
    <3>1. j - 1 \in 1..Len(old) /\ k - 1 \in 1..Len(old) /\ old[j - 1] = old[k - 1]
      BY <2>3, <2>7, <2>9
    <3>2. j - 1 = k - 1
      BY <2>5, <3>1 DEF LoopFree
    <3>3. QED BY <2>7, <3>2
  <2>10. ASSUME NEW k \in 2..Len(path), Len(path) < MaxPathLen \/ path[k] = n,
                Climbing(graph, path, k)
         PROVE  Anchored(graph, routes', path[k], Len(path) + 1 - k)
    <3>1. k - 1 \in 1..Len(old) /\ k \in Nat /\ path[k] = old[k - 1]
      BY <2>3, <2>7
    <3>2. Len(old) < MaxPathLen /\ Len(path) = Len(old) + 1
      <4>1. CASE Len(path) < MaxPathLen
        BY <2>2, <2>3, <4>1
      <4>2. CASE path[k] = n
        <5>1. Len(old) < LoopCheckLen
          BY <1>5, <2>6, <3>1, <4>2
        <5>2. QED BY <2>2, <2>3, <5>1, LoopCheckAssumption
      <4>3. QED BY <2>10, <4>1, <4>2
    <3>3. Climbing(graph, old, k - 1)
      <4>1. SUFFICES ASSUME NEW i \in ((k - 1) + 1)..Len(old)
                     PROVE  Climbs(graph, old[i], old[i - 1])
        BY DEF Climbing
      <4>2. /\ i + 1 \in (k + 1)..Len(path) /\ (i + 1) - 1 = i
            /\ i + 1 \in 2..Len(path) /\ i \in 2..Len(path)
        BY <2>2, <3>1, <3>2, <4>1
      <4>3. path[i + 1] = old[i] /\ path[i] = old[i - 1]
        BY <2>3, <4>2
      <4>4. Climbs(graph, path[i + 1], path[(i + 1) - 1])
        BY <2>10, <4>2 DEF Climbing
      <4>5. QED BY <4>2, <4>3, <4>4
    <3>4. Anchored(graph, routes, old[k - 1], Len(old) + 1 - (k - 1))
      BY <2>5, <3>1, <3>2, <3>3 DEF ComesFrom
    <3>5. Len(old) + 1 - (k - 1) = Len(path) + 1 - k
      BY <2>2, <3>1, <3>2
    <3>6. Anchored(graph, routes, path[k], Len(path) + 1 - k) /\ path[k] \in ASN
      BY <2>2, <3>1, <3>4, <3>5
    <3>7. QED BY <3>6, AnchoredKept
  <2>11. KeptBy(graph, routes', n, m, new)
    BY <2>1, <2>3, <2>4, <2>8, <2>9, <2>10 DEF KeptBy, ComesFrom, path
  <2>12. QED BY <1>5, <2>11 DEF new
<1>6. QED BY <1>2, <1>4, <1>5, StepLearns

\* So are those on their way.  What is heard after the peers comes from above.
LEMMA StepOnItsWayInv ==
  ASSUME TypeInv, ShapeInv, SentInv, OnItsWayInv, NoSelfPeering, Step,
         BestAreLoopFree', AnchorsBest', KeptInv', TypeInv'
  PROVE  OnItsWayInv'
<1>1. /\ graph' = graph /\ loop' = NextLoop(graph, loop) /\ loop.phase # "done"
      /\ WellFormed(graph) /\ loop \in LoopType /\ loop.phase \in Phases
  BY DEF Step, TypeInv, LoopType
<1>2. SUFFICES ASSUME NEW n \in ASN, NEW a \in heard'[n]
               PROVE  /\ OnItsWay(graph, routes', a) /\ a.next_hop # n
                      /\ loop'.phase \in {"down", "done"} => a.received_from = "FROM_PROVIDER"
  BY <1>1 DEF OnItsWayInv
<1>3. CASE n \notin Acting /\ a \in heard[n]
  <2>1. /\ OnItsWay(graph, routes, a) /\ a.next_hop # n /\ a \in Announcement
        /\ loop.phase \in {"down", "done"} => a.received_from = "FROM_PROVIDER"
    BY <1>3 DEF OnItsWayInv, TypeInv
  <2>2. /\ \A k \in 1..Len(a.path) : a.path[k] \in ASN
    BY <2>1 DEF Announcement, Path
  <2>3. OnItsWay(graph, routes', a)
    BY <2>1, <2>2, AnchoredKept DEF OnItsWay, ComesFrom
  <2>4. loop.phase # "settle"
    BY <1>3 DEF Acting, Processes, Members
  <2>5. loop'.phase \in {"down", "done"} => loop.phase = "down"
    BY <1>1, <2>4, NextLoopResult
  <2>6. QED BY <2>1, <2>3, <2>5
<1>4. ASSUME NEW m \in Members(graph, loop), n \in Receivers(graph, loop, m),
             best'[m] # NoRoute, a = Export(m, best'[m], SentAs(loop))
      PROVE  /\ OnItsWay(graph, routes', a) /\ a.next_hop # n
             /\ loop'.phase \in {"down", "done"} => a.received_from = "FROM_PROVIDER"
  <2>1. a.path = best'[m].path /\ a.next_hop = m /\ a.received_from = SentAs(loop)
    BY <1>4 DEF Export, MakeAnnouncement
  <2>2. /\ m \in ASN
        /\ \/ loop.phase = "up" /\ n \in graph.providers[m]
           \/ loop.phase = "across" /\ n \in graph.peers[m]
           \/ /\ loop.phase = "down" /\ m \in graph.providers[n]
              /\ SentAs(loop) = "FROM_PROVIDER"
    BY <1>4, SendersAndReceivers
  <2>3. m # n
    <3>1. \A k \in ASN : k \notin graph.providers[k]
      <4>1. SUFFICES ASSUME NEW k \in ASN, k \in graph.providers[k] PROVE FALSE
        OBVIOUS
      <4>2. graph.rank[k] < graph.rank[k] /\ graph.rank[k] \in Nat
        BY <1>1, <4>1, GraphFacts
      <4>3. QED BY <4>2
    <3>2. QED BY <2>2, <3>1 DEF NoSelfPeering
  <2>4. loop'.phase \in {"down", "done"} => loop.phase \in {"settle", "down"}
    BY <1>1, NextLoopResult
  <2>5. PICK k \in DOMAIN routes'[m] : best'[m] = routes'[m][k]
    BY <1>4, <2>2, StepBest
  <2>6. /\ best'[m] \in Announcement
        /\ KeptBy(graph, routes', m, k, best'[m])
    BY <1>1, <1>4, <2>2, <2>5, StepBest DEF KeptInv
  <2> DEFINE path == best'[m].path
  <2>7. Len(path) \in Nat \ {0} /\ path[1] = m
    <3>1. Len(path) \in Nat \ {0}
      BY <2>6 DEF Announcement, Path
    <3>2. path[1] = m
      <4>1. \/ k \in DOMAIN routes[m] /\ routes'[m][k] = routes[m][k]
            \/ \E b \in heard[m] : /\ b \in Announcement /\ b.next_hop = k
                                   /\ routes'[m][k] = PrependASN(b, m, k, b.received_from)
        BY <2>2, <2>5, StepLearns
      <4>2. CASE k \in DOMAIN routes[m] /\ routes'[m][k] = routes[m][k]
        BY <2>2, <2>5, <4>2 DEF ShapeInv, RouteShape
      <4>3. ASSUME NEW b \in heard[m], b \in Announcement, b.next_hop = k,
                   routes'[m][k] = PrependASN(b, m, k, b.received_from)
            PROVE  path[1] = m
        <5>1. k \in ASN /\ b.received_from \in Relationship
          BY <4>3 DEF Announcement
        <5>2. QED BY <2>2, <2>5, <4>3, <5>1, PrependResult
      <4>4. QED BY <4>1, <4>2, <4>3
    <3>3. QED BY <3>1, <3>2
  <2>8. LoopFree(path)
    BY <1>4, <2>2 DEF BestAreLoopFree
  <2>9. ASSUME Len(path) < MaxPathLen, NEW i \in 1..Len(path), Climbing(graph, path, i)
        PROVE  Anchored(graph, routes', path[i], Len(path) + 1 - i)
    <3>1. CASE i = 1
      <4>1. Anchored(graph, routes', m, Len(path))
        BY <1>1, <1>4, <2>2, <2>9, <3>1 DEF AnchorsBest
      <4>2. Len(path) + 1 - i = Len(path)
        BY <2>7, <3>1
      <4>3. QED BY <2>7, <3>1, <4>1, <4>2
    <3>2. CASE i # 1
      <4>1. i \in 2..Len(path)
        BY <2>7, <2>9, <3>2
      <4>2. QED BY <2>6, <2>9, <4>1 DEF KeptBy, ComesFrom
    <3>3. QED BY <3>1, <3>2
  <2>10. OnItsWay(graph, routes', a)
    BY <2>1, <2>8, <2>9 DEF OnItsWay, ComesFrom
  <2>11. QED BY <2>1, <2>2, <2>3, <2>4, <2>10
<1>5. QED BY <1>2, <1>3, <1>4, StepHeard

\* At first there are the ASes' own routes, and nobody has said anything.
LEMMA InitTwiceInv == Init => TwiceInv
<1>1. SUFFICES ASSUME Init PROVE SentInv /\ KeptInv /\ OnItsWayInv
  BY DEF TwiceInv
<1>2. ASSUME NEW n \in ASN, NEW m \in DOMAIN routes[n]
      PROVE  KeptBy(graph, routes, n, m, routes[n][m])
  <2>1. best[n] # NoRoute /\ m = n /\ routes[n][m] = best[n]
    BY <1>1, <1>2, InitRoutes
  <2>2. best[n].path = <<n>> /\ best[n].received_from = "ORIGIN"
    BY <1>1, <2>1, InitSeeds
  <2>3. Len(<<n>>) = 1 /\ 2..1 = {}
    OBVIOUS
  <2>4. QED BY <2>1, <2>2, <2>3 DEF KeptBy
<1>3. OnItsWayInv
  BY <1>1, InitRoutes DEF OnItsWayInv
<1>4. QED BY <1>1, <1>2, <1>3, InitSentInv DEF KeptInv

LEMMA StepTwiceInv ==
  ASSUME Iterations = 1, LoopCheckLen <= MaxPathLen
  PROVE  TypeInv /\ ShapeInv /\ TwiceInv /\ Step => TwiceInv'
<1>1. NoSelfPeering /\ TypeInv /\ ShapeInv /\ KeptInv => BestAreLoopFree /\ AnchorsBest
  BY KeptIsLoopFree, ClimbedIsAnchored
<1>2. TypeInv /\ ShapeInv /\ Step => TypeInv' /\ ShapeInv'
  BY StepTypeInv, StepShapeInv
<1>3. Step => (NoSelfPeering' <=> NoSelfPeering)
  BY DEF Step, NoSelfPeering
<1>4. TypeInv /\ ShapeInv /\ SentInv /\ Step => SentInv'
  BY StepSentInv
<1>5. TypeInv /\ ShapeInv /\ SentInv /\ KeptInv /\ OnItsWayInv /\ Step => KeptInv'
  BY StepKeptInv
<1>6. /\ TypeInv /\ ShapeInv /\ SentInv /\ OnItsWayInv /\ NoSelfPeering /\ Step
      /\ BestAreLoopFree' /\ AnchorsBest' /\ KeptInv' /\ TypeInv'
      => OnItsWayInv'
  BY StepOnItsWayInv
<1>7. (NoSelfPeering /\ TypeInv /\ ShapeInv /\ KeptInv)' => (BestAreLoopFree /\ AnchorsBest)'
  BY <1>1, PTL
<1>8. QED BY <1>2, <1>3, <1>4, <1>5, <1>6, <1>7 DEF TwiceInv

\* BestAreLoopFree, on every acyclic graph, pairs that are related twice included,
\* as long as no AS is its own peer: in one pass no AS uses a route that went
\* through it already.  The paths must have room for the length from which loops
\* are looked for, as 16 has for 10 (announcement.h:10, as_node.cpp:210): a path
\* that is cut may come back as short as it went.
THEOREM NoRouteComesBack ==
  ASSUME Iterations = 1, LoopCheckLen <= MaxPathLen
  PROVE  Spec => [](NoSelfPeering => BestAreLoopFree)
<1>1. TypeInv /\ ShapeInv /\ Step => ShapeInv'
  BY StepShapeInv
<1>2. TypeInv /\ ShapeInv /\ TwiceInv /\ Step => TwiceInv'
  BY StepTwiceInv
<1>3. ShapeInv /\ UNCHANGED vars => ShapeInv'
  BY DEF ShapeInv, vars
<1>4. TwiceInv /\ UNCHANGED vars => TwiceInv'
  <2>1. SUFFICES ASSUME UNCHANGED vars PROVE TwiceInv' <=> TwiceInv
    OBVIOUS
  <2>2. NoSelfPeering' <=> NoSelfPeering
    BY <2>1 DEF NoSelfPeering, vars
  <2>3. SentInv' <=> SentInv
    BY <2>1 DEF SentInv, Early, HadTurn, vars
  <2>4. (KeptInv' <=> KeptInv) /\ (OnItsWayInv' <=> OnItsWayInv)
    BY <2>1 DEF KeptInv, OnItsWayInv, vars
  <2>5. QED BY <2>2, <2>3, <2>4 DEF TwiceInv
<1>5. TypeInv /\ ShapeInv /\ TwiceInv => (NoSelfPeering => BestAreLoopFree)
  BY KeptIsLoopFree DEF TwiceInv
<1>6. QED
  BY <1>1, <1>2, <1>3, <1>4, <1>5, InitShapeInv, InitTwiceInv, TypeInvariant, PTL DEF Spec, Next
=============================================================================
