-------------------------------- MODULE Flatten --------------------------------
(***************************************************************************)
(* ASGraph::flattenGraph (as_graph.cpp): Kahn's algorithm over the         *)
(* provider-customer links, which gives every AS its propagation rank.     *)
(* One visit of a link is a step.                                          *)
(***************************************************************************)
EXTENDS CustomerLinks

CONSTANT Stale  \* ranks left behind by an earlier flattening

ASSUME StaleAssumption == Stale \subseteq Int

VARIABLES pc,         \* "reset", "count", "visit" or "done"
          rank,       \* propagation_rank_, -1 if unassigned
          uncounted,  \* ASes the counting loop has not reached
          remaining,  \* remaining_customers
          queue,      \* the queue of ASes all of whose customers are ranked
          todo,       \* links of the AS taken from the queue not yet visited
          processed,  \* how many ASes were taken from the queue
          popped      \* history: which ASes were taken from the queue

vars == <<graph, pc, rank, uncounted, remaining, queue, todo, processed, popped>>

Queued == {queue[k] : k \in DOMAIN queue}

TypeOK ==
  /\ graph \in Graphs
  /\ pc \in {"reset", "count", "visit", "done"}
  /\ rank \in [Node -> Int]
  /\ uncounted \subseteq Node
  /\ remaining \in [Node -> Nat]
  /\ queue \in Seq(Node)
  /\ todo \subseteq Link
  /\ processed \in Nat
  /\ popped \subseteq Node

Init ==
  /\ graph \in Graphs
  /\ pc = "reset"
  /\ rank \in [Node -> Stale]
  /\ uncounted = Node
  /\ remaining = [n \in Node |-> 0]
  /\ queue = <<>>
  /\ todo = {}
  /\ processed = 0
  /\ popped = {}

\* Faulty variant: the ranks of the previous call are kept.
ResetNothing ==
  /\ pc = "reset"
  /\ pc' = "count"
  /\ UNCHANGED <<graph, rank, uncounted, remaining, queue, todo, processed, popped>>

Reset ==
  /\ pc = "reset"
  /\ pc' = "count"
  /\ rank' = [n \in Node |-> -1]
  /\ UNCHANGED <<graph, uncounted, remaining, queue, todo, processed, popped>>

\* Faulty variant: a customer linked twice is counted once.
CountDistinctCustomers(n) ==
  LET customers == Cardinality({graph[l].customer : l \in LinksOf(n)})
  IN  /\ pc = "count"
      /\ n \in uncounted
      /\ uncounted' = uncounted \ {n}
      /\ remaining' = [remaining EXCEPT ![n] = customers]
      /\ \/ /\ customers = 0
            /\ rank' = [rank EXCEPT ![n] = 0]
            /\ queue' = Append(queue, n)
         \/ /\ customers > 0
            /\ UNCHANGED <<rank, queue>>
      /\ UNCHANGED <<graph, pc, todo, processed, popped>>

\* nodes_ is a hash map: the counting loop meets its ASes in any order.
CountCustomers(n) ==
  LET customers == Cardinality(LinksOf(n))
  IN  /\ pc = "count"
      /\ n \in uncounted
      /\ uncounted' = uncounted \ {n}
      /\ remaining' = [remaining EXCEPT ![n] = customers]
      /\ \/ /\ customers = 0
            /\ rank' = [rank EXCEPT ![n] = 0]
            /\ queue' = Append(queue, n)
         \/ /\ customers > 0
            /\ UNCHANGED <<rank, queue>>
      /\ UNCHANGED <<graph, pc, todo, processed, popped>>

StartVisiting ==
  /\ pc = "count"
  /\ uncounted = {}
  /\ pc' = "visit"
  /\ UNCHANGED <<graph, rank, uncounted, remaining, queue, todo, processed, popped>>

\* The next AS leaves the queue; its provider links are to be visited.
Pop ==
  /\ pc = "visit"
  /\ todo = {}
  /\ queue # <<>>
  /\ queue' = Tail(queue)
  /\ popped' = popped \cup {Head(queue)}
  /\ todo' = {l \in Link : graph[l].customer = Head(queue)}
  /\ processed' = processed + 1
  /\ UNCHANGED <<graph, pc, rank, uncounted, remaining>>

\* Faulty variant: a provider may rank as its customer.
RaisedToCustomer(provider, customer) ==
  IF rank[provider] < rank[customer]
  THEN [rank EXCEPT ![provider] = rank[customer]]
  ELSE rank

Raised(provider, customer) ==
  IF rank[provider] < rank[customer] + 1
  THEN [rank EXCEPT ![provider] = rank[customer] + 1]
  ELSE rank

\* Faulty variant: a provider is queued as soon as one customer is ranked.
VisitQueuesEarly(l) ==
  LET provider == graph[l].provider
      customer == graph[l].customer
  IN  /\ pc = "visit"
      /\ l \in todo
      /\ todo' = todo \ {l}
      /\ rank' = Raised(provider, customer)
      /\ remaining' = [remaining EXCEPT ![provider] = @ - 1]
      /\ queue' = IF provider \in Queued \cup popped THEN queue ELSE Append(queue, provider)
      /\ UNCHANGED <<graph, pc, uncounted, processed, popped>>

\* One iteration over getProviders().  The order of the links in the vector is
\* that of the input file, hence any order.
Visit(l) ==
  LET provider == graph[l].provider
      customer == graph[l].customer
  IN  /\ pc = "visit"
      /\ l \in todo
      /\ todo' = todo \ {l}
      /\ rank' = Raised(provider, customer)
      /\ remaining' = [remaining EXCEPT ![provider] = @ - 1]
      /\ queue' = IF remaining'[provider] = 0 THEN Append(queue, provider) ELSE queue
      /\ UNCHANGED <<graph, pc, uncounted, processed, popped>>

\* Faulty variant: the traversal is over when every AS was processed.
FinishWithAll ==
  /\ pc = "visit"
  /\ todo = {}
  /\ processed = Cardinality(Node)
  /\ pc' = "done"
  /\ UNCHANGED <<graph, rank, uncounted, remaining, queue, todo, processed, popped>>

\* The ranks are grouped into layers and returned; a warning is printed when
\* processed differs from the number of ASes.
Finish ==
  /\ pc = "visit"
  /\ todo = {}
  /\ queue = <<>>
  /\ pc' = "done"
  /\ UNCHANGED <<graph, rank, uncounted, remaining, queue, todo, processed, popped>>

Next ==
  \/ Reset
  \/ \E n \in Node : CountCustomers(n)
  \/ StartVisiting
  \/ Pop
  \/ \E l \in Link : Visit(l)
  \/ Finish

Spec == Init /\ [][Next]_vars
-----------------------------------------------------------------------------
\* The ASes that are on a cycle or above one.
AboveCycle == UNION {S \in SUBSET Node : Cyclic(S)}

\* Every AS is taken from the queue at most once, so that processed counts
\* ASes and its comparison with nodes_.size() means something (as_graph.cpp:522).
CountsEachOnce == processed = Cardinality(popped)

\* The ASes never processed are exactly those a cycle keeps from being ranked:
\* the warning is printed if and only if the graph has a cycle.
FindsCycles == pc = "done" => popped = Node \ AboveCycle

\* Whatever the order of the queue, a provider ends up strictly above its
\* customers; the propagation phases rest on it (as_graph.cpp:714-754).
ProvidersAboveCustomers ==
  pc = "done" => \A l \in Link :
    graph[l].provider \in popped => rank[graph[l].provider] > rank[graph[l].customer]

\* No rank is higher than it has to be: rank 0 without customers, otherwise
\* one above the highest customer (as_graph.cpp:496).
RanksAreTight ==
  pc = "done" => \A n \in popped :
    IF LinksOf(n) = {} THEN rank[n] = 0
    ELSE \E l \in LinksOf(n) : rank[n] = rank[graph[l].customer] + 1

\* Once an AS is queued its rank is final: its own providers are ranked from it.
RankFinalOnceQueued ==
  [][pc # "reset" => \A n \in Queued \cup popped : rank'[n] = rank[n]]_vars

\* The traversal ends on every graph, cyclic ones included: nothing that is
\* taken from the queue ever comes back.
Terminates == <>(pc = "done")
=============================================================================
