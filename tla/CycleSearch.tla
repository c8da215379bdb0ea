------------------------------ MODULE CycleSearch ------------------------------
(***************************************************************************)
(* ASGraph::hasProviderCustomerCycles and hasCycleDFS (as_graph.cpp): a    *)
(* depth-first search from every AS not visited yet, along the links from  *)
(* providers to customers.  The recursion is a stack of calls; looking at  *)
(* one customer is a step.                                                 *)
(***************************************************************************)
EXTENDS CustomerLinks

VARIABLES visited,  \* the ASes marked visited
          stack,    \* the calls of hasCycleDFS that have not returned
          verdict   \* "searching", or what hasProviderCustomerCycles returned

vars == <<graph, visited, stack, verdict>>

\* A call for an AS that has yet to look at these links to customers.
Call(n, links) == [node |-> n, links |-> links]

Top == stack[Len(stack)]

\* The ASes marked inStack.
InStack == {stack[k].node : k \in DOMAIN stack}

TypeOK ==
  /\ graph \in Graphs
  /\ visited \subseteq Node
  /\ stack \in Seq([node : Node, links : SUBSET Link])
  /\ verdict \in {"searching", "cyclic", "acyclic"}

Init ==
  /\ graph \in Graphs
  /\ visited = {}
  /\ stack = <<>>
  /\ verdict = "searching"

\* The loop over all ASes calls hasCycleDFS for one that was not visited; the
\* order is that of a hash map.
Start(n) ==
  /\ verdict = "searching"
  /\ stack = <<>>
  /\ n \in Node \ visited
  /\ visited' = visited \cup {n}
  /\ stack' = <<Call(n, LinksOf(n))>>
  /\ UNCHANGED <<graph, verdict>>

\* What is left of the topmost call once it has looked at a link.
Without(l) == [stack EXCEPT ![Len(stack)].links = @ \ {l}]

\* The customer was not visited: a recursive call.
Descend(l) ==
  LET customer == graph[l].customer
  IN  /\ verdict = "searching"
      /\ stack # <<>>
      /\ l \in Top.links
      /\ customer \notin visited
      /\ visited' = visited \cup {customer}
      /\ stack' = Append(Without(l), Call(customer, LinksOf(customer)))
      /\ UNCHANGED <<graph, verdict>>

\* Faulty variant: every customer seen before is taken for a cycle.
FindVisited(l) ==
  /\ verdict = "searching"
  /\ stack # <<>>
  /\ l \in Top.links
  /\ graph[l].customer \in visited
  /\ verdict' = "cyclic"
  /\ UNCHANGED <<graph, visited, stack>>

\* The customer's own call has not returned: true, all the way up.
FindCycle(l) ==
  /\ verdict = "searching"
  /\ stack # <<>>
  /\ l \in Top.links
  /\ graph[l].customer \in visited
  /\ graph[l].customer \in InStack
  /\ verdict' = "cyclic"
  /\ UNCHANGED <<graph, visited, stack>>

\* The customer's call returned before.
Skip(l) ==
  /\ verdict = "searching"
  /\ stack # <<>>
  /\ l \in Top.links
  /\ graph[l].customer \in visited \ InStack
  /\ stack' = Without(l)
  /\ UNCHANGED <<graph, visited, verdict>>

\* All customers looked at: inStack is cleared, false is returned.
Return ==
  /\ verdict = "searching"
  /\ stack # <<>>
  /\ Top.links = {}
  /\ stack' = SubSeq(stack, 1, Len(stack) - 1)
  /\ UNCHANGED <<graph, visited, verdict>>

Finish ==
  /\ verdict = "searching"
  /\ stack = <<>>
  /\ visited = Node
  /\ verdict' = "acyclic"
  /\ UNCHANGED <<graph, visited, stack>>

Next ==
  \/ \E n \in Node : Start(n)
  \/ \E l \in Link : Descend(l) \/ FindCycle(l) \/ Skip(l)
  \/ Return
  \/ Finish

Spec == Init /\ [][Next]_vars
-----------------------------------------------------------------------------
\* The search, which looks at every link at most once, answers right: a graph
\* is refused (as_graph.cpp:313) if and only if an AS is its own customer over
\* some links.
VerdictIsRight ==
  /\ verdict = "cyclic"  => \E S \in (SUBSET Node) \ {{}} : Cyclic(S)
  /\ verdict = "acyclic" => \A S \in (SUBSET Node) \ {{}} : ~Cyclic(S)
=============================================================================
