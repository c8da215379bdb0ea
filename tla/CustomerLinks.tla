---------------------------- MODULE CustomerLinks ----------------------------
(***************************************************************************)
(* The provider-customer links of the graph, for the two algorithms that   *)
(* walk them before anything is propagated.  The graph is a multigraph: a  *)
(* pair of ASes listed twice in the input is linked twice.                 *)
(***************************************************************************)
EXTENDS Integers, Sequences, FiniteSets

CONSTANTS Node,   \* the ASes
          Link,   \* the provider-customer links
          Graphs  \* what the links may connect

ASSUME FiniteAssumption == IsFiniteSet(Node) /\ IsFiniteSet(Link)

ASSUME GraphsAssumption == Graphs \subseteq [Link -> [customer : Node, provider : Node]]

VARIABLE graph  \* link -> its two ends; never changes

\* The links in which an AS is the provider.
LinksOf(provider) == {l \in Link : graph[l].provider = provider}

\* A set of ASes each of which has a customer in the set: there is a
\* provider-customer cycle in it.
Cyclic(S) == \A n \in S : \E l \in LinksOf(n) : graph[l].customer \in S
=============================================================================
