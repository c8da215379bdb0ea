----------------------------- MODULE GraphBuilder -----------------------------
(***************************************************************************)
(* What buildFromCAIDAFile makes of the lines of a file (as_graph.cpp,     *)
(* as_node.cpp), the cycles it refuses, and the ranks flattenGraph gives.  *)
(*                                                                         *)
(* A line is the sequence of the numbers its fields spell; comments and    *)
(* blank lines have none.  The vectors of neighbours are functions that    *)
(* say how often a neighbour is in the vector: links listed twice are      *)
(* there twice, and their order is of no consequence (Propagation!         *)
(* IsLockStep, Flatten).                                                   *)
(***************************************************************************)
EXTENDS ASGraph, InputFiles

ASSUME ASNSpaceAssumption == ASNSpace \in Nat /\ \A asn \in ASN : asn < ASNSpace

VARIABLES nodes,     \* the keys of nodes_
          providers, \* AS -> provider -> how often it is in providers_
          customers, \* AS -> customer -> how often it is in customers_
          peers,     \* AS -> peer -> how often it is in peers_
          rank       \* AS -> propagation_rank_, -1 where flattenGraph was not

graphVars == <<nodes, providers, customers, peers, rank>>

NoLinks == [n \in ASN |-> [m \in ASN |-> 0]]

EmptyGraph ==
  /\ nodes = {}
  /\ providers = NoLinks
  /\ customers = NoLinks
  /\ peers = NoLinks
  /\ rank = [n \in ASN |-> -1]
-----------------------------------------------------------------------------
\* parseLine wants three fields, and keeps 32 bits of an AS number.
ParseLine(line) == Len(line) >= 3

AS1(line) == line[1] % ASNSpace

AS2(line) == line[2] % ASNSpace

\* push_back of a neighbour
Add(links, n, m) == [links EXCEPT ![n][m] = @ + 1]

\* continue
SkipLine(line) ==
  /\ ~ParseLine(line)
  /\ UNCHANGED graphVars

\* getOrCreateNode, twice
CreateNodes(line) == nodes' = nodes \cup {AS1(line), AS2(line)}

\* Faulty variant: the customer is not told of its provider when the link is
\* known already.
AddCustomerLinkOnce(line) ==
  /\ ParseLine(line) /\ line[3] = -1
  /\ CreateNodes(line)
  /\ customers' = Add(customers, AS1(line), AS2(line))
  /\ providers' = IF providers[AS2(line)][AS1(line)] > 0 THEN providers
                  ELSE Add(providers, AS2(line), AS1(line))
  /\ UNCHANGED <<peers, rank>>

\* The first AS is a provider of the second.
AddCustomerLink(line) ==
  /\ ParseLine(line) /\ line[3] = -1
  /\ CreateNodes(line)
  /\ customers' = Add(customers, AS1(line), AS2(line))
  /\ providers' = Add(providers, AS2(line), AS1(line))
  /\ UNCHANGED <<peers, rank>>

\* Both are peers; an AS that is its own peer is so twice.
AddPeerLink(line) ==
  /\ ParseLine(line) /\ line[3] = 0
  /\ CreateNodes(line)
  /\ peers' = Add(Add(peers, AS1(line), AS2(line)), AS2(line), AS1(line))
  /\ UNCHANGED <<providers, customers, rank>>

\* Other relationships leave two nodes behind.
IgnoreLink(line) ==
  /\ ParseLine(line) /\ line[3] \notin {-1, 0}
  /\ CreateNodes(line)
  /\ UNCHANGED <<providers, customers, peers, rank>>

ReadLine(line) ==
  \/ SkipLine(line)
  \/ AddCustomerLink(line)
  \/ AddPeerLink(line)
  \/ IgnoreLink(line)
-----------------------------------------------------------------------------
CustomersOf(n) == {m \in ASN : customers[n][m] > 0}

ProvidersOf(n) == {m \in ASN : providers[n][m] > 0}

PeersOf(n) == {m \in ASN : peers[n][m] > 0}

\* hasProviderCustomerCycles, which CycleSearch has in detail and
\* PreparationProofs proves right.
HasCycle ==
  \E S \in (SUBSET nodes) \ {{}} : \A n \in S : CustomersOf(n) \cap S # {}

\* A walk of k links from an AS down to its customers.
HasDescent(n, k) ==
  \E walk \in [0..k -> nodes] :
    walk[0] = n /\ \A j \in 1..k : walk[j] \in CustomersOf(walk[j - 1])

\* What flattenGraph leaves behind on an acyclic graph (PreparationProofs:
\* RanksRise, RanksTight): the length of the longest descent.
FlattenGraph ==
  /\ rank' = [n \in ASN |->
       IF n \notin nodes THEN -1
       ELSE Max({k \in 0..(Cardinality(nodes) - 1) : HasDescent(n, k)})]
  /\ UNCHANGED <<nodes, providers, customers, peers>>

Ranked == \E n \in nodes : rank[n] >= 0
-----------------------------------------------------------------------------
\* Whatever the lines are and in whatever order they come, two ASes agree on
\* how often they are linked and as what (as_graph.cpp:281-292).
LinksAgree ==
  \A n, m \in ASN :
    /\ providers[n][m] = customers[m][n]
    /\ n # m => peers[n][m] = peers[m][n]
=============================================================================
