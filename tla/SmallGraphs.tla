----------------------------- MODULE SmallGraphs -----------------------------
(***************************************************************************)
(* The AS graphs and seeds the model checker is given.                     *)
(***************************************************************************)
EXTENDS ASGraph, FiniteSetsExt

Pairs == {pair \in ASN \X ASN : pair[1] < pair[2]}

\* How high an AS is above the customer-less ones, going down at most so far.
RECURSIVE Height(_, _, _)
Height(providers, n, depth) ==
  LET below == {m \in ASN : n \in providers[m]}
  IN  IF depth = 0 \/ below = {} THEN 0
      ELSE 1 + Max({Height(providers, m, depth - 1) : m \in below})

\* The graph with its ranks; none if the providers form a cycle.
GraphsWith(providers, peers, rov) ==
  LET N    == Cardinality(ASN)
      rank == [n \in ASN |-> Height(providers, n, N)]
  IN  IF \E n \in ASN : rank[n] = N THEN {}
      ELSE {[providers |-> providers, peers |-> peers, rank |-> rank, rov |-> rov]}

\* shape[<<a, b>>] is the set of relationships between a and b: "up" if b is
\* a provider of a, "down" if a is one of b, "peer" if they are peers.
Shaped(shape, rov) ==
  GraphsWith([n \in ASN |-> {m \in ASN : \/ n < m /\ "up" \in shape[<<n, m>>]
                                         \/ m < n /\ "down" \in shape[<<m, n>>]}],
             [n \in ASN |-> {m \in ASN : \/ n < m /\ "peer" \in shape[<<n, m>>]
                                         \/ m < n /\ "peer" \in shape[<<m, n>>]}],
             rov)

\* Every pair of ASes is related in one way, or not at all.
SimpleGraphs(rov) ==
  UNION {Shaped(shape, rov) : shape \in [Pairs -> {{}, {"up"}, {"down"}, {"peer"}}]}

\* The file may list a pair twice, as peers and as provider and customer.
\* ASes that are not among these are related to nobody.
AllGraphs(ases, rov) ==
  LET Related(pair) ==
        IF pair[1] \in ases /\ pair[2] \in ases
        THEN {{}, {"up"}, {"down"}, {"peer"}, {"up", "peer"}, {"down", "peer"}}
        ELSE {{}}
      Shapes == {shape \in [Pairs -> UNION {Related(pair) : pair \in Pairs}] :
                   \A pair \in Pairs : shape[pair] \in Related(pair)}
  IN  UNION {Shaped(shape, rov) : shape \in Shapes}

\* The ASes of valid and of invalid origin.
SeedsFrom(valid, invalid) ==
  [n \in ASN |-> IF n \in valid THEN "valid" ELSE IF n \in invalid THEN "invalid" ELSE "none"]
=============================================================================
