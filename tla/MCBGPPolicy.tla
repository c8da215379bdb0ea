----------------------------- MODULE MCBGPPolicy -----------------------------
(***************************************************************************)
(* BGPPolicy on small instances.  A route is told apart by its             *)
(* relationship, its length and its next hop, which the decision reads.    *)
(***************************************************************************)
EXTENDS BGPPolicy

Route(path, nextHop, rel, invalid) ==
  [path |-> path, next_hop |-> nextHop, received_from |-> rel, rov_invalid |-> invalid]

\* Every relationship from every neighbour, by a path of one or two ASes; and
\* invalid routes, better and worse than those.
MCWire ==
  {Route(path, nextHop, rel, FALSE) :
     path \in {<<1>>, <<1, 2>>}, nextHop \in ASN, rel \in Relationship}
    \cup {Route(<<1>>, nextHop, rel, TRUE) : nextHop \in ASN, rel \in {"ORIGIN", "FROM_PEER"}}

\* A customer's route with an AS put in front: it may be worse or better than
\* what the neighbour announced before, and has the same length if it was cut.
MCInline ==
  {[ann |-> ann, asn |-> 2, next_hop |-> 1, rel |-> "FROM_CUSTOMER"] :
     ann \in {wire \in MCWire : ~wire.rov_invalid}}
=============================================================================
