-------------------------- MODULE MCSelectBestRoute --------------------------
(***************************************************************************)
(* SelectBestRoute on every queue of one to three routes.  A route is told *)
(* apart by its relationship, one of two path lengths and one of two next  *)
(* hops, which is all the comparison reads; complete ties occur.           *)
(***************************************************************************)
EXTENDS SelectBestRoute

MCRoutes ==
  {[path |-> path, next_hop |-> nextHop, received_from |-> rel, rov_invalid |-> FALSE] :
     path \in {<<1>>, <<1, 2>>}, nextHop \in ASN, rel \in Relationship}

MCQueues == UNION {[1..n -> MCRoutes] : n \in 1..3}
=============================================================================
