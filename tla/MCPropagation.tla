----------------------------- MODULE MCPropagation -----------------------------
(***************************************************************************)
(* Propagation on every graph of three ASes, pairs related twice included, *)
(* one of which filters.                                                   *)
(***************************************************************************)
EXTENDS Propagation, SmallGraphs

MCAllGraphs == AllGraphs(ASN, {2})

\* One origin; one valid and two hijackers, one of which drops its own route;
\* everybody at once.
MCSeeds == {SeedsFrom({1}, {}), SeedsFrom({1}, {2, 3}), SeedsFrom({1, 2, 3}, {})}
=============================================================================
