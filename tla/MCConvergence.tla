----------------------------- MODULE MCConvergence -----------------------------
(***************************************************************************)
(* Convergence on three ASes, flattened (where a pair may be related       *)
(* twice) and not; AS 2 filters.                                           *)
(***************************************************************************)
EXTENDS Convergence, SmallGraphs

Unflattened(g) == [g EXCEPT !.rank = [n \in ASN |-> -1]]

MCGraphs == AllGraphs(ASN, {2}) \cup {Unflattened(g) : g \in SimpleGraphs({2})}

\* One origin; a second one that hijacks the prefix; everybody.
MCSeeds == {SeedsFrom({1}, {}), SeedsFrom({1}, {3}), SeedsFrom(ASN, {})}

\* The disagreements with the documents need neither.
MCPlainGraphs == SimpleGraphs({})

MCOneOrigin == {SeedsFrom({1}, {})}
=============================================================================
