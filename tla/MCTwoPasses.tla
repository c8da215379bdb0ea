------------------------------ MODULE MCTwoPasses ------------------------------
(***************************************************************************)
(* LockStep on every graph of three ASes with one origin.                  *)
(***************************************************************************)
EXTENDS LockStep, SmallGraphs

MCGraphs == AllGraphs(ASN, {})

MCSeeds == {SeedsFrom({1}, {})}
=============================================================================
