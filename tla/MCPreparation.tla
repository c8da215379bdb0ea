----------------------------- MODULE MCPreparation -----------------------------
(***************************************************************************)
(* Preparation on every multigraph of a few ASes and links, self links,    *)
(* doubled links and cycles included.                                      *)
(***************************************************************************)
EXTENDS Preparation

MCGraphs == [Link -> [customer : Node, provider : Node]]

\* The constructor's rank, and one higher than any the links can give.
MCStale == {-1, 5}
=============================================================================
