----------------------------- MODULE MCComponents -----------------------------
(***************************************************************************)
(* Components on small instances: queues of MCSelectBestRoute, outputs of  *)
(* MCOutputBuffer, and lists for the vectors, of which one fits inside.    *)
(***************************************************************************)
EXTENDS Components, MCSelectBestRoute, MCOutputBuffer

\* Nothing tells one vector from the other, and no property of this run is about
\* liveness.
MCSymmetry == Permutations(Vectors)

MCLists == {<<>>, <<1, 2>>}
=============================================================================
