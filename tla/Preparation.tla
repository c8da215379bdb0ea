------------------------------ MODULE Preparation ------------------------------
(***************************************************************************)
(* The two looks at a graph before anything is propagated: the search for  *)
(* cycles at the end of buildFromCAIDAFile, then flattenGraph.  main gives *)
(* up when the first finds a cycle; here the second runs in any case, as   *)
(* for a caller that does not look at the result.                          *)
(***************************************************************************)
EXTENDS Flatten

VARIABLES visited, stack, verdict  \* of the search, see CycleSearch

Search == INSTANCE CycleSearch

searchVars == <<visited, stack, verdict>>

PrepareInit == Init /\ Search!Init

\* hasProviderCustomerCycles, up to its result.
SearchStep ==
  /\ Search!Next
  /\ UNCHANGED <<pc, rank, uncounted, remaining, queue, todo, processed, popped>>

\* flattenGraph is called once that has returned.
FlattenStep ==
  /\ verdict # "searching"
  /\ Next
  /\ UNCHANGED searchVars

PrepareNext == SearchStep \/ FlattenStep

prepareVars == <<vars, searchVars>>

PrepareSpec == PrepareInit /\ [][PrepareNext]_prepareVars

\* One thread runs both.
FairPrepareSpec == PrepareSpec /\ WF_prepareVars(PrepareNext)
-----------------------------------------------------------------------------
\* The depth-first search answers right on every graph (as_graph.cpp:368).
VerdictIsRight == Search!VerdictIsRight

\* The two checks, written apart, agree: flattenGraph warns that it could not
\* rank every AS (as_graph.cpp:522) if and only if the search found a cycle.
ChecksAgree ==
  pc = "done" => (processed # Cardinality(Node) <=> verdict = "cyclic")
=============================================================================
