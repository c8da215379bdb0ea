------------------------------ MODULE MCLockStep ------------------------------
(***************************************************************************)
(* LockStep on four ASes.                                                  *)
(***************************************************************************)
EXTENDS LockStep, SmallGraphs

\* Every graph in which a pair is related in one way, where no AS filters or
\* AS 4 does; every graph in which the first three may be related in two.
MCGraphs ==
  UNION {SimpleGraphs(rov) : rov \in {{}, {4}}} \cup AllGraphs({1, 2, 3}, {})

\* One origin; or a second one that hijacks the prefix.
MCSeeds == {SeedsFrom({1}, {}), SeedsFrom({1}, {2})}
=============================================================================
