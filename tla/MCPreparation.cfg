CONSTANTS
  Node = {n1, n2, n3}
  Link = {l1, l2, l3, l4}
  Graphs <- MCGraphs
  Stale <- MCStale
SPECIFICATION FairPrepareSpec
INVARIANTS
  TypeOK
  FindsCycles
  ProvidersAboveCustomers
  RanksAreTight
  VerdictIsRight
PROPERTIES
  RankFinalOnceQueued
  Terminates
CHECK_DEADLOCK FALSE
