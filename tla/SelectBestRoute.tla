--------------------------- MODULE SelectBestRoute ---------------------------
(***************************************************************************)
(* The scan of BGP::selectBestRoute (bgp.cpp), one iteration per step.     *)
(***************************************************************************)
EXTENDS RouteTable

CONSTANT Queues  \* the received queues the scan may be called on

\* The empty queue returns std::nullopt before the scan (bgp.cpp:323).
ASSUME QueuesAssumption == Queues \subseteq Seq(Announcement) \ {<<>>}

VARIABLES announcements,  \* received_queue_[prefix_id]
          i,              \* the loop index, 1-based
          best,           \* the position best points to
          result          \* what is returned, NoRoute until then

scanVars == <<announcements, i, best, result>>

ScanTypeOK ==
  /\ announcements \in Queues
  /\ i \in 2..(Len(announcements) + 1)
  /\ best \in DOMAIN announcements
  /\ result \in Announcement \cup {NoRoute}

ScanInit ==
  /\ announcements \in Queues
  /\ i = 2
  /\ best = 1
  /\ result = NoRoute

\* One iteration: the candidate becomes the best or the best is kept.
Examine ==
  /\ i <= Len(announcements)
  /\ best' = IF Outranks(announcements[i], announcements[best]) THEN i ELSE best
  /\ i' = i + 1
  /\ UNCHANGED <<announcements, result>>

\* Faulty variant: the loop ends one candidate early.
ReturnEarly ==
  /\ i >= Len(announcements)
  /\ result = NoRoute
  /\ result' = announcements[best]
  /\ UNCHANGED <<announcements, i, best>>

Return ==
  /\ i > Len(announcements)
  /\ result = NoRoute
  /\ result' = announcements[best]
  /\ UNCHANGED <<announcements, i, best>>

ScanNext == Examine \/ Return

ScanSpec == ScanInit /\ [][ScanNext]_scanVars
-----------------------------------------------------------------------------
\* The part of the queue already examined: best points to the first of its
\* most preferred routes.
BestOfExamined ==
  /\ \A j \in 1..(i - 1) : ~Outranks(announcements[j], announcements[best])
  /\ \A j \in 1..(best - 1) : Outranks(announcements[best], announcements[j])

\* The route returned is the one operator SelectBestRoute names: nothing in
\* the queue outranks it, and of several equally good ones it is the first
\* (bgp.cpp:376-446, step 4 "keep first seen").
ReturnsSelection ==
  result # NoRoute => result = SelectBestRoute(announcements)

\* The hand-written comparison of the scan and the packed score of
\* isBetterAnnouncement agree: no candidate has a lower score than the route
\* returned, so reselection can never undo a promotion.
ReturnsLowestScore ==
  result # NoRoute =>
    \A j \in DOMAIN announcements : ~Better(announcements[j], result)
=============================================================================
