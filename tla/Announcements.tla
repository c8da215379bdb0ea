---------------------------- MODULE Announcements ----------------------------
(***************************************************************************)
(* Route announcements (announcement.h, announcement.cpp) and the two      *)
(* orders by which the BGP policy compares them: the packed 64-bit score   *)
(* and the step-by-step comparison of selectBestRoute.                     *)
(*                                                                         *)
(* An announcement is a record of the fields of class Announcement.  The   *)
(* prefix is left out: every table of the program is keyed by it, and two  *)
(* prefixes never meet in one decision.                                    *)
(***************************************************************************)
EXTENDS Integers, Sequences

CONSTANTS ASN,         \* the AS numbers, ordered as the integers they are
          MaxPathLen,  \* MAX_PATH_LEN, 16 in the code
          NextHopBase, \* one more than the largest next_hop field: 2^32
          LengthBase,  \* one more than the largest path_len field: 2^16
          NoRoute      \* std::nullopt where a route could be

ASSUME ASNAssumption == ASN \subseteq Nat

ASSUME MaxPathLenAssumption == MaxPathLen \in Nat \ {0}

\* Both fields fit the bits the score gives them (announcement.cpp:248).
ASSUME FieldAssumption ==
  /\ NextHopBase \in Nat /\ \A asn \in ASN : asn < NextHopBase
  /\ LengthBase \in Nat /\ MaxPathLen < LengthBase
-----------------------------------------------------------------------------
Relationship == {"ORIGIN", "FROM_CUSTOMER", "FROM_PEER", "FROM_PROVIDER"}

\* path_ with path_len_: the nearest AS first, the origin last, never empty.
Path == {path \in Seq(ASN) : Len(path) \in 1..MaxPathLen}

Announcement == [path          : Path,
                 next_hop      : ASN,
                 received_from : Relationship,
                 rov_invalid   : BOOLEAN]

ASSUME NoRouteAssumption == NoRoute \notin Announcement

ContainsASN(ann, asn) == \E i \in 1..Len(ann.path) : ann.path[i] = asn

GetOriginASN(ann) == ann.path[Len(ann.path)]

\* The constructor, for a prefix left out.
MakeAnnouncement(path, nextHop, rel, invalid) ==
  [path |-> path, next_hop |-> nextHop, received_from |-> rel, rov_invalid |-> invalid]

\* Faulty variant: the length is not capped.
PrependUnbounded(ann, asn, nextHop, rel) ==
  MakeAnnouncement(<<asn>> \o ann.path, nextHop, rel, ann.rov_invalid)

(***************************************************************************)
(* The array has room for MaxPathLen ASes.  When it is full the oldest AS, *)
(* the origin, is shifted out and the length stays where it is.            *)
(***************************************************************************)
PrependASN(ann, asn, nextHop, rel) ==
  LET kept == IF Len(ann.path) < MaxPathLen THEN Len(ann.path) ELSE MaxPathLen - 1
  IN  MakeAnnouncement(<<asn>> \o SubSeq(ann.path, 1, kept), nextHop, rel, ann.rov_invalid)
-----------------------------------------------------------------------------
\* rel_val of updateComparisonScore.
RelationshipValue ==
  [ORIGIN |-> 0, FROM_CUSTOMER |-> 1, FROM_PEER |-> 2, FROM_PROVIDER |-> 3]

\* The values of enum class RelationshipType, which selectBestRoute compares.
EnumValue ==
  [FROM_CUSTOMER |-> 0, FROM_PEER |-> 1, FROM_PROVIDER |-> 2, ORIGIN |-> 3]

\* Faulty variant: the length field is packed above the relationship.
ScoreLengthFirst(ann) ==
  (Len(ann.path) * LengthBase + RelationshipValue[ann.received_from]) * NextHopBase
    + ann.next_hop

\* comparison_score_: the relationship, the length and the next hop in one integer.
Score(ann) ==
  (RelationshipValue[ann.received_from] * LengthBase + Len(ann.path)) * NextHopBase
    + ann.next_hop

\* isBetterAnnouncement
Better(candidate, current) == Score(candidate) < Score(current)

\* Steps 2 and 3 of selectBestRoute, for two routes of the same relationship.
ShorterOrLowerNextHop(candidate, best) ==
  \/ Len(candidate.path) < Len(best.path)
  \/ /\ Len(candidate.path) = Len(best.path)
     /\ candidate.next_hop < best.next_hop

\* Faulty variant: relationships are compared by their enum values alone, so
\* that ORIGIN, declared last, loses against every learned route.
OutranksByEnum(candidate, best) ==
  \/ EnumValue[candidate.received_from] < EnumValue[best.received_from]
  \/ /\ candidate.received_from = best.received_from
     /\ ShorterOrLowerNextHop(candidate, best)

\* The comparison in the body of selectBestRoute's loop: candidate replaces best.
Outranks(candidate, best) ==
  LET cand_rel == candidate.received_from
      best_rel == best.received_from
  IN  \/ cand_rel = "ORIGIN" /\ best_rel # "ORIGIN"
      \/ /\ cand_rel # "ORIGIN" /\ best_rel # "ORIGIN"
         /\ EnumValue[cand_rel] < EnumValue[best_rel]
      \/ /\ cand_rel = best_rel
         /\ ShorterOrLowerNextHop(candidate, best)
=============================================================================
