------------------------------ MODULE Preference ------------------------------
(***************************************************************************)
(* What the abstract specifications know of routes: which of two is        *)
(* preferred, and that a neighbour's last announcement counts.             *)
(***************************************************************************)
EXTENDS Announcements

\* Most preferred first: own prefixes, then the routes that earn money.
Precedence == <<"ORIGIN", "FROM_CUSTOMER", "FROM_PEER", "FROM_PROVIDER">>

Place(rel) == CHOOSE k \in DOMAIN Precedence : Precedence[k] = rel

PreferredTo(a, b) ==
  \/ Place(a.received_from) < Place(b.received_from)
  \/ /\ a.received_from = b.received_from
     /\ \/ Len(a.path) < Len(b.path)
        \/ Len(a.path) = Len(b.path) /\ a.next_hop < b.next_hop

MostPreferred(routes) ==
  IF routes = {} THEN NoRoute
  ELSE CHOOSE a \in routes : \A b \in routes : ~PreferredTo(b, a)

Remember(table, ann) ==
  [n \in DOMAIN table \cup {ann.next_hop} |-> IF n = ann.next_hop THEN ann ELSE table[n]]
=============================================================================
