------------------------------- MODULE AdjRibIn -------------------------------
(***************************************************************************)
(* What a BGP speaker promises, with no word on how it is done: the last   *)
(* announcement of every neighbour is remembered, and the route used for a *)
(* prefix is the most preferred of those.  BGPPolicy implements this.      *)
(***************************************************************************)
EXTENDS Preference

CONSTANTS Prefix,    \* the prefixes
          Incoming   \* the announcements the speaker accepts

VARIABLES adj_rib_in,  \* prefix -> next hop -> last announcement, a partial function
          loc_rib      \* prefix -> route in use, or NoRoute

vars == <<adj_rib_in, loc_rib>>

Init ==
  /\ adj_rib_in = [p \in Prefix |-> <<>>]
  /\ loc_rib = [p \in Prefix |-> NoRoute]

Announce(p, ann) ==
  LET table == Remember(adj_rib_in[p], ann)
  IN  /\ adj_rib_in' = [adj_rib_in EXCEPT ![p] = table]
      /\ loc_rib' = [loc_rib EXCEPT ![p] = MostPreferred({table[n] : n \in DOMAIN table})]

Forget ==
  /\ adj_rib_in' = [p \in Prefix |-> <<>>]
  /\ loc_rib' = [p \in Prefix |-> NoRoute]

Next == Forget \/ \E p \in Prefix, ann \in Incoming : Announce(p, ann)

Spec == Init /\ [][Next]_vars
=============================================================================
