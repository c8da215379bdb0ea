------------------------------- MODULE PrefixMap -------------------------------
(***************************************************************************)
(* The global mapping between prefixes and the integer ids by which every  *)
(* table of the program is keyed (prefix_map.cpp).  Ids are uint16_t.      *)
(* They are given out while announcements are parsed, by one thread.       *)
(***************************************************************************)
EXTENDS Integers, Sequences, FiniteSets

CONSTANTS Prefix,  \* the prefixes of the input, as strings
          IdSpace  \* how many ids uint16_t has, 2^16

ASSUME IdSpaceAssumption == IdSpace \in Nat \ {0}

ASSUME PrefixAssumption == IsFiniteSet(Prefix)

VARIABLES id_to_string,  \* the prefixes, the one with id k at position k + 1
          string_to_id   \* prefix -> id, a partial function

mapVars == <<id_to_string, string_to_id>>

Id == 0..(IdSpace - 1)

MapTypeOK ==
  /\ id_to_string \in Seq(Prefix)
  /\ DOMAIN string_to_id \subseteq Prefix
  /\ \A p \in DOMAIN string_to_id : string_to_id[p] \in Id

MapInit ==
  /\ id_to_string = <<>>
  /\ string_to_id = <<>>

With(map, prefix, id) ==
  [p \in DOMAIN map \cup {prefix} |-> IF p = prefix THEN id ELSE map[p]]

\* Faulty variant: every call makes a new id.
GetNewPrefixId(prefix) ==
  /\ id_to_string' = Append(id_to_string, prefix)
  /\ string_to_id' = With(string_to_id, prefix, Len(id_to_string) % IdSpace)

\* getPrefixId: a known prefix keeps its id and changes nothing; a new one gets
\* the size of the vector, cast to 16 bits.
GetPrefixId(prefix) ==
  /\ prefix \notin DOMAIN string_to_id
  /\ id_to_string' = Append(id_to_string, prefix)
  /\ string_to_id' = With(string_to_id, prefix, Len(id_to_string) % IdSpace)

\* Faulty variant: the ids stay.
ResetStringsOnly ==
  /\ id_to_string' = <<>>
  /\ UNCHANGED string_to_id

Reset ==
  /\ id_to_string' = <<>>
  /\ string_to_id' = <<>>

MapNext == Reset \/ \E prefix \in Prefix : GetPrefixId(prefix)

MapSpec == MapInit /\ [][MapNext]_mapVars
-----------------------------------------------------------------------------
\* getPrefixString of the id of a prefix neither throws nor gives another one:
\* the routes of two prefixes are never mixed, the output names the right one.
RoundTrips ==
  \A p \in DOMAIN string_to_id :
    /\ string_to_id[p] < Len(id_to_string)
    /\ id_to_string[string_to_id[p] + 1] = p

\* An id in use keeps its meaning until the mapping is reset: routes that were
\* stored under it are found again.
IdsKeepMeaning ==
  [][id_to_string' # <<>> =>
       \A p \in DOMAIN string_to_id :
         p \in DOMAIN string_to_id' /\ string_to_id'[p] = string_to_id[p]]_mapVars

\* prefix_map.h:30, "Unique integer ID (0-65535)", said of any prefixes.
IdsAreUnique ==
  \A p, q \in DOMAIN string_to_id : string_to_id[p] = string_to_id[q] => p = q
=============================================================================
