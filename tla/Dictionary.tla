------------------------------ MODULE Dictionary ------------------------------
(***************************************************************************)
(* What the users of a map with integer keys expect of it: a key has the   *)
(* value it was given last, until all is cleared.                          *)
(***************************************************************************)
EXTENDS TLC

CONSTANTS Keys, Values

VARIABLE dictionary  \* a partial function from Keys to Values

DictionaryInit == dictionary = <<>>

Assign(key, value) == dictionary' = (key :> value) @@ dictionary

Forget == dictionary' = <<>>

DictionaryNext == Forget \/ \E key \in Keys, value \in Values : Assign(key, value)

DictionarySpec == DictionaryInit /\ [][DictionaryNext]_dictionary
=============================================================================
