----------------------------- MODULE FlatHashMap -----------------------------
(***************************************************************************)
(* The open-addressing map of flat_hash_map.h: Robin Hood hashing with     *)
(* linear probing.  One call a step; the first slot is 1.                  *)
(***************************************************************************)
EXTENDS Integers, SequencesExt

CONSTANTS Keys,            \* the keys used, all below the reserved one
          Values,          \* V
          Default,         \* Entry::value of a new array
          EMPTY_KEY,       \* the reserved key, 65535
          INITIAL_CAPACITY, \* a power of two, 2048
          Multiplier,      \* 0x9E3779B9, of which the low bits matter
          DistanceSpace    \* how many values uint8_t distance has, 256

ASSUME KeysAssumption == Keys \subseteq 0..(EMPTY_KEY - 1)

VARIABLES entries,  \* entries_, of capacity_ slots
          size_

hashVars == <<entries, size_>>

Entry == [key : Keys \cup {EMPTY_KEY}, distance : 0..(DistanceSpace - 1),
          value : Values \cup {Default}]

NewEntries(capacity) ==
  [slot \in 1..capacity |-> [key |-> EMPTY_KEY, distance |-> 0, value |-> Default]]

HashInit == entries = NewEntries(INITIAL_CAPACITY) /\ size_ = 0

Hash(es, key) == (key * Multiplier) % Len(es)

\* The slot dist places on, and whether a search stops there: it is empty, has the
\* key, or has a key that is nearer to home than this one would be.
Slot(es, key, dist) == ((Hash(es, key) + dist) % Len(es)) + 1

Stops(es, key, dist) ==
  LET e == es[Slot(es, key, dist)]
  IN  e.key \in {EMPTY_KEY, key} \/ e.distance < dist % DistanceSpace

StopDistance(es, key) ==
  CHOOSE d \in 0..(Len(es) - 1) :
    Stops(es, key, d) /\ \A nearer \in 0..(d - 1) : ~Stops(es, key, nearer)

StopSlot(es, key) == Slot(es, key, StopDistance(es, key))

\* find and contains: is the key where a search for it ends?
HasKey(es, key) == es[StopSlot(es, key)].key = key

\* The inner loop of operator[]: a displaced entry looks for a place from slot on
\* and displaces others that are nearer to home.
RECURSIVE Settle(_, _, _)
Settle(es, slot, carried) ==
  LET e == es[slot]
      poorer == e.distance < carried.distance
  IN  IF e.key = EMPTY_KEY THEN [es EXCEPT ![slot] = carried]
      ELSE Settle([es EXCEPT ![slot] = IF poorer THEN carried ELSE e],
                  (slot % Len(es)) + 1,
                  [(IF poorer THEN e ELSE carried)
                     EXCEPT !.distance = (@ + 1) % DistanceSpace])

\* operator[] without its growth: the slot of the key, made if need be.  A new
\* key finds the value of a cleared or displaced entry in its slot.
Inserted(es, key) ==
  LET slot == StopSlot(es, key)
      old == es[slot]
      placed == [es EXCEPT ![slot].key = key,
                           ![slot].distance = StopDistance(es, key) % DistanceSpace]
  IN  IF old.key = key THEN es
      ELSE IF old.key = EMPTY_KEY THEN placed
      ELSE Settle(placed, (slot % Len(es)) + 1,
                  [old EXCEPT !.distance = (@ + 1) % DistanceSpace])

Put(es, key, value) ==
  LET found == Inserted(es, key) IN [found EXCEPT ![StopSlot(found, key)].value = value]

\* Faulty variant: the entries stay where they are.
GrownInPlace(es) == es \o NewEntries(Len(es))

\* grow: all entries are inserted again into an array of twice the size.
Grown(es) ==
  FoldLeft(LAMBDA bigger, e : IF e.key = EMPTY_KEY THEN bigger ELSE Put(bigger, e.key, e.value),
           NewEntries(2 * Len(es)), es)

Occupied(es) == {slot \in DOMAIN es : es[slot].key # EMPTY_KEY}

\* A load of 75 %, looked at before the key is known to be new
Full == size_ * 4 >= Len(entries) * 3

\* What operator[] begins with: the entries, and how many were inserted
Roomy == IF Full THEN Grown(entries) ELSE entries

RoomySize == IF Full THEN Cardinality(Occupied(entries)) ELSE size_

\* operator[], its result being assigned to
PutEntry(key, value) ==
  \E es \in {Roomy} :
    /\ entries' = Put(es, key, value)
    /\ size_' = IF HasKey(es, key) THEN RoomySize ELSE RoomySize + 1

\* operator[], its result being left alone
Touch(key) ==
  \E es \in {Roomy} :
    /\ entries' = Inserted(es, key)
    /\ size_' = IF HasKey(es, key) THEN RoomySize ELSE RoomySize + 1

\* clear: distances and values stay.
ClearEntries ==
  /\ entries' = [slot \in DOMAIN entries |-> [entries[slot] EXCEPT !.key = EMPTY_KEY]]
  /\ size_' = 0

HashNext ==
  \/ ClearEntries
  \/ \E key \in Keys :
       \/ Touch(key)
       \/ \E value \in Values : PutEntry(key, value)

HashSpec == HashInit /\ [][HashNext]_hashVars
-----------------------------------------------------------------------------
\* What find answers, for all keys.
Found ==
  LET stop == [key \in Keys |-> StopSlot(entries, key)]
  IN  [key \in {k \in Keys : entries[stop[k]].key = k} |-> entries[stop[key]].value]

\* Displacing, growing and clearing never lose a key or give it another's value.
IsDictionary ==
  INSTANCE Dictionary WITH dictionary <- Found, Values <- Values \cup {Default}

ImplementsDictionary == IsDictionary!DictionarySpec
=============================================================================
