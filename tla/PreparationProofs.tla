--------------------------- MODULE PreparationProofs ---------------------------
(***************************************************************************)
(* flattenGraph is correct on every finite multigraph and for every order  *)
(* in which it meets ASes and links.  So is the search for cycles, and it  *)
(* agrees with flattenGraph's own check.                                   *)
(***************************************************************************)
EXTENDS Preparation, SequenceTheorems, FiniteSetTheorems, TLAPS

\* The links already visited: their customer was popped, their turn has come.
Closed(l) == graph[l].customer \in popped /\ l \notin todo

OpenLinks(n) == {l \in LinksOf(n) : ~Closed(l)}

Elements(s) == {s[k] : k \in DOMAIN s}

Distinct(s) == \A j, k \in DOMAIN s : s[j] = s[k] => j = k

\* What the phases before the traversal leave untouched.
PhaseInv ==
  /\ pc = "reset" => uncounted = Node
  /\ pc \in {"reset", "count"} => /\ todo = {} /\ popped = {} /\ processed = 0
  /\ pc = "reset" => queue = <<>>
  /\ pc \in {"visit", "done"} => uncounted = {}
  /\ pc = "done" => todo = {} /\ queue = <<>>

\* remaining_customers counts the open links; an AS is or was in the queue
\* exactly if it was counted and has none.
QueueInv ==
  /\ \A n \in Node \ uncounted : remaining[n] = Cardinality(OpenLinks(n))
  /\ \A n \in Node : n \in Queued \cup popped <=> n \notin uncounted /\ OpenLinks(n) = {}
  /\ Queued \cap popped = {}
  /\ Distinct(queue)
  /\ \A l \in todo : graph[l].customer \in popped
  /\ processed = Cardinality(popped)

\* Ranks: settled between the ends of a closed link, -1 where no link into the
\* AS is closed, and never higher than a closed link makes them.
RankInv ==
  pc # "reset" =>
    /\ \A l \in Link : Closed(l) => rank[graph[l].provider] > rank[graph[l].customer]
    /\ \A n \in Queued \cup popped : rank[n] >= 0
    /\ \A n \in Node :
         \/ n \in Queued \cup popped /\ LinksOf(n) = {} /\ rank[n] = 0
         \/ (\A l \in LinksOf(n) : ~Closed(l)) /\ rank[n] = -1
         \/ \E l \in LinksOf(n) : Closed(l) /\ rank[n] = rank[graph[l].customer] + 1

FlattenInv == TypeOK /\ PhaseInv /\ QueueInv /\ RankInv

\* No AS of a cycle ever gets into the queue.
CycleInv == \A S \in SUBSET Node : Cyclic(S) => S \cap (Queued \cup popped) = {}
-----------------------------------------------------------------------------
LEMMA AppendElements ==
  ASSUME NEW S, NEW s \in Seq(S), NEW x \in S
  PROVE  /\ Append(s, x) \in Seq(S)
         /\ Elements(Append(s, x)) = Elements(s) \cup {x}
         /\ Distinct(s) /\ x \notin Elements(s) => Distinct(Append(s, x))
<1> DEFINE new == Append(s, x)
<1>1. /\ new \in Seq(S)
      /\ DOMAIN s = 1..Len(s) /\ Len(s) \in Nat
      /\ DOMAIN new = 1..(Len(s) + 1)
      /\ new[Len(s) + 1] = x
      /\ \A k \in 1..Len(s) : new[k] = s[k]
  OBVIOUS
<1> HIDE DEF new
<1>2. \A k \in DOMAIN new : \/ k \in DOMAIN s /\ new[k] = s[k]
                            \/ k = Len(s) + 1 /\ new[k] = x
  BY <1>1
<1>3. \A k \in DOMAIN s : k \in DOMAIN new /\ new[k] = s[k]
  BY <1>1
<1>4. Len(s) + 1 \in DOMAIN new
  BY <1>1
<1>5. Elements(new) = Elements(s) \cup {x}
  BY <1>1, <1>2, <1>3, <1>4 DEF Elements
<1>6. Distinct(s) /\ x \notin Elements(s) => Distinct(new)
  BY <1>2 DEF Elements, Distinct
<1>7. QED BY <1>1, <1>5, <1>6 DEF new

LEMMA TailElements ==
  ASSUME NEW S, NEW s \in Seq(S), s # <<>>, Distinct(s)
  PROVE  /\ Tail(s) \in Seq(S)
         /\ Head(s) \in S /\ Head(s) \in Elements(s)
         /\ Elements(Tail(s)) = Elements(s) \ {Head(s)}
         /\ Distinct(Tail(s))
<1> DEFINE new == Tail(s)
<1>1. /\ new \in Seq(S)
      /\ DOMAIN s = 1..Len(s) /\ Len(s) \in Nat \ {0}
      /\ DOMAIN new = 1..(Len(s) - 1)
      /\ Head(s) = s[1]
      /\ \A k \in 1..(Len(s) - 1) : new[k] = s[k + 1]
  OBVIOUS
<1> HIDE DEF new
<1>2. Head(s) \in S /\ Head(s) \in Elements(s)
  BY <1>1 DEF Elements
<1>3. \A k \in DOMAIN new : k + 1 \in DOMAIN s /\ k + 1 # 1 /\ new[k] = s[k + 1]
  BY <1>1
<1>4. \A k \in DOMAIN s : k # 1 => k - 1 \in DOMAIN new /\ new[k - 1] = s[k]
  BY <1>1
<1>5. 1 \in DOMAIN s
  BY <1>1
<1>6. Elements(new) = Elements(s) \ {Head(s)}
  <2>1. ASSUME NEW x \in Elements(new) PROVE x \in Elements(s) /\ x # Head(s)
    BY <1>1, <1>3, <1>5 DEF Elements, Distinct
  <2>2. ASSUME NEW x \in Elements(s), x # Head(s) PROVE x \in Elements(new)
    BY <1>1, <1>4, <2>2 DEF Elements
  <2>3. QED BY <2>1, <2>2
<1>7. Distinct(new)
  <2>1. SUFFICES ASSUME NEW j \in DOMAIN new, NEW k \in DOMAIN new, new[j] = new[k]
                 PROVE  j = k
    BY DEF Distinct
  <2>2. j + 1 = k + 1
    BY <1>3, <2>1 DEF Distinct
  <2>3. QED BY <1>1, <2>2
<1>8. QED BY <1>1, <1>2, <1>6, <1>7 DEF new

LEMMA LinkFacts ==
  ASSUME TypeOK
  PROVE  /\ \A l \in Link : graph[l].customer \in Node /\ graph[l].provider \in Node
         /\ \A n : IsFiniteSet(LinksOf(n)) /\ IsFiniteSet(OpenLinks(n))
         /\ IsFiniteSet(popped)
<1>1. graph \in [Link -> [customer : Node, provider : Node]]
  BY GraphsAssumption DEF TypeOK
<1>2. ASSUME NEW n PROVE IsFiniteSet(LinksOf(n)) /\ IsFiniteSet(OpenLinks(n))
  BY FiniteAssumption, FS_Subset DEF LinksOf, OpenLinks
<1>3. IsFiniteSet(popped)
  BY FiniteAssumption, FS_Subset DEF TypeOK
<1>4. QED BY <1>1, <1>2, <1>3

LEMMA InitFlattenInv == Init => FlattenInv
<1>1. SUFFICES ASSUME Init PROVE FlattenInv
  OBVIOUS
<1>2. TypeOK
  <2>1. rank \in [Node -> Int]
    BY <1>1, StaleAssumption DEF Init
  <2>2. remaining \in [Node -> Nat]
    BY <1>1 DEF Init
  <2>3. queue \in Seq(Node)
    BY <1>1, EmptySeq DEF Init
  <2>4. QED BY <1>1, <2>1, <2>2, <2>3 DEF Init, TypeOK
<1>3. Queued = {}
  <2>1. DOMAIN queue = {}
    BY <1>1 DEF Init
  <2>2. QED BY <2>1 DEF Queued
<1>4. QueueInv
  <2>1. Distinct(queue)
    BY <1>1 DEF Init, Distinct
  <2>2. QED BY <1>1, <1>3, <2>1, FS_EmptySet DEF Init, QueueInv
<1>5. QED BY <1>1, <1>2, <1>4 DEF Init, FlattenInv, PhaseInv, RankInv

LEMMA ResetStep == FlattenInv /\ Reset => FlattenInv'
<1>1. SUFFICES ASSUME FlattenInv, Reset PROVE FlattenInv'
  OBVIOUS
<1> USE <1>1
<1>2. TypeOK'
  BY DEF FlattenInv, TypeOK, Reset
<1>3. /\ UNCHANGED <<graph, uncounted, remaining, queue, todo, processed, popped>>
      /\ Queued' = Queued /\ Queued = {} /\ popped = {}
      /\ \A l : Closed(l)' <=> Closed(l)
      /\ \A l : ~Closed(l)
  BY DEF FlattenInv, PhaseInv, Reset, Queued, Closed
<1>4. \A n : OpenLinks(n)' = OpenLinks(n) /\ LinksOf(n)' = LinksOf(n)
  BY <1>3 DEF OpenLinks, LinksOf
<1>5. QueueInv'
  BY <1>3, <1>4 DEF FlattenInv, QueueInv, Distinct
<1>6. \A n \in Node : rank'[n] = -1
  BY DEF Reset
<1>7. RankInv'
  BY <1>3, <1>4, <1>6 DEF RankInv
<1>8. PhaseInv'
  BY DEF FlattenInv, PhaseInv, Reset
<1>9. QED BY <1>2, <1>5, <1>7, <1>8 DEF FlattenInv

LEMMA CountStep ==
  ASSUME FlattenInv, NEW n \in Node, CountCustomers(n)
  PROVE  FlattenInv' /\ \A m \in Queued \cup popped : rank'[m] = rank[m]
<1> DEFINE customers == Cardinality(LinksOf(n))
<1>1. /\ TypeOK /\ n \in uncounted
      /\ todo = {} /\ popped = {} /\ processed = 0
      /\ \A l : ~Closed(l) /\ ~Closed(l)'
      /\ UNCHANGED <<graph, pc, todo, processed, popped>>
      /\ uncounted' = uncounted \ {n} /\ uncounted \subseteq Node
      /\ pc = "count"
  BY DEF FlattenInv, TypeOK, PhaseInv, CountCustomers, Closed
<1>2. /\ customers \in Nat
      /\ customers = 0 <=> LinksOf(n) = {}
  BY <1>1, LinkFacts, FS_CardinalityType, FS_EmptySet
<1>3. \A m : OpenLinks(m) = LinksOf(m) /\ OpenLinks(m)' = LinksOf(m) /\ LinksOf(m)' = LinksOf(m)
  BY <1>1 DEF OpenLinks, LinksOf
<1>4. /\ remaining' \in [Node -> Nat]
      /\ remaining'[n] = customers
      /\ \A m \in Node \ {n} : remaining'[m] = remaining[m]
  BY <1>1, <1>2 DEF CountCustomers, TypeOK
<1>5. n \notin Queued /\ Distinct(queue) /\ Queued = Elements(queue) /\ Queued' = Elements(queue')
  BY <1>1 DEF FlattenInv, QueueInv, Queued, Elements
<1>6. \/ LinksOf(n) = {} /\ rank' = [rank EXCEPT ![n] = 0] /\ queue' = Append(queue, n)
      \/ LinksOf(n) # {} /\ rank' = rank /\ queue' = queue
  BY <1>2 DEF CountCustomers
<1>7. /\ queue' \in Seq(Node) /\ Distinct(queue')
      /\ Queued' = IF LinksOf(n) = {} THEN Queued \cup {n} ELSE Queued
  <2>1. CASE LinksOf(n) # {}
    BY <1>1, <1>5, <1>6, <2>1 DEF TypeOK
  <2>2. CASE LinksOf(n) = {}
    <3>1. queue \in Seq(Node) /\ n \notin Elements(queue) /\ queue' = Append(queue, n)
      BY <1>1, <1>5, <1>6, <2>2 DEF TypeOK
    <3>2. /\ queue' \in Seq(Node) /\ Distinct(queue')
          /\ Elements(queue') = Elements(queue) \cup {n}
      BY <1>5, <3>1, AppendElements
    <3>3. QED BY <1>5, <2>2, <3>2
  <2>3. QED BY <2>1, <2>2
<1>8. /\ rank' \in [Node -> Int]
      /\ \A m \in Node : rank'[m] = IF m = n /\ LinksOf(n) = {} THEN 0 ELSE rank[m]
  BY <1>1, <1>6 DEF TypeOK
<1>9. TypeOK'
  BY <1>1, <1>4, <1>7, <1>8 DEF TypeOK
<1>10. PhaseInv'
  BY <1>1 DEF FlattenInv, PhaseInv
<1> HIDE DEF customers
<1>11. QueueInv'
  <2>1. \A m \in Node \ uncounted' : remaining'[m] = Cardinality(OpenLinks(m)')
    BY <1>1, <1>3, <1>4 DEF FlattenInv, QueueInv, customers
  <2>2. \A m \in Node : m \in Queued' \cup popped' <=> m \notin uncounted' /\ OpenLinks(m)' = {}
    BY <1>1, <1>3, <1>7 DEF FlattenInv, QueueInv
  <2>3. QED BY <1>1, <1>3, <1>7, <2>1, <2>2 DEF FlattenInv, QueueInv
<1>12. RankInv'
  <2>1. \A m \in Queued' : rank'[m] >= 0
    <3>1. \A m \in Queued : rank[m] >= 0 /\ m \in Node /\ m # n
      BY <1>1, <1>5 DEF FlattenInv, RankInv, TypeOK, Queued
    <3>2. ASSUME NEW m \in Queued' PROVE rank'[m] >= 0
      <4>1. CASE m \in Queued
        BY <1>8, <3>1, <4>1
      <4>2. CASE m \notin Queued
        <5>1. m = n /\ LinksOf(n) = {}
          BY <1>7, <4>2
        <5>2. rank'[n] = 0
          BY <1>8, <5>1
        <5>3. QED BY <5>1, <5>2
      <4>3. QED BY <4>1, <4>2
    <3>3. QED BY <3>2
  <2>2. \A m \in Node : \/ m \in Queued' /\ LinksOf(m) = {} /\ rank'[m] = 0
                        \/ rank'[m] = -1
    BY <1>1, <1>7, <1>8 DEF FlattenInv, RankInv
  <2>3. QED BY <1>1, <1>3, <2>1, <2>2 DEF RankInv
<1>13. \A m \in Queued \cup popped : rank'[m] = rank[m]
  <2>1. Queued \subseteq Node
    BY <1>1 DEF TypeOK, Queued
  <2>2. QED BY <1>1, <1>5, <1>8, <2>1
<1>14. QED BY <1>9, <1>10, <1>11, <1>12, <1>13 DEF FlattenInv

LEMMA StartStep == FlattenInv /\ StartVisiting => FlattenInv'
<1>1. SUFFICES ASSUME FlattenInv, StartVisiting PROVE FlattenInv'
  OBVIOUS
<1> USE <1>1
<1>2. /\ UNCHANGED <<graph, rank, uncounted, remaining, queue, todo, processed, popped>>
      /\ pc = "count" /\ pc' = "visit" /\ uncounted = {}
  BY DEF StartVisiting
<1>3. /\ Queued' = Queued
      /\ \A l : Closed(l)' <=> Closed(l)
      /\ \A n : OpenLinks(n)' = OpenLinks(n) /\ LinksOf(n)' = LinksOf(n)
  BY <1>2 DEF Queued, Closed, OpenLinks, LinksOf
<1>4. TypeOK' /\ PhaseInv'
  BY <1>2 DEF FlattenInv, TypeOK, PhaseInv
<1>5. QueueInv'
  BY <1>2, <1>3 DEF FlattenInv, QueueInv, Distinct
<1>6. RankInv'
  BY <1>2, <1>3 DEF FlattenInv, RankInv
<1>7. QED BY <1>4, <1>5, <1>6 DEF FlattenInv

LEMMA FinishStep == FlattenInv /\ Finish => FlattenInv'
<1>1. SUFFICES ASSUME FlattenInv, Finish PROVE FlattenInv'
  OBVIOUS
<1> USE <1>1
<1>2. /\ UNCHANGED <<graph, rank, uncounted, remaining, queue, todo, processed, popped>>
      /\ pc = "visit" /\ pc' = "done" /\ todo = {} /\ queue = <<>>
  BY DEF Finish
<1>3. /\ Queued' = Queued
      /\ \A l : Closed(l)' <=> Closed(l)
      /\ \A n : OpenLinks(n)' = OpenLinks(n) /\ LinksOf(n)' = LinksOf(n)
  BY <1>2 DEF Queued, Closed, OpenLinks, LinksOf
<1>4. TypeOK' /\ PhaseInv'
  BY <1>2 DEF FlattenInv, TypeOK, PhaseInv
<1>5. QueueInv'
  BY <1>2, <1>3 DEF FlattenInv, QueueInv, Distinct
<1>6. RankInv'
  BY <1>2, <1>3 DEF FlattenInv, RankInv
<1>7. QED BY <1>4, <1>5, <1>6 DEF FlattenInv

LEMMA PopStep == FlattenInv /\ Pop => FlattenInv' /\ Queued' \cup popped' = Queued \cup popped
<1>1. SUFFICES ASSUME FlattenInv, Pop
               PROVE  FlattenInv' /\ Queued' \cup popped' = Queued \cup popped
  OBVIOUS
<1> USE <1>1
<1> DEFINE h == Head(queue)
<1>2. /\ UNCHANGED <<graph, pc, rank, uncounted, remaining>>
      /\ pc = "visit" /\ todo = {} /\ uncounted = {}
      /\ popped' = popped \cup {h}
      /\ todo' = {l \in Link : graph[l].customer = h}
      /\ processed' = processed + 1
      /\ queue' = Tail(queue) /\ queue # <<>> /\ queue \in Seq(Node)
      /\ popped \subseteq Node
      /\ Distinct(queue) /\ Queued \cap popped = {}
      /\ processed = Cardinality(popped)
  BY DEF Pop, FlattenInv, PhaseInv, TypeOK, QueueInv
<1>3. /\ queue' \in Seq(Node) /\ h \in Node /\ h \in Queued
      /\ Queued' = Queued \ {h} /\ Distinct(queue')
  <2>1. Queued = Elements(queue) /\ Queued' = Elements(queue')
    BY DEF Queued, Elements
  <2>2. QED BY <1>2, <2>1, TailElements
<1>4. /\ Queued' \cap popped' = {}
      /\ Queued' \cup popped' = Queued \cup popped
      /\ h \notin popped
  BY <1>2, <1>3
<1>5. /\ processed' = Cardinality(popped')
      /\ processed' \in Nat
  BY <1>2, <1>4, LinkFacts, FS_AddElement, FS_CardinalityType DEF FlattenInv
<1> HIDE DEF h
<1>6. \A l \in Link : Closed(l)' <=> Closed(l)
  BY <1>2, <1>4 DEF Closed
<1>7. \A n : OpenLinks(n)' = OpenLinks(n) /\ LinksOf(n)' = LinksOf(n)
  BY <1>2, <1>6 DEF OpenLinks, LinksOf
<1>8. TypeOK' /\ PhaseInv'
  BY <1>2, <1>3, <1>5 DEF FlattenInv, TypeOK, PhaseInv
<1>9. QueueInv'
  <2>1. \A l \in todo' : graph'[l].customer \in popped'
    BY <1>2
  <2>2. \A n \in Node \ uncounted' : remaining'[n] = Cardinality(OpenLinks(n)')
    BY <1>2, <1>7 DEF FlattenInv, QueueInv
  <2>3. \A n \in Node : n \in Queued' \cup popped' <=> n \notin uncounted' /\ OpenLinks(n)' = {}
    BY <1>2, <1>4, <1>7 DEF FlattenInv, QueueInv
  <2>4. QED BY <1>3, <1>4, <1>5, <2>1, <2>2, <2>3 DEF QueueInv, Distinct
<1>10. RankInv'
  <2>1. \A n : \A l \in LinksOf(n) : l \in Link
    BY DEF LinksOf
  <2>2. QED BY <1>2, <1>4, <1>6, <1>7, <2>1 DEF FlattenInv, RankInv
<1>11. QED BY <1>4, <1>8, <1>9, <1>10 DEF FlattenInv

LEMMA VisitStep ==
  ASSUME FlattenInv, NEW l \in Link, Visit(l)
  PROVE  FlattenInv' /\ \A m \in Queued \cup popped : rank'[m] = rank[m]
<1>0. PICK p \in Node, c \in Node : p = graph[l].provider /\ c = graph[l].customer
  BY LinkFacts DEF FlattenInv
<1>1. /\ UNCHANGED <<graph, pc, uncounted, processed, popped>>
      /\ pc = "visit" /\ uncounted = {} /\ l \in todo /\ todo' = todo \ {l}
      /\ p \in Node /\ c \in popped /\ popped \subseteq Node
      /\ rank \in [Node -> Int] /\ remaining \in [Node -> Nat]
      /\ rank' = Raised(p, c)
      /\ remaining' = [remaining EXCEPT ![p] = @ - 1]
      /\ queue' = IF remaining'[p] = 0 THEN Append(queue, p) ELSE queue
      /\ queue \in Seq(Node)
  BY <1>0 DEF Visit, FlattenInv, PhaseInv, TypeOK, QueueInv
<1>2. /\ \A m : Closed(m)' <=> Closed(m) \/ m = l
      /\ ~Closed(l)
      /\ l \in OpenLinks(p)
      /\ \A n : LinksOf(n)' = LinksOf(n)
  BY <1>0, <1>1 DEF Closed, OpenLinks, LinksOf
<1>3. \A n : OpenLinks(n)' = IF n = p THEN OpenLinks(n) \ {l} ELSE OpenLinks(n)
  BY <1>0, <1>1, <1>2 DEF OpenLinks, LinksOf
<1>4. p \notin Queued \cup popped /\ p # c
  BY <1>1, <1>2 DEF FlattenInv, QueueInv
<1>5. /\ remaining' \in [Node -> Nat]
      /\ \A n \in Node : remaining'[n] = Cardinality(OpenLinks(n)')
      /\ remaining'[p] = 0 <=> OpenLinks(p)' = {}
  <2>1. /\ \A n \in Node : remaining[n] = Cardinality(OpenLinks(n))
        /\ IsFiniteSet(OpenLinks(p)) /\ Cardinality(OpenLinks(p)) \in Nat
    BY <1>1, LinkFacts, FS_CardinalityType DEF FlattenInv, QueueInv
  <2>2. /\ Cardinality(OpenLinks(p) \ {l}) = Cardinality(OpenLinks(p)) - 1
        /\ IsFiniteSet(OpenLinks(p) \ {l})
        /\ Cardinality(OpenLinks(p) \ {l}) \in Nat
    BY <1>2, <2>1, FS_RemoveElement, FS_CardinalityType
  <2>3. remaining' \in [Node -> Nat] /\ remaining'[p] = Cardinality(OpenLinks(p)')
    <3>1. remaining'[p] = remaining[p] - 1
      BY <1>1
    <3>2. OpenLinks(p)' = OpenLinks(p) \ {l}
      BY <1>3
    <3>3. remaining'[p] = Cardinality(OpenLinks(p)') /\ remaining'[p] \in Nat
      BY <1>1, <2>1, <2>2, <3>1, <3>2
    <3>4. QED BY <1>1, <3>3
  <2>4. \A n \in Node \ {p} : remaining'[n] = Cardinality(OpenLinks(n)')
    BY <1>1, <1>3, <2>1
  <2>5. remaining'[p] = 0 <=> OpenLinks(p)' = {}
    BY <1>3, <2>2, <2>3, FS_EmptySet
  <2>6. QED BY <2>3, <2>4, <2>5
<1>6. /\ queue' \in Seq(Node) /\ Distinct(queue')
      /\ Queued' = IF OpenLinks(p)' = {} THEN Queued \cup {p} ELSE Queued
  <2>1. Queued = Elements(queue) /\ Queued' = Elements(queue') /\ Distinct(queue)
    BY DEF Queued, Elements, FlattenInv, QueueInv
  <2>2. CASE OpenLinks(p)' = {}
    <3>1. p \notin Elements(queue) /\ queue' = Append(queue, p)
      BY <1>1, <1>4, <1>5, <2>1, <2>2
    <3>2. /\ queue' \in Seq(Node) /\ Distinct(queue')
          /\ Elements(queue') = Elements(queue) \cup {p}
      BY <1>1, <2>1, <3>1, AppendElements
    <3>3. QED BY <2>1, <2>2, <3>2
  <2>3. CASE OpenLinks(p)' # {}
    BY <1>1, <1>5, <2>1, <2>3
  <2>4. QED BY <2>2, <2>3
<1>7. /\ rank' \in [Node -> Int]
      /\ rank'[p] = IF rank[p] < rank[c] + 1 THEN rank[c] + 1 ELSE rank[p]
      /\ \A n \in Node \ {p} : rank'[n] = rank[n]
  BY <1>1 DEF Raised
<1>8. Queued \subseteq Node /\ \A m \in Queued \cup popped : rank'[m] = rank[m]
  <2>1. Queued \subseteq Node
    BY <1>1 DEF Queued
  <2>2. QED BY <1>1, <1>4, <1>7, <2>1
<1>9. TypeOK'
  BY <1>1, <1>5, <1>6, <1>7 DEF FlattenInv, TypeOK
<1>10. PhaseInv'
  BY <1>1 DEF FlattenInv, PhaseInv
<1>11. QueueInv'
  <2>1. \A n \in Node : n \in Queued' \cup popped' <=> n \notin uncounted' /\ OpenLinks(n)' = {}
    <3>1. \A n \in Node : n \in Queued \cup popped <=> n \notin uncounted /\ OpenLinks(n) = {}
      BY DEF FlattenInv, QueueInv
    <3>2. QED BY <1>1, <1>3, <1>4, <1>6, <3>1
  <2>2. Queued' \cap popped' = {}
    BY <1>1, <1>4, <1>6 DEF FlattenInv, QueueInv
  <2>3. \A m \in todo' : graph'[m].customer \in popped'
    BY <1>1 DEF FlattenInv, QueueInv
  <2>4. processed' = Cardinality(popped')
    BY <1>1 DEF FlattenInv, QueueInv
  <2>5. QED BY <1>5, <1>6, <2>1, <2>2, <2>3, <2>4 DEF QueueInv, Distinct
<1>12. RankInv'
  <2>1. /\ \A m \in Link : Closed(m) => rank[graph[m].provider] > rank[graph[m].customer]
        /\ \A n \in Queued \cup popped : rank[n] >= 0
        /\ \A n \in Node :
             \/ n \in Queued \cup popped /\ LinksOf(n) = {} /\ rank[n] = 0
             \/ (\A m \in LinksOf(n) : ~Closed(m)) /\ rank[n] = -1
             \/ \E m \in LinksOf(n) : Closed(m) /\ rank[n] = rank[graph[m].customer] + 1
    BY <1>1 DEF FlattenInv, RankInv
  <2>2. \A m : Closed(m) => graph[m].customer \in popped /\ rank'[graph[m].customer] = rank[graph[m].customer]
    BY <1>8 DEF Closed
  <2>3. rank'[p] > rank[c] /\ rank'[p] >= rank[p] /\ rank'[p] >= 0 /\ rank'[c] = rank[c]
    BY <1>1, <1>7, <1>8, <2>1
  <2>4. ASSUME NEW m \in Link, Closed(m)'
        PROVE  rank'[graph[m].provider] > rank'[graph[m].customer]
    <3>1. graph[m].provider \in Node /\ graph[m].customer \in Node
      BY LinkFacts DEF FlattenInv
    <3>2. CASE m = l
      BY <1>0, <2>3, <3>2
    <3>3. CASE Closed(m) /\ graph[m].provider = p
      <4>1. rank[p] > rank[graph[m].customer] /\ rank'[p] >= rank[p]
        BY <2>1, <2>3, <3>3
      <4>2. rank'[graph[m].customer] = rank[graph[m].customer]
        BY <2>2, <3>3
      <4>3. rank'[p] > rank'[graph[m].customer]
        BY <1>1, <1>7, <3>1, <4>1, <4>2
      <4>4. QED BY <1>1, <3>3, <4>3
    <3>4. CASE Closed(m) /\ graph[m].provider # p
      BY <1>7, <2>1, <2>2, <3>1, <3>4
    <3>5. QED BY <1>2, <2>4, <3>2, <3>3, <3>4
  <2>5. ASSUME NEW n \in Queued' \cup popped' PROVE rank'[n] >= 0
    <3>1. CASE n \in Queued \cup popped
      BY <1>8, <2>1, <3>1
    <3>2. CASE n = p
      BY <2>3, <3>2
    <3>3. QED BY <1>1, <1>6, <2>5, <3>1, <3>2
  <2>6. ASSUME NEW n \in Node
        PROVE  \/ n \in Queued' \cup popped' /\ LinksOf(n) = {} /\ rank'[n] = 0
               \/ (\A m \in LinksOf(n) : ~Closed(m)') /\ rank'[n] = -1
               \/ \E m \in LinksOf(n) : Closed(m)' /\ rank'[n] = rank'[graph[m].customer] + 1
    <3>1. CASE n = p /\ rank'[p] = rank[c] + 1
      <4>1. l \in LinksOf(n) /\ Closed(l)' /\ rank'[n] = rank'[graph[l].customer] + 1
        BY <1>0, <1>2, <2>3, <3>1 DEF OpenLinks
      <4>2. QED BY <4>1
    <3>2. CASE n = p /\ rank'[p] # rank[c] + 1
      <4>1. rank'[p] = rank[p] /\ rank[p] >= 0
        BY <1>7, <2>3, <3>2
      <4>2. PICK m \in LinksOf(n) : Closed(m) /\ rank[n] = rank[graph[m].customer] + 1
        BY <1>4, <2>1, <3>2, <4>1
      <4>3. Closed(m)' /\ rank'[n] = rank'[graph[m].customer] + 1
        BY <1>2, <2>2, <3>2, <4>1, <4>2
      <4>4. QED BY <4>3
    <3>3. CASE n # p
      <4>1. rank'[n] = rank[n]
        BY <1>7, <3>3
      <4>2. \A m \in LinksOf(n) : Closed(m)' <=> Closed(m)
        BY <1>0, <1>2, <3>3 DEF LinksOf
      <4>3. Queued \cup popped \subseteq Queued' \cup popped'
        BY <1>1, <1>6
      <4>4. QED BY <2>1, <2>2, <4>1, <4>2, <4>3
    <3>4. QED BY <3>1, <3>2, <3>3
  <2>7. QED BY <1>1, <1>2, <2>4, <2>5, <2>6 DEF RankInv
<1>13. QED BY <1>8, <1>9, <1>10, <1>11, <1>12 DEF FlattenInv

LEMMA StutterStep == FlattenInv /\ UNCHANGED vars => FlattenInv'
<1>1. SUFFICES ASSUME FlattenInv, UNCHANGED vars PROVE FlattenInv'
  OBVIOUS
<1> USE <1>1
<1>2. UNCHANGED <<graph, pc, rank, uncounted, remaining, queue, todo, processed, popped>>
  BY DEF vars
<1>3. /\ Queued' = Queued
      /\ \A l : Closed(l)' <=> Closed(l)
      /\ \A n : OpenLinks(n)' = OpenLinks(n) /\ LinksOf(n)' = LinksOf(n)
  BY <1>2 DEF Queued, Closed, OpenLinks, LinksOf
<1>4. TypeOK' /\ PhaseInv'
  BY <1>2 DEF FlattenInv, TypeOK, PhaseInv
<1>5. QueueInv'
  BY <1>2, <1>3 DEF FlattenInv, QueueInv, Distinct
<1>6. RankInv'
  BY <1>2, <1>3 DEF FlattenInv, RankInv
<1>7. QED BY <1>4, <1>5, <1>6 DEF FlattenInv

LEMMA NextKeepsInv == FlattenInv /\ [Next]_vars => FlattenInv'
<1>1. SUFFICES ASSUME FlattenInv, [Next]_vars PROVE FlattenInv'
  OBVIOUS
<1>2. CASE Reset
  BY <1>1, <1>2, ResetStep
<1>3. ASSUME NEW n \in Node, CountCustomers(n) PROVE FlattenInv'
  BY <1>1, <1>3, CountStep
<1>4. CASE StartVisiting
  BY <1>1, <1>4, StartStep
<1>5. CASE Pop
  BY <1>1, <1>5, PopStep
<1>6. ASSUME NEW l \in Link, Visit(l) PROVE FlattenInv'
  BY <1>1, <1>6, VisitStep
<1>7. CASE Finish
  BY <1>1, <1>7, FinishStep
<1>8. CASE UNCHANGED vars
  BY <1>1, <1>8, StutterStep
<1>9. QED BY <1>1, <1>2, <1>3, <1>4, <1>5, <1>6, <1>7, <1>8 DEF Next

LEMMA FlattenInvariant == Spec => []FlattenInv
BY InitFlattenInv, NextKeepsInv, PTL DEF Spec
-----------------------------------------------------------------------------
\* flattenGraph's counters and containers keep their types on any graph.
THEOREM FlattenTypes == Spec => []TypeOK
<1>1. FlattenInv => TypeOK
  BY DEF FlattenInv
<1>2. QED BY <1>1, FlattenInvariant, PTL

\* processed counts ASes (as_graph.cpp:522).
THEOREM ProcessedOnce == Spec => []CountsEachOnce
<1>1. FlattenInv => CountsEachOnce
  BY DEF FlattenInv, QueueInv, CountsEachOnce
<1>2. QED BY <1>1, FlattenInvariant, PTL

LEMMA DoneIsClosed ==
  ASSUME FlattenInv, pc = "done"
  PROVE  /\ \A n \in popped : \A l \in LinksOf(n) : Closed(l)
         /\ \A n \in Node \ popped : \E l \in LinksOf(n) : graph[l].customer \notin popped
         /\ Queued = {} /\ popped \subseteq Node
<1>1. queue = <<>> /\ todo = {} /\ uncounted = {} /\ popped \subseteq Node
  BY DEF FlattenInv, PhaseInv, TypeOK
<1>2. Queued = {}
  <2>1. DOMAIN queue = {}
    BY <1>1
  <2>2. QED BY <2>1 DEF Queued
<1>3. \A n \in Node : n \in popped <=> OpenLinks(n) = {}
  BY <1>1, <1>2 DEF FlattenInv, QueueInv
<1>4. QED BY <1>1, <1>2, <1>3 DEF OpenLinks, Closed

\* At the end every ranked provider is above all of its customers, which is
\* what lets propagateAll treat the ASes of a rank as independent.
THEOREM RanksRise == Spec => []ProvidersAboveCustomers
<1>1. FlattenInv => ProvidersAboveCustomers
  <2>1. SUFFICES ASSUME FlattenInv, pc = "done", NEW l \in Link, graph[l].provider \in popped
                 PROVE  rank[graph[l].provider] > rank[graph[l].customer]
    BY DEF ProvidersAboveCustomers
  <2>2. Closed(l)
    BY <2>1, DoneIsClosed DEF LinksOf
  <2>3. QED BY <2>1, <2>2 DEF FlattenInv, RankInv
<1>2. QED BY <1>1, FlattenInvariant, PTL

\* The rank is the height of the AS above the customer-less ones, no more.
THEOREM RanksTight == Spec => []RanksAreTight
<1>1. FlattenInv => RanksAreTight
  <2>1. SUFFICES ASSUME FlattenInv, pc = "done", NEW n \in popped
                 PROVE  IF LinksOf(n) = {} THEN rank[n] = 0
                        ELSE \E l \in LinksOf(n) : rank[n] = rank[graph[l].customer] + 1
    BY DEF RanksAreTight
  <2>2. /\ n \in Node /\ rank[n] >= 0
        /\ \/ LinksOf(n) = {} /\ rank[n] = 0
           \/ (\A l \in LinksOf(n) : ~Closed(l)) /\ rank[n] = -1
           \/ \E l \in LinksOf(n) : Closed(l) /\ rank[n] = rank[graph[l].customer] + 1
    BY <2>1, DoneIsClosed DEF FlattenInv, RankInv
  <2>3. rank[n] # -1
    BY <2>2
  <2>4. QED BY <2>2, <2>3
<1>2. QED BY <1>1, FlattenInvariant, PTL

\* A provider reads its customer's rank only when it no longer changes.
THEOREM RanksFinal == Spec => RankFinalOnceQueued
<1>1. FlattenInv /\ [Next]_vars
      => [pc # "reset" => \A n \in Queued \cup popped : rank'[n] = rank[n]]_vars
  <2>1. SUFFICES ASSUME FlattenInv, Next, pc # "reset", NEW m \in Queued \cup popped
                 PROVE  rank'[m] = rank[m]
    OBVIOUS
  <2>2. ASSUME NEW n \in Node, CountCustomers(n) PROVE rank'[m] = rank[m]
    BY <2>1, <2>2, CountStep
  <2>3. ASSUME NEW l \in Link, Visit(l) PROVE rank'[m] = rank[m]
    BY <2>1, <2>3, VisitStep
  <2>4. CASE Reset \/ StartVisiting \/ Pop \/ Finish
    BY <2>1, <2>4 DEF Reset, StartVisiting, Pop, Finish
  <2>5. QED BY <2>1, <2>2, <2>3, <2>4 DEF Next
<1>2. QED BY <1>1, FlattenInvariant, PTL DEF Spec, RankFinalOnceQueued

LEMMA CycleInvariant == Spec => []CycleInv
<1>1. Init => CycleInv
  <2>1. SUFFICES ASSUME Init PROVE Queued = {} /\ popped = {}
    BY DEF CycleInv
  <2>2. DOMAIN queue = {} /\ popped = {}
    BY <2>1 DEF Init
  <2>3. QED BY <2>2 DEF Queued
<1>2. FlattenInv /\ FlattenInv' /\ CycleInv /\ [Next]_vars => CycleInv'
  <2>1. SUFFICES ASSUME FlattenInv, FlattenInv', CycleInv, [Next]_vars,
                        NEW S \in SUBSET Node, Cyclic(S)', NEW n \in S, n \in (Queued \cup popped)'
                 PROVE  FALSE
    BY DEF CycleInv
  <2>2. graph' = graph
    BY <2>1 DEF Next, vars, Reset, CountCustomers, StartVisiting, Pop, Visit, Finish
  <2>3. Cyclic(S)
    BY <2>1, <2>2 DEF Cyclic, LinksOf
  <2>4. PICK l \in Link : graph[l].provider = n /\ graph[l].customer \in S
    BY <2>1, <2>3 DEF Cyclic, LinksOf
  <2>5. Closed(l)'
    BY <2>1, <2>2, <2>4 DEF FlattenInv, QueueInv, OpenLinks, LinksOf
  <2>6. graph[l].customer \in popped'
    BY <2>2, <2>5 DEF Closed
  <2>7. popped' \subseteq Queued \cup popped
    BY <2>1, PopStep DEF Next, vars, Reset, CountCustomers, StartVisiting, Visit, Finish
  <2>8. QED BY <2>1, <2>3, <2>4, <2>6, <2>7 DEF CycleInv
<1>3. QED BY <1>1, <1>2, FlattenInvariant, PTL DEF Spec

\* The warning of flattenGraph (as_graph.cpp:522) is exact: the ASes it leaves
\* without a rank are those on a provider-customer cycle or above one.
THEOREM CyclesFound == Spec => []FindsCycles
<1>1. FlattenInv /\ CycleInv => FindsCycles
  <2>1. SUFFICES ASSUME FlattenInv, CycleInv, pc = "done"
                 PROVE  popped = Node \ AboveCycle
    BY DEF FindsCycles
  <2>2. ASSUME NEW n \in popped, n \in AboveCycle PROVE FALSE
    BY <2>1, <2>2 DEF CycleInv, AboveCycle
  <2>3. ASSUME NEW n \in Node \ popped PROVE n \in AboveCycle
    <3>1. Cyclic(Node \ popped)
      <4>1. SUFFICES ASSUME NEW m \in Node \ popped
                     PROVE  \E l \in Link : /\ graph[l].provider = m
                                            /\ graph[l].customer \in Node \ popped
        BY DEF Cyclic, LinksOf
      <4>2. PICK l \in LinksOf(m) : graph[l].customer \notin popped
        BY <2>1, DoneIsClosed
      <4>3. l \in Link /\ graph[l].provider = m /\ graph[l].customer \in Node
        BY <2>1, LinkFacts DEF LinksOf, FlattenInv
      <4>4. QED BY <4>2, <4>3
    <3>2. Node \ popped \in SUBSET Node
      OBVIOUS
    <3>3. QED BY <2>3, <3>1, <3>2 DEF AboveCycle
  <2>4. QED BY <2>1, <2>2, <2>3, DoneIsClosed
<1>2. QED BY <1>1, FlattenInvariant, CycleInvariant, PTL
-----------------------------------------------------------------------------
(***************************************************************************)
(* The search for cycles.                                                  *)
(***************************************************************************)
Calls == [node : Node, links : SUBSET Link]

\* The ASes whose call has returned.
Black == visited \ Search!InStack

\* Every call waits for the one above it; of its customers it has looked at
\* the black ones and the one it waits for.
StackInv ==
  /\ Search!InStack \subseteq visited
  /\ \A j, k \in 1..Len(stack) : stack[j].node = stack[k].node => j = k
  /\ \A k \in 1..Len(stack) :
       \A l \in Search!LinksOf(stack[k].node) \ stack[k].links :
         \/ graph[l].customer \in Black
         \/ k < Len(stack) /\ graph[l].customer = stack[k + 1].node
  /\ \A k \in 1..Len(stack) :
       k < Len(stack) => \E l \in Search!LinksOf(stack[k].node) :
                           graph[l].customer = stack[k + 1].node
  /\ \A k \in 1..Len(stack) : stack[k].links \subseteq Search!LinksOf(stack[k].node)

\* No cycle goes through an AS whose call has returned.
BlackInv == \A S \in SUBSET Node : Search!Cyclic(S) => S \cap Black = {}

AnswerInv ==
  /\ verdict = "cyclic" => \E S \in (SUBSET Node) \ {{}} : Search!Cyclic(S)
  /\ verdict = "acyclic" => visited = Node /\ stack = <<>>

SearchInv == Search!TypeOK /\ StackInv /\ BlackInv /\ AnswerInv
-----------------------------------------------------------------------------
LEMMA SearchLinks ==
  ASSUME Search!TypeOK
  PROVE  /\ \A l \in Link : graph[l].customer \in Node /\ graph[l].provider \in Node
         /\ stack \in Seq(Calls) /\ Len(stack) \in Nat
         /\ stack # <<>> => Len(stack) \in Nat \ {0}
         /\ DOMAIN stack = 1..Len(stack)
         /\ \A k \in 1..Len(stack) : /\ stack[k].node \in Node
                                     /\ stack[k].links \subseteq Link
                                     /\ stack[k] = [node |-> stack[k].node, links |-> stack[k].links]
<1>1. graph \in [Link -> [customer : Node, provider : Node]]
  BY GraphsAssumption DEF Search!TypeOK
<1>2. stack \in Seq(Calls)
  BY DEF Search!TypeOK, Calls
<1>3. \A k \in 1..Len(stack) : stack[k] \in Calls
  BY <1>2, ElementOfSeq
<1>4. /\ Len(stack) \in Nat /\ DOMAIN stack = 1..Len(stack)
      /\ stack # <<>> => Len(stack) \in Nat \ {0}
  BY <1>2
<1>5. \A l \in Link : graph[l].customer \in Node /\ graph[l].provider \in Node
  BY <1>1
<1>6. \A c \in Calls :
        c.node \in Node /\ c.links \subseteq Link /\ c = [node |-> c.node, links |-> c.links]
  BY DEF Calls
<1>7. QED BY <1>2, <1>3, <1>4, <1>5, <1>6

LEMMA InitSearchInv == Search!Init => SearchInv
<1>1. SUFFICES ASSUME Search!Init PROVE SearchInv
  OBVIOUS
<1>2. stack = <<>> /\ visited = {} /\ verdict = "searching" /\ graph \in Graphs
  BY <1>1 DEF Search!Init
<1>3. Search!InStack = {} /\ Len(stack) = 0
  BY <1>2 DEF Search!InStack
<1>4. QED BY <1>2, <1>3 DEF SearchInv, Search!TypeOK, StackInv, BlackInv, AnswerInv, Black

LEMMA SameBlack ==
  ASSUME SearchInv, graph' = graph, Black' \subseteq Black
  PROVE  BlackInv'
<1>1. SUFFICES ASSUME NEW S \in SUBSET Node, Search!Cyclic(S)'
               PROVE  S \cap Black' = {}
  BY DEF BlackInv
<1>2. Search!Cyclic(S)
  BY <1>1 DEF Search!Cyclic, Search!LinksOf
<1>3. QED BY <1>2 DEF SearchInv, BlackInv

\* Where nothing but the verdict changes.
LEMMA SameStack ==
  ASSUME SearchInv, UNCHANGED <<graph, visited, stack>>,
         verdict' \in {"searching", "cyclic", "acyclic"}, AnswerInv'
  PROVE  SearchInv'
<1>1. Search!TypeOK'
  BY DEF SearchInv, Search!TypeOK
<1>2. StackInv'
  BY DEF SearchInv, StackInv, Search!InStack, Black, Search!LinksOf
<1>3. BlackInv'
  <2>1. Black' = Black
    BY DEF Black, Search!InStack
  <2>2. QED BY <2>1, SameBlack
<1>4. QED BY <1>1, <1>2, <1>3 DEF SearchInv

LEMMA FindCycleStep ==
  ASSUME SearchInv, NEW l \in Link, Search!FindCycle(l)
  PROVE  SearchInv'
<1> DEFINE S(j) == {stack[k].node : k \in j..Len(stack)}
<1>1. /\ stack # <<>> /\ l \in stack[Len(stack)].links
      /\ graph[l].customer \in Search!InStack
      /\ verdict' = "cyclic" /\ UNCHANGED <<graph, visited, stack>>
  BY DEF Search!FindCycle, Search!Top
<1>2. PICK j \in 1..Len(stack) : graph[l].customer = stack[j].node
  BY <1>1, SearchLinks DEF Search!InStack, SearchInv
<1>3. S(j) \in SUBSET Node /\ stack[j].node \in S(j)
  BY <1>2, SearchLinks DEF SearchInv
<1>4. ASSUME NEW n \in S(j)
      PROVE  \E m \in Search!LinksOf(n) : graph[m].customer \in S(j)
  <2>1. PICK k \in j..Len(stack) : n = stack[k].node
    OBVIOUS
  <2>2. k \in 1..Len(stack) /\ Len(stack) \in Nat
    BY SearchLinks DEF SearchInv
  <2>3. CASE k < Len(stack)
    <3>1. PICK m \in Search!LinksOf(n) : graph[m].customer = stack[k + 1].node
      BY <2>1, <2>2, <2>3 DEF SearchInv, StackInv
    <3>2. k + 1 \in j..Len(stack)
      BY <2>2, <2>3
    <3>3. QED BY <3>1, <3>2
  <2>4. CASE k = Len(stack)
    <3>1. l \in Search!LinksOf(n)
      BY <1>1, <2>1, <2>2, <2>4 DEF SearchInv, StackInv
    <3>2. QED BY <1>2, <1>3, <3>1
  <2>5. QED BY <2>2, <2>3, <2>4
<1>5. Search!Cyclic(S(j))
  BY <1>4 DEF Search!Cyclic
<1>6. \E T \in (SUBSET Node) \ {{}} : Search!Cyclic(T)
  BY <1>3, <1>5
<1>7. AnswerInv'
  <2>1. (\E T \in (SUBSET Node) \ {{}} : Search!Cyclic(T))'
    BY <1>1, <1>6 DEF Search!Cyclic, Search!LinksOf
  <2>2. QED BY <1>1, <2>1 DEF AnswerInv
<1>8. QED BY <1>1, <1>7, SameStack

LEMMA StartSearchStep ==
  ASSUME SearchInv, NEW n \in Node, Search!Start(n)
  PROVE  SearchInv'
<1>1. /\ verdict = "searching" /\ stack = <<>> /\ n \notin visited
      /\ visited' = visited \cup {n}
      /\ stack' = <<[node |-> n, links |-> Search!LinksOf(n)]>>
      /\ graph' = graph /\ verdict' = verdict
  BY DEF Search!Start, Search!Call
<1>2. Search!LinksOf(n) \subseteq Link
  BY DEF Search!LinksOf
<1>3. /\ Len(stack') = 1 /\ DOMAIN stack' = {1}
      /\ stack'[1].node = n /\ stack'[1].links = Search!LinksOf(n)
      /\ stack' \in Seq(Calls)
  BY <1>1, <1>2 DEF Calls
<1>4. Search!InStack = {} /\ Search!InStack' = {n}
  BY <1>1, <1>3 DEF Search!InStack
<1>5. Black' = Black
  BY <1>1, <1>4 DEF Black
<1>6. Search!TypeOK'
  BY <1>1, <1>3 DEF SearchInv, Search!TypeOK, Calls
<1>7. StackInv'
  BY <1>1, <1>3, <1>4 DEF StackInv, Search!LinksOf
<1>8. BlackInv'
  BY <1>1, <1>5, SameBlack
<1>9. QED BY <1>1, <1>6, <1>7, <1>8 DEF SearchInv, AnswerInv

\* Taking a link away from the topmost call.
LEMMA WithoutFacts ==
  ASSUME Search!TypeOK, stack # <<>>, NEW l
  PROVE  /\ Search!Without(l) \in Seq(Calls)
         /\ Len(Search!Without(l)) = Len(stack)
         /\ Len(stack) \in Nat \ {0}
         /\ \A k \in 1..Len(stack) :
              /\ Search!Without(l)[k].node = stack[k].node
              /\ Search!Without(l)[k].links =
                   IF k = Len(stack) THEN stack[k].links \ {l} ELSE stack[k].links
<1>1. /\ stack \in Seq(Calls) /\ Len(stack) \in Nat \ {0} /\ DOMAIN stack = 1..Len(stack)
      /\ \A k \in 1..Len(stack) : stack[k] \in Calls
  BY SearchLinks, ElementOfSeq
<1>2. PICK N \in Nat \ {0} : N = Len(stack)
  BY <1>1
<1> DEFINE c == [node |-> stack[N].node, links |-> stack[N].links \ {l}]
           w == [stack EXCEPT ![N] = c]
<1>3. Search!Without(l) = w
  <2>1. [stack[N] EXCEPT !.links = @ \ {l}] = c
    <3>1. \A x \in Calls : [x EXCEPT !.links = @ \ {l}] = [node |-> x.node, links |-> x.links \ {l}]
      BY DEF Calls
    <3>2. QED BY <1>1, <1>2, <3>1
  <2>2. Search!Without(l) = [stack EXCEPT ![N] = [stack[N] EXCEPT !.links = @ \ {l}]]
    BY <1>2 DEF Search!Without
  <2>3. QED BY <2>1, <2>2
<1>4. c \in Calls
  BY <1>1, <1>2 DEF Calls
<1>5. c.node = stack[N].node /\ c.links = stack[N].links \ {l}
  OBVIOUS
<1> HIDE DEF c
<1>6. /\ DOMAIN w = 1..N
      /\ \A k \in 1..N : w[k] = IF k = N THEN c ELSE stack[k]
  BY <1>1, <1>2
<1>7. w \in Seq(Calls) /\ Len(w) = N
  BY <1>1, <1>2, <1>4, <1>6
<1> HIDE DEF w
<1>8. QED BY <1>2, <1>3, <1>5, <1>6, <1>7

LEMMA SkipStep ==
  ASSUME SearchInv, NEW l \in Link, Search!Skip(l)
  PROVE  SearchInv'
<1>1. /\ verdict = "searching" /\ stack # <<>>
      /\ graph[l].customer \in visited \ Search!InStack
      /\ stack' = Search!Without(l)
      /\ graph' = graph /\ verdict' = verdict /\ visited' = visited
  BY DEF Search!Skip
<1>2. PICK N \in Nat \ {0} : N = Len(stack)
  BY <1>1, WithoutFacts DEF SearchInv
<1>3. /\ stack' \in Seq(Calls) /\ Len(stack') = N /\ DOMAIN stack' = 1..N
      /\ \A k \in 1..N : /\ stack'[k].node = stack[k].node
                         /\ stack'[k].links = IF k = N THEN stack[k].links \ {l} ELSE stack[k].links
  <2>1. Search!TypeOK
    BY DEF SearchInv
  <2>2. /\ Search!Without(l) \in Seq(Calls) /\ Len(Search!Without(l)) = Len(stack)
        /\ \A k \in 1..Len(stack) :
             /\ Search!Without(l)[k].node = stack[k].node
             /\ Search!Without(l)[k].links =
                  IF k = Len(stack) THEN stack[k].links \ {l} ELSE stack[k].links
    BY <1>1, <2>1, WithoutFacts
  <2>3. stack' = Search!Without(l)
    BY <1>1
  <2>4. Len(stack') = N /\ stack' \in Seq(Calls)
    BY <1>2, <2>2, <2>3
  <2>5. DOMAIN stack' = 1..N
    BY <2>4
  <2>6. QED BY <1>2, <2>2, <2>3, <2>4, <2>5
<1>4. Search!InStack' = Search!InStack
  <2>1. DOMAIN stack = 1..N
    BY <1>2, SearchLinks DEF SearchInv
  <2>2. Search!InStack = {stack[k].node : k \in 1..N} /\ Search!InStack' = {stack'[k].node : k \in 1..N}
    BY <1>3, <2>1 DEF Search!InStack
  <2>3. \A k \in 1..N : stack'[k].node = stack[k].node
    BY <1>3
  <2>4. QED BY <2>2, <2>3
<1>5. Black' = Black /\ graph[l].customer \in Black
  BY <1>1, <1>4 DEF Black
<1>6. Search!TypeOK'
  BY <1>1, <1>3 DEF SearchInv, Search!TypeOK, Calls
<1>7. StackInv'
  <2>1. ASSUME NEW k \in 1..N, NEW m \in Search!LinksOf(stack[k].node) \ stack'[k].links
        PROVE  \/ graph[m].customer \in Black
               \/ k < N /\ graph[m].customer = stack'[k + 1].node
    <3>1. m = l \/ m \notin stack[k].links
      BY <1>3, <2>1
    <3>2. CASE m \notin stack[k].links
      <4>1. \/ graph[m].customer \in Black
            \/ k < N /\ graph[m].customer = stack[k + 1].node
        BY <1>2, <2>1, <3>2 DEF SearchInv, StackInv
      <4>2. k < N => k + 1 \in 1..N
        BY <1>2
      <4>3. QED BY <1>3, <4>1, <4>2
    <3>3. QED BY <1>5, <3>1, <3>2
  <2>2. \A n : Search!LinksOf(n)' = Search!LinksOf(n)
    BY <1>1 DEF Search!LinksOf
  <2>3. \A k \in 1..N : stack'[k].node = stack[k].node /\ stack'[k].links \subseteq stack[k].links
    BY <1>3
  <2>4. Search!InStack' \subseteq visited'
    BY <1>1, <1>4 DEF SearchInv, StackInv
  <2>5. \A j, k \in 1..N : stack'[j].node = stack'[k].node => j = k
    BY <1>2, <2>3 DEF SearchInv, StackInv
  <2>6. ASSUME NEW k \in 1..N, k < N
        PROVE  \E m \in Search!LinksOf(stack[k].node) : graph[m].customer = stack'[k + 1].node
    <3>1. k + 1 \in 1..N
      BY <1>2, <2>6
    <3>2. QED BY <1>2, <2>3, <2>6, <3>1 DEF SearchInv, StackInv
  <2>7. \A k \in 1..N : stack'[k].links \subseteq Search!LinksOf(stack[k].node)
    BY <1>2, <2>3 DEF SearchInv, StackInv
  <2>8. QED BY <1>1, <1>3, <1>5, <2>1, <2>2, <2>3, <2>4, <2>5, <2>6, <2>7 DEF StackInv
<1>8. QED BY <1>1, <1>5, <1>6, <1>7, SameBlack DEF SearchInv, AnswerInv

LEMMA DescendStep ==
  ASSUME SearchInv, NEW l \in Link, Search!Descend(l)
  PROVE  SearchInv'
<1>1. PICK c : c = graph[l].customer
  OBVIOUS
<1>2. /\ verdict = "searching" /\ stack # <<>> /\ l \in Link
      /\ c \notin visited
      /\ visited' = visited \cup {c}
      /\ stack' = Append(Search!Without(l), [node |-> c, links |-> Search!LinksOf(c)])
      /\ graph' = graph /\ verdict' = verdict
  BY <1>1 DEF Search!Descend, Search!Call
<1>3. PICK N \in Nat \ {0} : N = Len(stack)
  BY <1>2, WithoutFacts DEF SearchInv
<1>4. /\ stack' \in Seq(Calls) /\ Len(stack') = N + 1 /\ DOMAIN stack' = 1..(N + 1)
      /\ stack'[N + 1].node = c /\ stack'[N + 1].links = Search!LinksOf(c)
      /\ \A k \in 1..N : /\ stack'[k].node = stack[k].node
                         /\ stack'[k].links = IF k = N THEN stack[k].links \ {l} ELSE stack[k].links
  <2>1. Search!TypeOK
    BY DEF SearchInv
  <2>2. /\ Search!Without(l) \in Seq(Calls) /\ Len(Search!Without(l)) = Len(stack)
        /\ \A k \in 1..Len(stack) :
             /\ Search!Without(l)[k].node = stack[k].node
             /\ Search!Without(l)[k].links =
                  IF k = Len(stack) THEN stack[k].links \ {l} ELSE stack[k].links
    BY <1>2, <2>1, WithoutFacts
  <2>3. PICK d : d = [node |-> c, links |-> Search!LinksOf(c)]
    OBVIOUS
  <2>4. d \in Calls /\ d.node = c /\ d.links = Search!LinksOf(c)
    BY <1>1, <2>1, <2>3, SearchLinks DEF Calls, Search!LinksOf
  <2>5. stack' = Append(Search!Without(l), d)
    BY <1>2, <2>3
  <2>6. Len(stack') = N + 1 /\ stack' \in Seq(Calls)
    BY <1>3, <2>2, <2>4, <2>5
  <2>7. stack'[N + 1] = d /\ \A k \in 1..N : stack'[k] = Search!Without(l)[k]
    BY <1>3, <2>2, <2>5
  <2>8. DOMAIN stack' = 1..(N + 1)
    BY <2>6
  <2>9. QED BY <1>3, <2>2, <2>4, <2>6, <2>7, <2>8
<1>5. Search!InStack' = Search!InStack \cup {c}
  <2>1. DOMAIN stack = 1..N
    BY <1>3, SearchLinks DEF SearchInv
  <2>2. Search!InStack = {stack[k].node : k \in 1..N} /\ Search!InStack' = {stack'[k].node : k \in 1..(N + 1)}
    BY <1>4, <2>1 DEF Search!InStack
  <2>3. (1..(N + 1)) = (1..N) \cup {N + 1}
    OBVIOUS
  <2>4. \A k \in 1..N : stack'[k].node = stack[k].node
    BY <1>4
  <2>5. QED BY <1>4, <2>2, <2>3, <2>4
<1>6. Black' = Black
  BY <1>2, <1>5 DEF Black, SearchInv, StackInv
<1>7. Search!TypeOK'
  <2>1. c \in Node
    BY <1>1, SearchLinks DEF SearchInv
  <2>2. QED BY <1>2, <1>4, <2>1 DEF SearchInv, Search!TypeOK, Calls
<1>8. StackInv'
  <2>1. ASSUME NEW k \in 1..(N + 1), NEW m \in Search!LinksOf(stack'[k].node) \ stack'[k].links
        PROVE  \/ graph[m].customer \in Black
               \/ k < N + 1 /\ graph[m].customer = stack'[k + 1].node
    <3> k = N + 1 \/ k \in 1..N
      BY <2>1
    <3>1. CASE k = N + 1
      BY <1>4, <2>1, <3>1
    <3>2. CASE k # N + 1 /\ m = l
      <4>1. k = N
        <5>1. k \in 1..N
          BY <3>2
        <5>2. l \in stack[N].links
          BY <1>3 DEF Search!Descend, Search!Top
        <5>3. stack[N].node = graph[l].provider
          BY <1>3, <5>2 DEF SearchInv, StackInv, Search!LinksOf
        <5>4. stack[k].node = graph[l].provider
          <6>1. m \in Search!LinksOf(stack'[k].node) /\ stack'[k].node = stack[k].node
            BY <1>4, <2>1, <5>1
          <6>2. QED BY <3>2, <6>1 DEF Search!LinksOf
        <5>5. QED BY <1>3, <5>1, <5>3, <5>4 DEF SearchInv, StackInv
      <4>2. QED BY <1>1, <1>4, <3>2, <4>1
    <3>3. CASE k # N + 1 /\ m # l
      <4>1. k \in 1..N /\ m \in Search!LinksOf(stack[k].node) \ stack[k].links
        <5>1. k \in 1..N
          BY <3>3
        <5>2. stack'[k].node = stack[k].node
          BY <1>4, <5>1
        <5>3. stack'[k].links = IF k = N THEN stack[k].links \ {l} ELSE stack[k].links
          BY <1>4, <5>1
        <5>4. QED BY <2>1, <3>3, <5>1, <5>2, <5>3
      <4>2. \/ graph[m].customer \in Black
            \/ k < N /\ graph[m].customer = stack[k + 1].node
        BY <1>3, <4>1 DEF SearchInv, StackInv
      <4>3. k < N => k + 1 \in 1..N /\ k < N + 1
        BY <1>3
      <4>4. QED BY <1>4, <4>2, <4>3
    <3>4. QED BY <3>1, <3>2, <3>3
  <2>2. \A n : Search!LinksOf(n)' = Search!LinksOf(n)
    BY <1>2 DEF Search!LinksOf
  <2>3. \A k \in 1..N : stack'[k].node = stack[k].node /\ stack'[k].links \subseteq stack[k].links
    BY <1>4
  <2>4. \A k \in 1..N : stack[k].node # c
    BY <1>2, <1>3, SearchLinks DEF SearchInv, StackInv, Search!InStack
  <2>5. Search!InStack' \subseteq visited'
    BY <1>2, <1>5 DEF SearchInv, StackInv
  <2>6. \A j, k \in 1..N : stack'[j].node = stack'[k].node => j = k
    BY <1>3, <2>3 DEF SearchInv, StackInv
  <2>7. \A j, k \in 1..(N + 1) : stack'[j].node = stack'[k].node => j = k
    BY <1>4, <2>3, <2>4, <2>6
  <2>8. ASSUME NEW k \in 1..(N + 1), k < N + 1
        PROVE  \E m \in Search!LinksOf(stack'[k].node) : graph[m].customer = stack'[k + 1].node
    <3>1. CASE k < N
      <4>1. k + 1 \in 1..N /\ k \in 1..N
        BY <1>3, <3>1
      <4>2. QED BY <1>3, <2>3, <3>1, <4>1 DEF SearchInv, StackInv
    <3>2. CASE k = N
      <4>1. l \in stack[N].links
        BY <1>3 DEF Search!Descend, Search!Top
      <4>2. l \in Search!LinksOf(stack[N].node)
        BY <1>3, <4>1 DEF SearchInv, StackInv
      <4>3. stack'[k].node = stack[N].node
        BY <2>3, <3>2
      <4>4. QED BY <1>1, <1>4, <3>2, <4>2, <4>3
    <3>3. QED BY <2>8, <3>1, <3>2
  <2>9. ASSUME NEW k \in 1..(N + 1) PROVE stack'[k].links \subseteq Search!LinksOf(stack'[k].node)
    <3>1. CASE k = N + 1
      BY <1>4, <3>1
    <3>2. CASE k \in 1..N
      BY <1>3, <2>3, <3>2 DEF SearchInv, StackInv
    <3>3. QED BY <3>1, <3>2
  <2>10. graph' = graph /\ Len(stack') = N + 1
    BY <1>2, <1>4
  <2>11. QED BY <1>6, <2>10, <2>1, <2>2, <2>5, <2>7, <2>8, <2>9 DEF StackInv
<1>9. QED BY <1>2, <1>6, <1>7, <1>8, SameBlack DEF SearchInv, AnswerInv

LEMMA ReturnStep ==
  ASSUME SearchInv, Search!Return
  PROVE  SearchInv'
<1>1. PICK N \in Nat \ {0} : N = Len(stack) /\ DOMAIN stack = 1..N
  BY SearchLinks DEF SearchInv, Search!Return
<1>2. PICK n : n = stack[N].node
  OBVIOUS
<1>3. /\ verdict = "searching" /\ stack[N].links = {}
      /\ stack' = SubSeq(stack, 1, N - 1)
      /\ graph' = graph /\ verdict' = verdict /\ visited' = visited
  BY <1>1 DEF Search!Return, Search!Top
<1>4. /\ stack' \in Seq(Calls) /\ Len(stack') = N - 1 /\ DOMAIN stack' = 1..(N - 1)
      /\ \A k \in 1..(N - 1) : stack'[k] = stack[k]
  <2>1. stack \in Seq(Calls)
    BY SearchLinks DEF SearchInv
  <2>2. QED BY <1>1, <1>3, <2>1
<1>5. Search!InStack' = Search!InStack \ {n}
  <2>1. Search!InStack = {stack[k].node : k \in 1..N} /\ Search!InStack' = {stack[k].node : k \in 1..(N - 1)}
    BY <1>1, <1>4 DEF Search!InStack
  <2>2. \A k \in 1..(N - 1) : k \in 1..N /\ stack[k].node # n
    BY <1>1, <1>2 DEF SearchInv, StackInv
  <2>3. \A k \in 1..N : k \in 1..(N - 1) \/ stack[k].node = n
    BY <1>2
  <2>4. QED BY <2>1, <2>2, <2>3
<1>6. n \in Search!InStack /\ n \in visited
  <2>1. N \in 1..N
    OBVIOUS
  <2>2. n \in Search!InStack
    BY <1>1, <1>2, <2>1 DEF Search!InStack
  <2>3. QED BY <2>2 DEF SearchInv, StackInv
<1>7. Black' = Black \cup {n}
  BY <1>3, <1>5, <1>6 DEF Black
<1>8. \A l \in Search!LinksOf(n) : graph[l].customer \in Black
  <2>1. N \in 1..N /\ ~(N < N)
    OBVIOUS
  <2>2. QED BY <1>1, <1>2, <1>3, <2>1 DEF SearchInv, StackInv
<1>9. Search!TypeOK'
  BY <1>3, <1>4 DEF SearchInv, Search!TypeOK, Calls
<1>10. StackInv'
  <2>1. ASSUME NEW k \in 1..(N - 1), NEW m \in Search!LinksOf(stack[k].node) \ stack[k].links
        PROVE  \/ graph[m].customer \in Black'
               \/ k < N - 1 /\ graph[m].customer = stack'[k + 1].node
    <3>1. \/ graph[m].customer \in Black
          \/ k < N /\ graph[m].customer = stack[k + 1].node
      BY <1>1, <2>1 DEF SearchInv, StackInv
    <3>2. CASE k < N - 1
      <4>1. stack'[k + 1] = stack[k + 1]
        BY <1>4, <3>2
      <4>2. QED BY <1>7, <3>1, <3>2, <4>1
    <3>3. CASE k = N - 1
      <4>1. k + 1 = N
        BY <3>3
      <4>2. QED BY <1>2, <1>7, <3>1, <4>1
    <3>4. QED BY <3>2, <3>3
  <2>2. \A m : Search!LinksOf(m)' = Search!LinksOf(m)
    BY <1>3 DEF Search!LinksOf
  <2>3. Search!InStack' \subseteq visited'
    BY <1>3, <1>5 DEF SearchInv, StackInv
  <2>4. \A j, k \in 1..(N - 1) : stack'[j].node = stack'[k].node => j = k
    BY <1>1, <1>4 DEF SearchInv, StackInv
  <2>5. ASSUME NEW k \in 1..(N - 1), k < N - 1
        PROVE  \E m \in Search!LinksOf(stack[k].node) : graph[m].customer = stack'[k + 1].node
    <3>1. stack'[k + 1] = stack[k + 1] /\ k \in 1..N /\ k < N
      BY <1>4, <2>5
    <3>2. QED BY <1>1, <3>1 DEF SearchInv, StackInv
  <2>6. \A k \in 1..(N - 1) : stack[k].links \subseteq Search!LinksOf(stack[k].node)
    BY <1>1 DEF SearchInv, StackInv
  <2>7. graph' = graph /\ Len(stack') = N - 1
    BY <1>3, <1>4
  <2>8. QED BY <1>4, <2>7, <2>1, <2>2, <2>3, <2>4, <2>5, <2>6 DEF StackInv
<1>11. BlackInv'
  <2>1. SUFFICES ASSUME NEW S \in SUBSET Node, Search!Cyclic(S)'
                 PROVE  S \cap Black' = {}
    BY DEF BlackInv
  <2>2. Search!Cyclic(S)
    BY <1>3, <2>1 DEF Search!Cyclic, Search!LinksOf
  <2>3. S \cap Black = {}
    BY <2>2 DEF SearchInv, BlackInv
  <2>4. n \notin S
    BY <1>8, <2>2, <2>3 DEF Search!Cyclic
  <2>5. QED BY <1>7, <2>3, <2>4
<1>12. QED BY <1>3, <1>9, <1>10, <1>11 DEF SearchInv, AnswerInv

LEMMA SearchKeepsInv ==
  SearchInv /\ [Search!Next]_<<graph, visited, stack, verdict>> => SearchInv'
<1>1. ASSUME SearchInv, UNCHANGED <<graph, visited, stack, verdict>> PROVE SearchInv'
  <2>1. AnswerInv'
    <3>1. ASSUME NEW T \in (SUBSET Node) \ {{}}, Search!Cyclic(T) PROVE Search!Cyclic(T)'
      BY <1>1, <3>1 DEF Search!Cyclic, Search!LinksOf
    <3>2. QED BY <1>1, <3>1 DEF SearchInv, AnswerInv
  <2>2. verdict' \in {"searching", "cyclic", "acyclic"}
    BY <1>1 DEF SearchInv, Search!TypeOK
  <2>3. QED BY <1>1, <2>1, <2>2, SameStack
<1>2. ASSUME SearchInv, Search!Finish PROVE SearchInv'
  <2>1. /\ UNCHANGED <<graph, visited, stack>>
        /\ verdict' = "acyclic" /\ visited = Node /\ stack = <<>>
    BY <1>2 DEF Search!Finish
  <2>2. AnswerInv'
    BY <2>1 DEF AnswerInv
  <2>3. QED BY <1>2, <2>1, <2>2, SameStack
<1>3. ASSUME SearchInv, NEW n \in Node, Search!Start(n) PROVE SearchInv'
  BY <1>3, StartSearchStep
<1>4. ASSUME SearchInv, NEW l \in Link, Search!Descend(l) PROVE SearchInv'
  BY <1>4, DescendStep
<1>5. ASSUME SearchInv, NEW l \in Link, Search!FindCycle(l) PROVE SearchInv'
  BY <1>5, FindCycleStep
<1>6. ASSUME SearchInv, NEW l \in Link, Search!Skip(l) PROVE SearchInv'
  BY <1>6, SkipStep
<1>7. QED BY <1>1, <1>2, <1>3, <1>4, <1>5, <1>6, ReturnStep DEF Search!Next
-----------------------------------------------------------------------------
\* The preparation runs a flattening ...
LEMMA FlattensAsSpecified == PrepareSpec => Spec
<1>1. PrepareInit => Init
  BY DEF PrepareInit
<1>2. [PrepareNext]_prepareVars => [Next]_vars
  <2>1. Search!Next => graph' = graph
    BY DEF Search!Next, Search!Start, Search!Descend, Search!FindCycle, Search!Skip,
           Search!Return, Search!Finish
  <2>2. QED BY <2>1 DEF PrepareNext, SearchStep, FlattenStep, prepareVars, vars
<1>3. QED BY <1>1, <1>2, PTL DEF PrepareSpec, Spec

\* ... after a search, whose verdict is out by then.
LEMMA SearchInvariant == PrepareSpec => [](SearchInv /\ (pc # "reset" => verdict # "searching"))
<1> DEFINE Inv == SearchInv /\ (pc # "reset" => verdict # "searching")
<1>1. PrepareInit => Inv
  BY InitSearchInv DEF PrepareInit, Init
<1>2. Inv /\ [PrepareNext]_prepareVars => Inv'
  <2>1. Next => graph' = graph
    BY DEF Next, Reset, CountCustomers, StartVisiting, Pop, Visit, Finish
  <2>2. [PrepareNext]_prepareVars => [Search!Next]_<<graph, visited, stack, verdict>>
    BY <2>1 DEF PrepareNext, SearchStep, FlattenStep, prepareVars, searchVars, vars
  <2>3. Search!Next => verdict = "searching"
    BY DEF Search!Next, Search!Start, Search!Descend, Search!FindCycle, Search!Skip,
           Search!Return, Search!Finish
  <2>4. QED BY <2>2, <2>3, SearchKeepsInv
            DEF PrepareNext, SearchStep, FlattenStep, prepareVars, searchVars, vars
<1>3. QED BY <1>1, <1>2, PTL DEF PrepareSpec

LEMMA RightVerdict == SearchInv => VerdictIsRight
<1>1. ASSUME SearchInv, verdict = "acyclic", NEW S \in (SUBSET Node) \ {{}}, Search!Cyclic(S)
      PROVE  FALSE
  <2>1. Search!InStack = {}
    BY <1>1 DEF SearchInv, AnswerInv, Search!InStack
  <2>2. Black = Node
    BY <1>1, <2>1 DEF SearchInv, AnswerInv, Black
  <2>3. QED BY <1>1, <2>2 DEF SearchInv, BlackInv
<1>2. QED BY <1>1 DEF SearchInv, AnswerInv, VerdictIsRight, Search!VerdictIsRight

\* hasProviderCustomerCycles returns true if and only if some ASes are each
\* other's customers all the way around (as_graph.cpp:368, 420).
THEOREM SearchIsRight == PrepareSpec => []VerdictIsRight
BY SearchInvariant, RightVerdict, PTL

\* flattenGraph leaves an AS without a rank (as_graph.cpp:522) if and only if
\* the search found a cycle (as_graph.cpp:313).
THEOREM BothChecksAgree == PrepareSpec => []ChecksAgree
<1>1. FlattenInv /\ FindsCycles /\ SearchInv /\ (pc # "reset" => verdict # "searching") => ChecksAgree
  <2>1. SUFFICES ASSUME FlattenInv, FindsCycles, SearchInv, verdict # "searching", pc = "done"
                 PROVE  processed # Cardinality(Node) <=> verdict = "cyclic"
    BY DEF ChecksAgree
  <2>2. verdict \in {"cyclic", "acyclic"}
    BY <2>1 DEF SearchInv, Search!TypeOK
  <2>3. popped = Node \ AboveCycle /\ processed = Cardinality(popped)
    BY <2>1 DEF FindsCycles, FlattenInv, QueueInv
  <2>4. processed = Cardinality(Node) <=> popped = Node
    <3>1. popped \subseteq Node
      BY <2>3
    <3>2. QED BY <2>3, <3>1, FiniteAssumption, FS_Subset
  <2>5. \A S : Search!Cyclic(S) <=> Cyclic(S)
    BY DEF Search!Cyclic, Search!LinksOf, Cyclic, LinksOf
  <2>6. verdict = "cyclic" => popped # Node
    <3>1. ASSUME verdict = "cyclic" PROVE AboveCycle \cap Node # {}
      <4>1. PICK S \in (SUBSET Node) \ {{}} : Cyclic(S)
        BY <2>1, <2>5, <3>1 DEF SearchInv, AnswerInv
      <4>2. S \subseteq AboveCycle
        BY <4>1 DEF AboveCycle
      <4>3. QED BY <4>1, <4>2
    <3>2. QED BY <2>3, <3>1
  <2>7. verdict = "acyclic" => popped = Node
    <3>1. ASSUME verdict = "acyclic" PROVE AboveCycle = {}
      BY <2>1, <2>5, <3>1, RightVerdict DEF VerdictIsRight, Search!VerdictIsRight, AboveCycle
    <3>2. QED BY <2>3, <3>1
  <2>8. QED BY <2>2, <2>4, <2>6, <2>7
<1>2. QED BY <1>1, FlattensAsSpecified, FlattenInvariant, CyclesFound, SearchInvariant, PTL
=============================================================================
