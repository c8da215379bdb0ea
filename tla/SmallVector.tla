------------------------------ MODULE SmallVector ------------------------------
(***************************************************************************)
(* The vectors of small_vector.h: up to N elements inside the object, more *)
(* in a block on the heap, whose address takes the place of the first      *)
(* elements.  One member function a step, on any of a few vectors.         *)
(***************************************************************************)
EXTENDS Integers, Sequences, FiniteSets

CONSTANTS Vectors,      \* the objects
          Elements,     \* T, the elements pushed
          Lists,        \* the lists and std::vectors constructed from
          Sizes,        \* the sizes constructed with, resized to and reserved
          N,            \* inline capacity, 12
          PointerCells, \* inline elements under heap_.ptr and heap_.capacity, 4
          MaxCapacity,  \* bound of the model on the size of a block
          NotBuilt,     \* no object, or not any more
          NoBlock,      \* is_heap_ is false
          Unset,        \* an element nobody has set, or that was overwritten
          Zero          \* T(), which a std::vector fills up with

ASSUME VectorsAssumption == IsFiniteSet(Vectors)

ASSUME CapacityAssumption == Sizes \subseteq Nat /\ N \in Nat \ {0} /\ PointerCells \in Nat

Content == Elements \cup {Unset} \cup UNION {{seq[k] : k \in DOMAIN seq} : seq \in Lists}

ASSUME ListsAssumption == Lists \subseteq Seq(Content)

ASSUME NoBlockAssumption == NoBlock \notin Nat

Vector == [size : Nat, block : Nat \cup {NoBlock}, inline : Seq(Content)]

ASSUME NotBuiltAssumption == NotBuilt \notin Vector

VARIABLES vectors,  \* [size, block, inline], or NotBuilt
          blocks,   \* the allocated blocks, a partial function to their elements
          expected, \* history: the elements a std::vector would have
          spoiled   \* history: the places where this one may have others, which
                    \* the sized constructor, resize, push_back of an own element
                    \* and copies of a vector that has shrunk on the heap leave

vectorVars == <<vectors, blocks, expected, spoiled>>

VectorInit ==
  /\ vectors = [v \in Vectors |-> NotBuilt]
  /\ blocks = <<>>
  /\ expected = [v \in Vectors |-> <<>>]
  /\ spoiled = [v \in Vectors |-> {}]

Built == {v \in Vectors : vectors[v] # NotBuilt}

OnHeap(v) == vectors[v].block # NoBlock

Data(v) == IF OnHeap(v) THEN blocks[vectors[v].block] ELSE vectors[v].inline

Contents(v) == SubSeq(Data(v), 1, vectors[v].size)

Room(v) == Len(Data(v))  \* capacity()

\* What the history says of one vector from now on
Expect(v, elements, places) ==
  /\ expected' = [expected EXCEPT ![v] = elements]
  /\ spoiled' = [spoiled EXCEPT ![v] = places]

\* The first cells of new or used storage set to seq
Over(seq, cells) == [k \in DOMAIN cells |-> IF k <= Len(seq) THEN seq[k] ELSE cells[k]]

Cells(n) == [k \in 1..n |-> Unset]

\* The inline elements once a pointer was stored over the first of them
Overlaid(inline) == Over(Cells(PointerCells), inline)

FreshBlock(bs) == CHOOSE b \in 1..(Cardinality(Vectors) + 1) : b \notin DOMAIN bs

Allocated(bs, block, cells) == [b \in DOMAIN bs \cup {block} |-> IF b = block THEN cells ELSE bs[b]]

Without(bs, block) == [b \in DOMAIN bs \ {block} |-> bs[b]]

\* v owns a new block, and its old one is deleted.
MoveToBlock(v, size, cells) ==
  LET block == FreshBlock(blocks)
  IN  /\ vectors' = [vectors EXCEPT ![v] =
                       [size |-> size, block |-> block, inline |-> Overlaid(@.inline)]]
      /\ blocks' = Without(Allocated(blocks, block, cells), vectors[v].block)

\* v deletes its block, if any, and has seq inside.
MoveInside(v, seq) ==
  /\ vectors' = [vectors EXCEPT ![v] =
                   [size |-> Len(seq), block |-> NoBlock, inline |-> Over(seq, @.inline)]]
  /\ blocks' = Without(blocks, vectors[v].block)
-----------------------------------------------------------------------------
\* What the constructors make of the elements seq
Make(v, seq) ==
  /\ v \notin Built
  /\ IF Len(seq) > N
     THEN /\ vectors' = [vectors EXCEPT ![v] = [size |-> Len(seq),
                           block |-> FreshBlock(blocks), inline |-> Cells(N)]]
          /\ blocks' = Allocated(blocks, FreshBlock(blocks), seq)
     ELSE /\ vectors' = [vectors EXCEPT ![v] = [size |-> Len(seq), block |-> NoBlock,
                           inline |-> Over(seq, Cells(N))]]
          /\ UNCHANGED blocks

\* The constructors from a list, a std::vector, or copies of one element
Construct(v, seq) == Make(v, seq) /\ Expect(v, seq, {})

\* The constructor from a size alone sets no element.
ConstructSized(v, n) ==
  Make(v, Cells(n)) /\ Expect(v, [k \in 1..n |-> Zero], 1..n)

\* What a copy takes from other: the elements if there are more than N, and else
\* what is inside other, though its elements may be on the heap.
Copied(other) ==
  IF vectors[other].size > N THEN Contents(other)
  ELSE SubSeq(vectors[other].inline, 1, vectors[other].size)

\* The places where the copy of other may have other elements: all, if it takes
\* what is inside and the elements are not.
CopySpoils(other) ==
  IF OnHeap(other) /\ vectors[other].size <= N THEN 1..vectors[other].size ELSE spoiled[other]

CopyExpected(v, other) == Expect(v, expected[other], CopySpoils(other))

CopyAssign(v, other) ==
  /\ {v, other} \subseteq Built /\ v # other
  /\ IF vectors[other].size <= N THEN MoveInside(v, Copied(other))
     ELSE IF OnHeap(v) /\ Room(v) >= vectors[other].size
     THEN /\ vectors' = [vectors EXCEPT ![v].size = vectors[other].size]
          /\ blocks' = [blocks EXCEPT ![vectors[v].block] = Over(Copied(other), @)]
     ELSE MoveToBlock(v, vectors[other].size, Copied(other))
  /\ CopyExpected(v, other)

CopyConstruct(v, other) ==
  /\ other \in Built
  /\ Make(v, Copied(other))
  /\ CopyExpected(v, other)

\* Faulty variant: the block has two owners.
GivenAwayShared(other) == vectors[other]

\* What is left of a vector that was moved from: nothing, or what was inside.
GivenAway(other) ==
  IF OnHeap(other) THEN [vectors[other] EXCEPT !.size = 0, !.block = NoBlock] ELSE vectors[other]

\* The move operations; v deletes the block it had.
Move(v, other) ==
  /\ other \in Built /\ v # other
  /\ LET own == IF v \in Built THEN vectors[v].inline ELSE Cells(N)
         seq == SubSeq(vectors[other].inline, 1, vectors[other].size)
         moved == IF OnHeap(other)
                  THEN [vectors[other] EXCEPT !.inline = Overlaid(own)]
                  ELSE [vectors[other] EXCEPT !.inline = Over(seq, own)]
     IN  vectors' = [vectors EXCEPT ![v] = moved, ![other] = GivenAway(other)]
  /\ blocks' = IF v \in Built THEN Without(blocks, vectors[v].block) ELSE blocks
  /\ expected' = [expected EXCEPT ![v] = expected[other],
                                  ![other] = IF OnHeap(other) THEN <<>> ELSE @]
  /\ spoiled' = [spoiled EXCEPT ![v] = spoiled[other],
                                ![other] = IF OnHeap(other) THEN {} ELSE @]

Destroy(v) ==
  /\ v \in Built
  /\ vectors' = [vectors EXCEPT ![v] = NotBuilt]
  /\ blocks' = Without(blocks, vectors[v].block)
  /\ Expect(v, <<>>, {})

ClearVector(v) ==
  /\ v \in Built
  /\ vectors' = [vectors EXCEPT ![v].size = 0]
  /\ Expect(v, <<>>, {})
  /\ UNCHANGED blocks

\* Faulty variant: what is inside is copied even if the elements are on the heap.
GrownCellsInside(v, capacity) == Over(vectors[v].inline, Cells(capacity))

\* grow: the elements in a block of the new size
GrownCells(v, capacity) == Over(Contents(v), Cells(capacity))

Reserve(v, capacity) ==
  /\ v \in Built /\ capacity > Room(v)
  /\ MoveToBlock(v, vectors[v].size, GrownCells(v, capacity))
  /\ UNCHANGED <<expected, spoiled>>

\* New elements are whatever is there, where a std::vector has T().
Resize(v, size) ==
  /\ v \in Built
  /\ IF size > Room(v) THEN MoveToBlock(v, size, GrownCells(v, size))
     ELSE vectors' = [vectors EXCEPT ![v].size = size] /\ UNCHANGED blocks
  /\ Expect(v, Over(expected[v], [k \in 1..size |-> Zero]),
              (spoiled[v] \cup (vectors[v].size + 1)..size) \cap 1..size)

\* A vector on the heap grows at every push_back.
Grows(v) == vectors[v].size >= N \/ OnHeap(v)

\* What push_back does with the element it reads.
Push(v, element) ==
  LET size == vectors[v].size
      grown == IF 2 * Room(v) < N THEN N ELSE 2 * Room(v)
  IN  IF Grows(v)
      THEN /\ grown <= MaxCapacity
           /\ MoveToBlock(v, size + 1, [GrownCells(v, grown) EXCEPT ![size + 1] = element])
      ELSE /\ vectors' = [vectors EXCEPT ![v].size = size + 1,
                                         ![v].inline[size + 1] = element]
           /\ UNCHANGED blocks

\* push_back of an element that is not one of v's
PushBack(v, element) ==
  /\ v \in Built
  /\ Push(v, element)
  /\ Expect(v, Append(expected[v], element), spoiled[v])

\* What is read through a reference to v's element k: grow has deleted the old
\* block by then, where the element may still be found, or has stored the address
\* of the new one over the first elements inside.
ReadOwn(v, k) ==
  IF ~Grows(v) THEN {Data(v)[k]}
  ELSE IF OnHeap(v) THEN {Data(v)[k], Unset}
  ELSE {Overlaid(vectors[v].inline)[k]}

LosesOwn(v, k) == Grows(v) /\ (OnHeap(v) \/ k <= PointerCells)

\* push_back(v[k])
PushBackOwn(v, k) ==
  /\ v \in Built /\ k \in 1..vectors[v].size
  /\ \E element \in ReadOwn(v, k) : Push(v, element)
  /\ Expect(v, Append(expected[v], expected[v][k]),
              IF k \in spoiled[v] \/ LosesOwn(v, k)
              THEN spoiled[v] \cup {vectors[v].size + 1} ELSE spoiled[v])

\* v[k] = element, by operator[], front, back, data or an iterator
SetElement(v, k, element) ==
  /\ v \in Built /\ k \in 1..vectors[v].size
  /\ IF OnHeap(v)
     THEN blocks' = [blocks EXCEPT ![vectors[v].block][k] = element] /\ UNCHANGED vectors
     ELSE vectors' = [vectors EXCEPT ![v].inline[k] = element] /\ UNCHANGED blocks
  /\ Expect(v, [expected[v] EXCEPT ![k] = element], spoiled[v] \ {k})

VectorNext ==
  \E v \in Vectors :
    \/ \E seq \in Lists : Construct(v, seq)
    \/ \E other \in Vectors :
         CopyAssign(v, other) \/ CopyConstruct(v, other) \/ Move(v, other)
    \/ Destroy(v) \/ ClearVector(v)
    \/ \E n \in Sizes : ConstructSized(v, n) \/ Reserve(v, n) \/ Resize(v, n)
    \/ \E element \in Elements : PushBack(v, element)
    \/ \E k \in 1..MaxCapacity :
         \/ PushBackOwn(v, k)
         \/ \E element \in Elements : SetElement(v, k, element)

VectorSpec == VectorInit /\ [][VectorNext]_vectorVars
-----------------------------------------------------------------------------
\* A vector is as long as a std::vector would be and has its elements, wherever
\* they are kept and however they came there; but for the places in spoiled,
\* until they are set, overwritten by a copy or gone.
ElementsAsExpected ==
  \A v \in Built :
    /\ vectors[v].size = Len(expected[v])
    /\ \A k \in 1..vectors[v].size \ spoiled[v] : Data(v)[k] = expected[v][k]

\* Every block has one owner, who will delete it: none leaks, none is deleted twice.
BlocksOwnedOnce ==
  /\ DOMAIN blocks = {vectors[v].block : v \in Built} \ {NoBlock}
  /\ \A v, w \in Built : OnHeap(v) /\ vectors[v].block = vectors[w].block => v = w
=============================================================================
