-------------------------- MODULE PropagationProofs --------------------------
(***************************************************************************)
(* propagateAll is free of races on the received queues, leaves nothing in *)
(* them and computes what LockStep does, on every acyclic graph, for any   *)
(* number of ASes, threads and passes; so that what is proved of LockStep  *)
(* holds of the threads.                                                   *)
(***************************************************************************)
EXTENDS Propagation, RouteTableProofs

Busy(t) == work[t] # Idle

\* What the loop that runs allows its threads to be at.
WorkInv ==
  /\ \A t \in Thread : Busy(t) =>
       /\ work[t].node \in Members(graph, loop) \ todo
       /\ \/ /\ work[t].step = "process"
             /\ Processes(loop)
          \/ /\ work[t].step = "send"
             /\ work[t].unsent \subseteq Receivers(graph, loop, work[t].node)
  /\ \A t, u \in Thread : t # u /\ Busy(t) /\ Busy(u) => work[t].node # work[u].node

\* The loop that runs has still to empty the queue of this AS.
ToBeEmptied(n) ==
  /\ n \in Members(graph, loop)
  /\ n \in todo \/ \E t \in Thread : Reads(t, n)

\* Where a queue that is not empty may be found: on the ways up and down only
\* in front of the rank that is worked at.
QueueInv ==
  \A n \in ASN : received_queue[n] # <<>> =>
    CASE loop.phase = "up"                -> graph.rank[n] > loop.rank \/ ToBeEmptied(n)
      [] loop.phase \in {"drain", "settle"} -> ToBeEmptied(n)
      [] loop.phase = "across"            -> TRUE
      [] loop.phase = "down"              -> graph.rank[n] < loop.rank \/ ToBeEmptied(n)
      [] loop.phase = "done"              -> FALSE

ControlTypes ==
  /\ WellFormed(graph)
  /\ loop \in [iteration : Nat, phase : Phases, rank : Nat]
  /\ todo \subseteq Members(graph, loop)
  /\ DOMAIN work = Thread
  /\ DOMAIN received_queue = ASN

ControlInv == ControlTypes /\ WorkInv /\ QueueInv
-----------------------------------------------------------------------------
\* The loops of two ASes never send to each other's rank.
LEMMA ReceiversElsewhere ==
  ASSUME ControlTypes, NEW m \in ASN, m \in Members(graph, loop),
         NEW n \in Receivers(graph, loop, m)
  PROVE  /\ n \in ASN
         /\ loop.phase \in {"up", "across", "down"}
         /\ loop.phase = "up" => graph.rank[n] > loop.rank
         /\ loop.phase = "down" => graph.rank[n] < loop.rank
<1>1. /\ \A k \in ASN : graph.providers[k] \subseteq ASN /\ graph.peers[k] \subseteq ASN
      /\ \A k \in ASN : graph.rank[k] \in Nat
      /\ \A j, k \in ASN : j \in Customers(graph, k) => graph.rank[j] < graph.rank[k]
  BY DEF ControlTypes, WellFormed, Graph, Flattened
<1>2. loop.phase \in Phases /\ loop.rank \in Nat
  BY DEF ControlTypes
<1>3. CASE loop.phase = "up"
  <2>1. n \in graph.providers[m] /\ graph.rank[m] = loop.rank
    BY <1>3 DEF Receivers, Members
  <2>2. n \in ASN /\ m \in Customers(graph, n)
    BY <1>1, <2>1 DEF Customers
  <2>3. QED BY <1>1, <1>2, <1>3, <2>1, <2>2
<1>4. CASE loop.phase = "down"
  <2>1. n \in Customers(graph, m) /\ graph.rank[m] = loop.rank
    BY <1>4 DEF Receivers, Members
  <2>2. n \in ASN
    BY <2>1 DEF Customers
  <2>3. QED BY <1>1, <1>2, <1>4, <2>1, <2>2
<1>5. CASE loop.phase = "across"
  BY <1>1, <1>5 DEF Receivers
<1>6. CASE loop.phase \in {"drain", "settle", "done"}
  BY <1>6 DEF Receivers
<1>7. QED BY <1>2, <1>3, <1>4, <1>5, <1>6 DEF Phases

LEMMA MembersAreASes == \A g, l : l.phase \in Phases => Members(g, l) \subseteq ASN
BY DEF Members, Phases

LEMMA IdleIsIdle ==
  /\ \A n, k : Processing(n, k) # Idle
  /\ \A n, b, S : Sending(n, b, S) = Idle \/
       /\ Sending(n, b, S) # Idle
       /\ Sending(n, b, S).step = "send"
       /\ Sending(n, b, S).node = n
       /\ Sending(n, b, S).unsent = S
BY DEF Processing, Sending, Idle

LEMMA ControlInit == Init => ControlInv
<1>1. SUFFICES ASSUME Init PROVE ControlInv
  OBVIOUS
<1>2. ControlTypes
  BY <1>1, GraphsAssumption DEF Init, ControlTypes, FirstLoop, LoopHead, Phases
<1>3. QED BY <1>1, <1>2 DEF Init, ControlInv, WorkInv, QueueInv, Busy

LEMMA TakeStep ==
  ASSUME ControlInv, NEW t \in Thread, NEW n \in ASN, Take(t, n)
  PROVE  ControlInv'
<1>1. /\ UNCHANGED <<graph, loop, received_queue, tables>>
      /\ work[t] = Idle /\ n \in todo /\ todo' = todo \ {n}
      /\ work' = [work EXCEPT ![t] = IF Processes(loop) THEN Processing(n, 1) ELSE Dispatch(n)]
  BY DEF Take
<1>2. /\ DOMAIN work' = Thread
      /\ work'[t] = IF Processes(loop) THEN Processing(n, 1) ELSE Dispatch(n)
      /\ \A u \in Thread \ {t} : work'[u] = work[u]
  BY <1>1 DEF ControlInv, ControlTypes
<1>3. n \in Members(graph, loop) /\ UNCHANGED Members(graph, loop)
  BY <1>1 DEF ControlInv, ControlTypes
<1>4. \/ work'[t] = Idle
      \/ work'[t].step = "process" /\ Processes(loop) /\ work'[t].node = n
      \/ work'[t].step = "send" /\ work'[t].node = n
           /\ work'[t].unsent \subseteq Receivers(graph, loop, n)
  BY <1>2, IdleIsIdle DEF Dispatch, Processing
<1>5. ControlTypes'
  BY <1>1, <1>2, <1>3 DEF ControlInv, ControlTypes
<1>6. WorkInv'
  <2>1. \A u \in Thread \ {t} : Busy(u)' => Busy(u) /\ work[u].node \in Members(graph, loop) \ todo
    BY <1>2 DEF ControlInv, WorkInv, Busy
  <2>2. \A u \in Thread : Busy(u)' =>
          /\ work'[u].node \in Members(graph, loop) \ todo'
          /\ \/ work'[u].step = "process" /\ Processes(loop)
             \/ /\ work'[u].step = "send"
                /\ work'[u].unsent \subseteq Receivers(graph, loop, work'[u].node)
    BY <1>1, <1>2, <1>3, <1>4, <2>1 DEF ControlInv, WorkInv, Busy
  <2>3. \A u, v \in Thread : u # v /\ Busy(u)' /\ Busy(v)' => work'[u].node # work'[v].node
    BY <1>1, <1>2, <1>4, <2>1 DEF ControlInv, WorkInv, Busy
  <2>4. QED BY <1>1, <2>2, <2>3 DEF WorkInv
<1>7. ASSUME loop.phase # "across", NEW m \in ASN, ToBeEmptied(m) PROVE ToBeEmptied(m)'
  <2>1. CASE m = n
    <3>1. Processes(loop)
      BY <1>3, <1>5, <1>7 DEF Processes, Members, ControlInv, ControlTypes, Phases
    <3>2. Reads(t, m)'
      BY <1>2, <2>1, <3>1 DEF Reads, Processing
    <3>3. QED BY <1>3, <2>1, <3>2 DEF ToBeEmptied
  <2>2. CASE m # n
    <3>1. \A u \in Thread : Reads(u, m) => Reads(u, m)'
      BY <1>1, <1>2 DEF Reads, Idle
    <3>2. QED BY <1>1, <1>3, <1>7, <2>2, <3>1 DEF ToBeEmptied
  <2>3. QED BY <2>1, <2>2
<1>8. QueueInv'
  BY <1>1, <1>5, <1>7 DEF ControlInv, QueueInv, ControlTypes, Phases
<1>9. QED BY <1>5, <1>6, <1>8 DEF ControlInv

\* A step in which a thread goes on with its AS, or lets it go.
LEMMA GoesOn ==
  ASSUME ControlInv, NEW t \in Thread, Busy(t), NEW w,
         UNCHANGED <<graph, loop, todo>>,
         work' = [work EXCEPT ![t] = w],
         \/ w = Idle
         \/ w.step = "process" /\ w.node = work[t].node /\ Processes(loop)
         \/ w.step = "send" /\ w.node = work[t].node
              /\ w.unsent \subseteq Receivers(graph, loop, work[t].node)
  PROVE  /\ WorkInv'
         /\ DOMAIN work' = Thread
         /\ \A m : ToBeEmptied(m) /\ ~Reads(t, m) => ToBeEmptied(m)'
<1>1. /\ DOMAIN work' = Thread
      /\ work'[t] = w
      /\ \A u \in Thread \ {t} : work'[u] = work[u]
  BY DEF ControlInv, ControlTypes
<1>2. UNCHANGED Members(graph, loop)
  OBVIOUS
<1>3. work[t].node \in Members(graph, loop) \ todo
  BY DEF ControlInv, WorkInv
<1>4. \A u \in Thread : Busy(u)' =>
        /\ Busy(u) /\ work'[u].node = work[u].node
        /\ work'[u].node \in Members(graph, loop) \ todo
        /\ \/ work'[u].step = "process" /\ Processes(loop)
           \/ /\ work'[u].step = "send"
              /\ work'[u].unsent \subseteq Receivers(graph, loop, work'[u].node)
  BY <1>1, <1>3 DEF ControlInv, WorkInv, Busy
<1>5. \A u, v \in Thread : u # v /\ Busy(u)' /\ Busy(v)' => work'[u].node # work'[v].node
  BY <1>4 DEF ControlInv, WorkInv
<1>6. WorkInv'
  BY <1>4, <1>5 DEF WorkInv
<1>7. \A m : ToBeEmptied(m) /\ ~Reads(t, m) => ToBeEmptied(m)'
  <2>1. \A m : \A u \in Thread : Reads(u, m) /\ ~Reads(t, m) => Reads(u, m)'
    BY <1>1 DEF Reads
  <2>2. QED BY <1>2, <2>1 DEF ToBeEmptied
<1>8. QED BY <1>1, <1>6, <1>7

LEMMA StepIsBusy ==
  ASSUME NEW t, work[t].step \in {"process", "send"}
  PROVE  Busy(t)
BY DEF Busy, Idle

LEMMA ProcessStep ==
  ASSUME ControlInv, NEW t \in Thread, ProcessNext(t)
  PROVE  ControlInv'
<1> DEFINE w == Processing(work[t].node, work[t].position + 1)
<1>1. /\ UNCHANGED <<graph, loop, todo, received_queue>>
      /\ work[t].step = "process" /\ work' = [work EXCEPT ![t] = w]
  BY DEF ProcessNext
<1>2. Busy(t) /\ Processes(loop)
  BY <1>1, StepIsBusy DEF ControlInv, WorkInv
<1>3. w.step = "process" /\ w.node = work[t].node
  BY DEF Processing
<1> HIDE DEF w
<1>4. /\ WorkInv' /\ DOMAIN work' = Thread
      /\ \A m : ToBeEmptied(m) /\ ~Reads(t, m) => ToBeEmptied(m)'
  BY <1>1, <1>2, <1>3, GoesOn
<1>5. \A m : ToBeEmptied(m) => ToBeEmptied(m)'
  <2>1. ASSUME NEW m, Reads(t, m) PROVE Reads(t, m)'
    BY <1>1, <1>3, <2>1 DEF Reads, ControlInv, ControlTypes
  <2>2. ASSUME NEW m, Reads(t, m), ToBeEmptied(m) PROVE ToBeEmptied(m)'
    BY <1>1, <2>1, <2>2 DEF ToBeEmptied
  <2>3. QED BY <1>4, <2>2
<1>6. ControlTypes'
  BY <1>1, <1>4 DEF ControlInv, ControlTypes
<1>7. QueueInv'
  BY <1>1, <1>5, <1>6 DEF ControlInv, QueueInv, ControlTypes, Phases
<1>8. QED BY <1>4, <1>6, <1>7 DEF ControlInv

LEMMA ClearStep ==
  ASSUME ControlInv, NEW t \in Thread, ClearQueue(t)
  PROVE  ControlInv'
<1> DEFINE n == work[t].node
           w == Dispatch(n)
<1>1. /\ UNCHANGED <<graph, loop, todo>>
      /\ work[t].step = "process" /\ work' = [work EXCEPT ![t] = w]
      /\ received_queue' = [received_queue EXCEPT ![n] = <<>>]
  BY DEF ClearQueue
<1>2. Busy(t)
  BY <1>1, StepIsBusy
<1>3. \/ w = Idle
      \/ w.step = "send" /\ w.node = n /\ w.unsent \subseteq Receivers(graph, loop, n)
  BY IdleIsIdle DEF Dispatch
<1> HIDE DEF w
<1>4. /\ WorkInv' /\ DOMAIN work' = Thread
      /\ \A m : ToBeEmptied(m) /\ ~Reads(t, m) => ToBeEmptied(m)'
  BY <1>1, <1>2, <1>3, GoesOn
<1>5. \A m \in ASN : received_queue'[m] # <<>> => received_queue[m] # <<>> /\ ~Reads(t, m)
  BY <1>1 DEF Reads, ControlInv, ControlTypes
<1>6. ControlTypes'
  BY <1>1, <1>4 DEF ControlInv, ControlTypes
<1>7. QueueInv'
  BY <1>1, <1>4, <1>5, <1>6 DEF ControlInv, QueueInv, ControlTypes, Phases
<1>8. QED BY <1>4, <1>6, <1>7 DEF ControlInv

LEMMA SendStep ==
  ASSUME ControlInv, NEW t \in Thread, NEW m \in ASN, Send(t, m)
  PROVE  ControlInv'
<1> DEFINE n == work[t].node
           w == Sending(n, work[t].batch, work[t].unsent \ {m})
<1>1. /\ UNCHANGED <<graph, loop, todo>>
      /\ work[t].step = "send" /\ m \in work[t].unsent
      /\ work' = [work EXCEPT ![t] = w]
      /\ received_queue' = [received_queue EXCEPT ![m] = Append(@, work[t].batch)]
  BY DEF Send
<1>2. /\ Busy(t) /\ work[t].unsent \subseteq Receivers(graph, loop, n)
      /\ n \in Members(graph, loop)
  BY <1>1, StepIsBusy DEF ControlInv, WorkInv
<1>3. \/ w = Idle
      \/ w.step = "send" /\ w.node = n /\ w.unsent \subseteq Receivers(graph, loop, n)
  BY <1>2, IdleIsIdle
<1> HIDE DEF w
<1>4. /\ WorkInv' /\ DOMAIN work' = Thread
      /\ \A k : ToBeEmptied(k) /\ ~Reads(t, k) => ToBeEmptied(k)'
  BY <1>1, <1>2, <1>3, GoesOn
<1>5. \A k : ToBeEmptied(k) => ToBeEmptied(k)'
  BY <1>1, <1>4 DEF Reads
<1>6. ControlTypes'
  BY <1>1, <1>4 DEF ControlInv, ControlTypes
<1>7. /\ loop.phase \in {"up", "across", "down"}
      /\ loop.phase = "up" => graph.rank[m] > loop.rank
      /\ loop.phase = "down" => graph.rank[m] < loop.rank
  <2>1. loop.phase \in Phases
    BY DEF ControlInv, ControlTypes
  <2>2. n \in ASN
    BY <1>2, <2>1, MembersAreASes
  <2>3. QED BY <1>1, <1>2, <2>2, ReceiversElsewhere DEF ControlInv
<1>8. \A k \in ASN : received_queue'[k] # <<>> => received_queue[k] # <<>> \/ k = m
  BY <1>1 DEF ControlInv, ControlTypes
<1>9. QueueInv'
  BY <1>1, <1>5, <1>6, <1>7, <1>8 DEF ControlInv, QueueInv, ControlTypes, Phases
<1>10. QED BY <1>4, <1>6, <1>9 DEF ControlInv

LEMMA BarrierStep == ControlInv /\ Barrier => ControlInv'
<1>1. SUFFICES ASSUME ControlInv, Barrier PROVE ControlInv'
  OBVIOUS
<1>2. /\ loop.phase # "done" /\ todo = {}
      /\ \A t \in Thread : work[t] = Idle
      /\ loop' = NextLoop(graph, loop)
      /\ todo' = Members(graph, loop')
      /\ UNCHANGED <<graph, work, received_queue>>
  BY <1>1 DEF Barrier
<1>3. /\ WellFormed(graph)
      /\ loop \in [iteration : Nat, phase : Phases, rank : Nat]
      /\ MaxRank(graph) \in Nat
      /\ \A n \in ASN : graph.rank[n] \in Nat
      /\ DOMAIN work = Thread /\ DOMAIN received_queue = ASN
  BY <1>1, MaxRankType DEF ControlInv, ControlTypes, WellFormed, Graph
<1>4. \A n \in ASN : ~ToBeEmptied(n)
  BY <1>2 DEF ToBeEmptied, Reads, Idle
<1>5. \A n \in ASN : n \in todo' => ToBeEmptied(n)'
  BY <1>2 DEF ToBeEmptied
<1>6. WorkInv'
  BY <1>2 DEF WorkInv, Busy
<1>7. \A i, p, r : /\ LoopHead(i, p, r).iteration = i
                   /\ LoopHead(i, p, r).phase = p
                   /\ LoopHead(i, p, r).rank = r
                   /\ i \in Nat /\ p \in Phases /\ r \in Nat
                      => LoopHead(i, p, r) \in [iteration : Nat, phase : Phases, rank : Nat]
  BY DEF LoopHead
<1> DEFINE typed == loop' \in [iteration : Nat, phase : Phases, rank : Nat]
<1>8. CASE loop.phase = "up"
  <2>1. \A n \in ASN : received_queue[n] # <<>> => graph.rank[n] > loop.rank
    BY <1>1, <1>4, <1>8 DEF ControlInv, QueueInv
  <2>2. CASE loop.rank < MaxRank(graph)
    <3>1. loop' = LoopHead(loop.iteration, "up", loop.rank + 1)
      BY <1>2, <1>3, <1>8, <2>2 DEF NextLoop
    <3>2. loop'.phase = "up" /\ loop'.rank = loop.rank + 1 /\ typed
      BY <1>3, <1>7, <3>1 DEF Phases
    <3>3. \A n \in ASN : graph.rank[n] > loop.rank => graph.rank[n] > loop'.rank \/ n \in todo'
      BY <1>2, <1>3, <3>2 DEF Members
    <3>4. QueueInv'
      BY <1>2, <1>5, <2>1, <3>2, <3>3 DEF QueueInv
    <3>5. QED BY <1>2, <1>3, <1>6, <3>2, <3>4 DEF ControlInv, ControlTypes
  <2>3. CASE loop.rank >= MaxRank(graph)
    <3>1. loop' = LoopHead(loop.iteration, "drain", 0)
      BY <1>2, <1>3, <1>8, <2>3 DEF NextLoop
    <3>2. loop'.phase = "drain" /\ typed
      BY <1>3, <1>7, <3>1 DEF Phases
    <3>3. todo' = ASN
      BY <1>2, <3>2 DEF Members
    <3>4. QueueInv'
      BY <1>5, <3>2, <3>3 DEF QueueInv
    <3>5. QED BY <1>2, <1>3, <1>6, <3>2, <3>4 DEF ControlInv, ControlTypes
  <2>4. QED BY <1>3, <2>2, <2>3
<1>9. CASE loop.phase = "drain"
  <2>1. loop' = LoopHead(loop.iteration, "across", 0)
    BY <1>2, <1>9 DEF NextLoop
  <2>2. loop'.phase = "across" /\ typed
    BY <1>3, <1>7, <2>1 DEF Phases
  <2>3. QueueInv'
    BY <2>2 DEF QueueInv
  <2>4. QED BY <1>2, <1>3, <1>6, <2>2, <2>3 DEF ControlInv, ControlTypes
<1>10. CASE loop.phase = "across"
  <2>1. loop' = LoopHead(loop.iteration, "settle", 0)
    BY <1>2, <1>10 DEF NextLoop
  <2>2. loop'.phase = "settle" /\ typed
    BY <1>3, <1>7, <2>1 DEF Phases
  <2>3. todo' = ASN
    BY <1>2, <2>2 DEF Members
  <2>4. QueueInv'
    BY <1>5, <2>2, <2>3 DEF QueueInv
  <2>5. QED BY <1>2, <1>3, <1>6, <2>2, <2>4 DEF ControlInv, ControlTypes
<1>11. CASE loop.phase = "settle"
  <2>1. loop' = LoopHead(loop.iteration, "down", MaxRank(graph))
    BY <1>2, <1>11 DEF NextLoop
  <2>2. loop'.phase = "down" /\ typed
    BY <1>3, <1>7, <2>1 DEF Phases
  <2>3. \A n \in ASN : received_queue[n] = <<>>
    BY <1>1, <1>4, <1>11 DEF ControlInv, QueueInv
  <2>4. QueueInv'
    BY <1>2, <2>3 DEF QueueInv
  <2>5. QED BY <1>2, <1>3, <1>6, <2>2, <2>4 DEF ControlInv, ControlTypes
<1>12. CASE loop.phase = "down"
  <2>1. \A n \in ASN : received_queue[n] # <<>> => graph.rank[n] < loop.rank
    BY <1>1, <1>4, <1>12 DEF ControlInv, QueueInv
  <2>2. CASE loop.rank > 0
    <3>1. loop' = LoopHead(loop.iteration, "down", loop.rank - 1)
      BY <1>2, <1>3, <1>12, <2>2 DEF NextLoop
    <3>2. loop'.phase = "down" /\ loop'.rank = loop.rank - 1 /\ typed
      BY <1>3, <1>7, <2>2, <3>1 DEF Phases
    <3>3. \A n \in ASN : graph.rank[n] < loop.rank => graph.rank[n] < loop'.rank \/ n \in todo'
      BY <1>2, <1>3, <3>2 DEF Members
    <3>4. QueueInv'
      BY <1>2, <1>5, <2>1, <3>2, <3>3 DEF QueueInv
    <3>5. QED BY <1>2, <1>3, <1>6, <3>2, <3>4 DEF ControlInv, ControlTypes
  <2>3. CASE loop.rank = 0
    <3>1. \A n \in ASN : received_queue'[n] = <<>>
      BY <1>2, <1>3, <2>1, <2>3
    <3>2. QueueInv'
      BY <3>1 DEF QueueInv
    <3>3. \/ loop' = LoopHead(loop.iteration + 1, "up", 0)
          \/ loop' = LoopHead(loop.iteration, "done", 0)
      BY <1>2, <1>3, <1>12, <2>3, IterationsAssumption DEF NextLoop
    <3>4. typed
      BY <1>3, <1>7, <3>3 DEF Phases
    <3>5. QED BY <1>2, <1>3, <1>6, <3>2, <3>4 DEF ControlInv, ControlTypes
  <2>4. QED BY <1>3, <2>2, <2>3
<1>13. QED BY <1>2, <1>3, <1>8, <1>9, <1>10, <1>11, <1>12 DEF Phases

LEMMA ControlStutter == ControlInv /\ UNCHANGED vars => ControlInv'
<1>1. SUFFICES ASSUME ControlInv, UNCHANGED vars PROVE ControlInv'
  OBVIOUS
<1>2. UNCHANGED <<graph, loop, todo, work, received_queue>>
  BY <1>1 DEF vars
<1>3. \A n : ToBeEmptied(n)' <=> ToBeEmptied(n)
  BY <1>2 DEF ToBeEmptied, Reads
<1>4. ControlTypes'
  BY <1>1, <1>2 DEF ControlInv, ControlTypes
<1>5. WorkInv'
  BY <1>1, <1>2 DEF ControlInv, WorkInv, Busy
<1>6. QueueInv'
  BY <1>1, <1>2, <1>3 DEF ControlInv, QueueInv
<1>7. QED BY <1>4, <1>5, <1>6 DEF ControlInv

LEMMA ControlInvariant == Spec => []ControlInv
<1>1. ControlInv /\ [Next]_vars => ControlInv'
  <2>1. SUFFICES ASSUME ControlInv, [Next]_vars PROVE ControlInv'
    OBVIOUS
  <2>2. ASSUME NEW t \in Thread, NEW n \in ASN, Take(t, n) PROVE ControlInv'
    BY <2>1, <2>2, TakeStep
  <2>3. ASSUME NEW t \in Thread, ProcessNext(t) PROVE ControlInv'
    BY <2>1, <2>3, ProcessStep
  <2>4. ASSUME NEW t \in Thread, ClearQueue(t) PROVE ControlInv'
    BY <2>1, <2>4, ClearStep
  <2>5. ASSUME NEW t \in Thread, NEW m \in ASN, Send(t, m) PROVE ControlInv'
    BY <2>1, <2>5, SendStep
  <2>6. CASE Barrier
    BY <2>1, <2>6, BarrierStep
  <2>7. CASE UNCHANGED vars
    BY <2>1, <2>7, ControlStutter
  <2>8. QED BY <2>1, <2>2, <2>3, <2>4, <2>5, <2>6, <2>7 DEF Next, ThreadStep
<1>2. QED BY <1>1, ControlInit, PTL DEF Spec
-----------------------------------------------------------------------------
\* The unlocked reads of processReceivedQueue (as_node.cpp:191-229) never meet
\* an append or another reader: in a loop over a rank all receivers are on
\* other ranks, and no loop both reads and sends to peers.
THEOREM NoRace == Spec => []RaceFree
<1>1. ControlInv => RaceFree
  <2>1. SUFFICES ASSUME ControlInv, NEW t \in Thread, NEW u \in Thread, t # u,
                        NEW n \in ASN, Reads(t, n)
                 PROVE  ~Reads(u, n) /\ ~Appends(u, n)
    BY DEF RaceFree
  <2>2. /\ Busy(t) /\ work[t].node = n /\ Processes(loop) /\ n \in Members(graph, loop)
    BY <2>1, StepIsBusy DEF Reads, ControlInv, WorkInv
  <2>3. ASSUME Reads(u, n) PROVE FALSE
    BY <2>1, <2>2, <2>3, StepIsBusy DEF Reads, ControlInv, WorkInv
  <2>4. ASSUME Appends(u, n) PROVE FALSE
    <3>1. /\ Busy(u) /\ work[u].node \in Members(graph, loop)
          /\ n \in Receivers(graph, loop, work[u].node)
      BY <2>1, <2>4, StepIsBusy DEF Appends, ControlInv, WorkInv
    <3>2. loop.phase \in Phases /\ \A k \in ASN : graph.rank[k] \in Nat
      BY <2>1 DEF ControlInv, ControlTypes, WellFormed, Graph
    <3>3. work[u].node \in ASN
      BY <3>1, <3>2, MembersAreASes
    <3>4. /\ loop.phase \in {"up", "across", "down"}
          /\ loop.phase = "up" => graph.rank[n] > loop.rank
          /\ loop.phase = "down" => graph.rank[n] < loop.rank
      BY <2>1, <3>1, <3>3, ReceiversElsewhere DEF ControlInv
    <3>5. CASE loop.phase \in {"up", "down"}
      <4>1. graph.rank[n] = loop.rank
        BY <2>2, <3>5 DEF Members
      <4>2. QED BY <3>2, <3>4, <3>5, <4>1
    <3>6. CASE loop.phase = "across"
      BY <2>2, <3>6 DEF Processes
    <3>7. QED BY <3>4, <3>5, <3>6
  <2>5. QED BY <2>3, <2>4
<1>2. QED BY <1>1, ControlInvariant, PTL

\* When propagateAll returns every announcement sent has been processed.
THEOREM QueuesDrained == Spec => []NothingLeftBehind
<1>1. ControlInv => NothingLeftBehind
  BY DEF ControlInv, QueueInv, NothingLeftBehind
<1>2. QED BY <1>1, ControlInvariant, PTL
-----------------------------------------------------------------------------
(***************************************************************************)
(* The refinement of LockStep.  Between two barriers the threads work      *)
(* through queues that nobody else touches, so that what a loop leaves in  *)
(* tables and queues is a function of what it found there.                 *)
(***************************************************************************)
UpTo(queue, k) == {queue[i] : i \in 1..k}

LetIn(g, n, ann) == Accepts(n, ann) /\ ~(n \in g.rov /\ ann.rov_invalid)

KeptOf(g, n, anns) ==
  {PrependASN(a, n, a.next_hop, a.received_from) : a \in {x \in anns : LetIn(g, n, x)}}

LearnedFrom(table, kept) ==
  [m \in DOMAIN table \cup {ann.next_hop : ann \in kept} |->
     IF \E ann \in kept : ann.next_hop = m
     THEN CHOOSE ann \in kept : ann.next_hop = m
     ELSE table[m]]

LEMMA LearnedFromNothing ==
  ASSUME NEW queue
  PROVE  LearnedFrom(ByNextHop(queue), {}) = ByNextHop(queue)
<1>1. DOMAIN ByNextHop(queue) \cup {ann.next_hop : ann \in {}} = DOMAIN ByNextHop(queue)
  OBVIOUS
<1>2. ByNextHop(queue) = [m \in DOMAIN ByNextHop(queue) |-> ByNextHop(queue)[m]]
  BY DEF ByNextHop
<1>3. QED BY <1>1, <1>2 DEF LearnedFrom

\* One more route of a neighbour that has none among those kept.
LEMMA LearnOneMore ==
  ASSUME NEW table, NEW kept, NEW ann,
         \A a, b \in kept : a.next_hop = b.next_hop => a = b,
         \A a \in kept : a.next_hop # ann.next_hop
  PROVE  Remember(LearnedFrom(table, kept), ann) = LearnedFrom(table, kept \cup {ann})
<1> DEFINE left == Remember(LearnedFrom(table, kept), ann)
           more == kept \cup {ann}
           right == LearnedFrom(table, more)
           names == DOMAIN table \cup {a.next_hop : a \in more}
<1>1. DOMAIN LearnedFrom(table, kept) = DOMAIN table \cup {a.next_hop : a \in kept}
  BY DEF LearnedFrom
<1>2. left = [m \in names |-> IF m = ann.next_hop THEN ann ELSE LearnedFrom(table, kept)[m]]
  <2>1. DOMAIN LearnedFrom(table, kept) \cup {ann.next_hop} = names
    BY <1>1
  <2> HIDE DEF names, more
  <2>2. QED BY <2>1 DEF Remember
<1>3. right = [m \in names |-> IF \E a \in more : a.next_hop = m
                               THEN CHOOSE a \in more : a.next_hop = m ELSE table[m]]
  BY DEF LearnedFrom
<1>4. ASSUME NEW m \in names
      PROVE  (IF m = ann.next_hop THEN ann ELSE LearnedFrom(table, kept)[m])
               = (IF \E a \in more : a.next_hop = m
                  THEN CHOOSE a \in more : a.next_hop = m ELSE table[m])
  <2>1. CASE m = ann.next_hop
    <3>1. ann \in more /\ \A a \in more : a.next_hop = m => a = ann
      BY <2>1
    <3> HIDE DEF more
    <3>2. (CHOOSE a \in more : a.next_hop = m) = ann
      BY <2>1, <3>1
    <3>3. QED BY <2>1, <3>1, <3>2
  <2>2. CASE m # ann.next_hop
    <3>1. m \in DOMAIN table \cup {a.next_hop : a \in kept}
      BY <1>4, <2>2
    <3>2. LearnedFrom(table, kept)[m] = IF \E a \in kept : a.next_hop = m
                                        THEN CHOOSE a \in kept : a.next_hop = m ELSE table[m]
      BY <3>1 DEF LearnedFrom
    <3>3. (\E a \in more : a.next_hop = m) <=> (\E a \in kept : a.next_hop = m)
      BY <2>2
    <3>4. ASSUME NEW b \in kept, b.next_hop = m
          PROVE  (CHOOSE a \in more : a.next_hop = m) = (CHOOSE a \in kept : a.next_hop = m)
      <4>1. (CHOOSE a \in kept : a.next_hop = m) = b
        BY <3>4
      <4>2. b \in more /\ \A a \in more : a.next_hop = m => a = b
        BY <2>2, <3>4
      <4> HIDE DEF more
      <4>3. (CHOOSE a \in more : a.next_hop = m) = b
        BY <3>4, <4>2
      <4>4. QED BY <4>1, <4>3
    <3> HIDE DEF more
    <3>5. QED BY <2>2, <3>2, <3>3, <3>4
  <2>3. QED BY <2>1, <2>2
<1> HIDE DEF left, right, names, more
<1>5. QED BY <1>2, <1>3, <1>4 DEF left, right, more

\* A round of processReceivedQueue learns the next announcement of the queue.
LEMMA AbsorbLearns ==
  ASSUME NEW g, NEW n \in ASN, NEW table, Consistent(table), NEW routes,
         NEW queue \in Seq(Announcement), OnePerNeighbour(queue), NEW pos \in 1..Len(queue),
         ByNextHop(table.queue) = LearnedFrom(routes, KeptOf(g, n, UpTo(queue, pos - 1)))
  PROVE  LET new == Absorb(g, n, table, queue[pos])
         IN  /\ Consistent(new)
             /\ ByNextHop(new.queue) = LearnedFrom(routes, KeptOf(g, n, UpTo(queue, pos)))
<1> DEFINE heard == queue[pos]
           ann == PrependASN(heard, n, heard.next_hop, heard.received_from)
           kept == KeptOf(g, n, UpTo(queue, pos - 1))
           more == KeptOf(g, n, UpTo(queue, pos))
           new == Absorb(g, n, table, heard)
<1>1. /\ DOMAIN queue = 1..Len(queue) /\ Len(queue) \in Nat
      /\ \A i \in DOMAIN queue : queue[i] \in Announcement
  OBVIOUS
<1>2. \A x : x \in UpTo(queue, pos) <=> x \in UpTo(queue, pos - 1) \/ x = heard
  BY <1>1 DEF UpTo
<1>3. CASE ~LetIn(g, n, heard)
  <2>1. more = kept
    BY <1>2, <1>3 DEF KeptOf
  <2>2. new = table
    <3>1. CASE ~Accepts(n, heard)
      BY <3>1 DEF Absorb
    <3>2. CASE Accepts(n, heard)
      <4>1. n \in g.rov /\ ann.rov_invalid
        BY <1>3, <3>2 DEF LetIn, PrependASN, MakeAnnouncement
      <4>2. QED BY <3>2, <4>1 DEF Absorb, Admit
    <3>3. QED BY <3>1, <3>2
  <2> HIDE DEF new, more, kept
  <2>3. QED BY <2>1, <2>2 DEF new, more, kept
<1>4. CASE LetIn(g, n, heard)
  <2>1. heard \in Announcement /\ heard.next_hop \in ASN /\ heard.received_from \in Relationship
    BY <1>1 DEF Announcement
  <2>2. ann \in Announcement /\ ann.next_hop = heard.next_hop /\ ann.rov_invalid = heard.rov_invalid
    BY <2>1, PrependResult
  <2>3. new = Receive(table, ann)
    BY <1>4, <2>2 DEF Absorb, Admit, LetIn
  <2>4. \A a : a \in kept => \E i \in 1..(pos - 1) :
                 a = PrependASN(queue[i], n, queue[i].next_hop, queue[i].received_from)
    BY DEF KeptOf, UpTo
  <2>5. \A a \in kept : \E i \in 1..(pos - 1) :
          /\ a = PrependASN(queue[i], n, queue[i].next_hop, queue[i].received_from)
          /\ a.next_hop = queue[i].next_hop
    <3>1. \A a, x, m, rel : PrependASN(a, x, m, rel).next_hop = m
      BY DEF PrependASN, MakeAnnouncement
    <3> HIDE DEF kept
    <3>2. QED BY <2>4, <3>1
  <2>6. \A a \in kept : a.next_hop # ann.next_hop
    BY <1>1, <2>2, <2>5 DEF OnePerNeighbour
  <2>7. \A a, b \in kept : a.next_hop = b.next_hop => a = b
    BY <1>1, <2>5 DEF OnePerNeighbour
  <2>8. more = kept \cup {ann}
    BY <1>2, <1>4 DEF KeptOf
  <2> HIDE DEF ann, kept, more
  <2>9. Remember(LearnedFrom(routes, kept), ann) = LearnedFrom(routes, more)
    BY <2>6, <2>7, <2>8, LearnOneMore
  <2>10. Consistent(new)
    BY <2>2, <2>3, ReceiveKeepsConsistent
  <2>11. new.queue = Store(table.queue, ann)
    BY <2>3 DEF Receive
  <2>12. table.queue \in Seq(Announcement) /\ OnePerNeighbour(table.queue)
    BY DEF Consistent
  <2>13. ByNextHop(new.queue) = Remember(ByNextHop(table.queue), ann)
    BY <2>2, <2>11, <2>12, StoreIsRemember
  <2>14. ByNextHop(table.queue) = LearnedFrom(routes, kept)
    BY DEF kept
  <2> HIDE DEF new
  <2>15. QED BY <2>9, <2>10, <2>13, <2>14 DEF new, more
<1>5. QED BY <1>3, <1>4
-----------------------------------------------------------------------------
\* LockStep instantiated has copies of the operators both modules extend.
LEMMA ReceiveReadsAlike ==
  \A table, ann : InLockStep!Receive(table, ann) = Receive(table, ann)
<1>1. \A a, b : InLockStep!Better(a, b) <=> Better(a, b)
  BY DEF InLockStep!Better, Better, InLockStep!Score, Score,
         InLockStep!RelationshipValue, RelationshipValue
<1>2. \A a, b : InLockStep!Outranks(a, b) <=> Outranks(a, b)
  BY DEF InLockStep!Outranks, Outranks, InLockStep!EnumValue, EnumValue,
         InLockStep!ShorterOrLowerNextHop, ShorterOrLowerNextHop
<1>3. \A queue : InLockStep!SelectBestRoute(queue) = SelectBestRoute(queue)
  BY <1>2 DEF InLockStep!SelectBestRoute, SelectBestRoute
<1>4. \A queue, hop : InLockStep!Slots(queue, hop) = Slots(queue, hop)
  BY DEF InLockStep!Slots, Slots
<1>5. \A queue, ann : InLockStep!Store(queue, ann) = Store(queue, ann)
  BY DEF InLockStep!Store, Store, InLockStep!Slots, Slots
<1>6. QED
  BY <1>1, <1>3, <1>4, <1>5 DEF InLockStep!Receive, Receive

LEMMA SeededReadsAlike ==
  \A g, s, n : InLockStep!Seeded(g, s, n) = Seeded(g, s, n)
BY ReceiveReadsAlike
   DEF InLockStep!Seeded, Seeded, InLockStep!Admit, Admit, InLockStep!EmptyTable, EmptyTable,
       InLockStep!MakeAnnouncement, MakeAnnouncement

LEMMA RoutesReadAlike ==
  /\ \A table, ann : InLockStep!Remember(table, ann) = Remember(table, ann)
  /\ \A S : InLockStep!MostPreferred(S) = MostPreferred(S)
  /\ \A n, ann : InLockStep!Accepts(n, ann) <=> Accepts(n, ann)
  /\ \A ann, n, m, rel : InLockStep!PrependASN(ann, n, m, rel) = PrependASN(ann, n, m, rel)
  /\ \A n, b, rel : InLockStep!Export(n, b, rel) = Export(n, b, rel)
<1>1. \A S : InLockStep!MostPreferred(S) = MostPreferred(S)
  BY DEF InLockStep!MostPreferred, MostPreferred, InLockStep!PreferredTo, PreferredTo,
         InLockStep!Place, Place, InLockStep!Precedence, Precedence
<1>2. \A path, m, rel, invalid : InLockStep!MakeAnnouncement(path, m, rel, invalid)
                                   = MakeAnnouncement(path, m, rel, invalid)
  BY DEF InLockStep!MakeAnnouncement, MakeAnnouncement
<1>3. /\ \A n, ann : InLockStep!Accepts(n, ann) <=> Accepts(n, ann)
      /\ \A table, ann : InLockStep!Remember(table, ann) = Remember(table, ann)
  BY DEF InLockStep!Accepts, Accepts, InLockStep!ContainsASN, ContainsASN,
         InLockStep!Remember, Remember
<1>4. \A ann, n, m, rel : InLockStep!PrependASN(ann, n, m, rel) = PrependASN(ann, n, m, rel)
  BY <1>2 DEF InLockStep!PrependASN, PrependASN
<1>5. \A n, b, rel : InLockStep!Export(n, b, rel) = Export(n, b, rel)
  BY <1>2 DEF InLockStep!Export, Export
<1>6. QED BY <1>1, <1>3, <1>4, <1>5

LEMMA LoopsReadAlike ==
  /\ InLockStep!FirstLoop = FirstLoop
  /\ \A l : InLockStep!Processes(l) <=> Processes(l)
  /\ \A l : InLockStep!SentAs(l) = SentAs(l)
  /\ \A g, l : InLockStep!Members(g, l) = Members(g, l)
  /\ \A g, l, n : InLockStep!Receivers(g, l, n) = Receivers(g, l, n)
  /\ \A g, l : InLockStep!NextLoop(g, l) = NextLoop(g, l)
<1>1. \A i, p, r : InLockStep!LoopHead(i, p, r) = LoopHead(i, p, r)
  BY DEF InLockStep!LoopHead, LoopHead
<1>2. \A g : InLockStep!MaxRank(g) = MaxRank(g)
  BY DEF InLockStep!MaxRank, MaxRank
<1>3. \A g, l : InLockStep!NextLoop(g, l) = NextLoop(g, l)
  BY <1>1, <1>2 DEF InLockStep!NextLoop, NextLoop
<1>4. InLockStep!FirstLoop = FirstLoop
  BY <1>1 DEF InLockStep!FirstLoop, FirstLoop
<1>5. /\ \A l : InLockStep!Processes(l) <=> Processes(l)
      /\ \A l : InLockStep!SentAs(l) = SentAs(l)
      /\ \A g, l : InLockStep!Members(g, l) = Members(g, l)
  BY DEF InLockStep!Processes, Processes, InLockStep!SentAs, SentAs, InLockStep!Members, Members
<1>6. \A g, n : InLockStep!Customers(g, n) = Customers(g, n)
  BY DEF InLockStep!Customers, Customers
<1>7. \A g, l, n : InLockStep!Receivers(g, l, n) = Receivers(g, l, n)
  BY <1>6 DEF InLockStep!Receivers, Receivers
<1>8. QED BY <1>3, <1>4, <1>5, <1>7
-----------------------------------------------------------------------------
\* Between two barriers: whose queue is being read, to whom an AS has still to
\* send, and who empties the queue in this loop, did so, and sent.
Reading(n) == \E t \in Thread : Reads(t, n)

Pending(m, n) == \E t \in Thread : Appends(t, n) /\ work[t].node = m

Acts(n) == Processes(loop) /\ n \in Members(graph, loop)

Finished(n) == Acts(n) /\ n \notin todo /\ ~Reading(n)

Delivered(m, n) ==
  /\ m \in Members(graph, loop) \ todo
  /\ ~Reading(m)
  /\ tables[m].best # NoRoute
  /\ n \in Receivers(graph, loop, m)
  /\ ~Pending(m, n)

Now(m) == Export(m, tables[m].best, SentAs(loop))

\* What the loop found: no AS is heard twice, and none that has its turn yet.
BeforeInv ==
  \A n \in ASN :
    /\ Consistent(before.tables[n])
    /\ before.received_queue[n] \in Seq(Announcement)
    /\ OnePerNeighbour(before.received_queue[n])
    /\ \A a \in Elements(before.received_queue[n]) :
         /\ loop.phase # "across"
         /\ loop.phase = "up" => graph.rank[a.next_hop] < loop.rank
         /\ loop.phase = "down" => graph.rank[a.next_hop] > loop.rank

\* The routes of an AS that was at work are those LockStep has it learn.
TableInv(n) ==
  /\ Consistent(tables[n])
  /\ ~Acts(n) \/ n \in todo => tables[n] = before.tables[n]
  /\ Finished(n) => ByNextHop(tables[n].queue) =
       LearnedFrom(ByNextHop(before.tables[n].queue),
                   KeptOf(graph, n, Elements(before.received_queue[n])))

\* Who acts in this loop hears nothing meanwhile; the others hear everybody
\* who is done sending to them once.
HeardInv(n) ==
  /\ received_queue[n] \in Seq(Announcement)
  /\ OnePerNeighbour(received_queue[n])
  /\ Acts(n) => received_queue[n] = IF Finished(n) THEN <<>> ELSE before.received_queue[n]
  /\ ~Acts(n) => Elements(received_queue[n]) =
       Elements(before.received_queue[n]) \cup {Now(m) : m \in {x \in ASN : Delivered(x, n)}}

\* A reader has learnt what is in front of its position, a sender has a route.
ThreadInv(t) ==
  LET n   == work[t].node
      pos == work[t].position
  IN  /\ work[t].step = "process" =>
           /\ pos \in 1..(Len(before.received_queue[n]) + 1)
           /\ ByNextHop(tables[n].queue) =
                LearnedFrom(ByNextHop(before.tables[n].queue),
                            KeptOf(graph, n, UpTo(before.received_queue[n], pos - 1)))
      /\ work[t].step = "send" =>
           /\ tables[n].best # NoRoute
           /\ work[t].batch = Now(n)

LoopInv ==
  /\ ControlInv
  /\ BeforeInv
  /\ DOMAIN tables = ASN
  /\ \A n \in ASN : TableInv(n) /\ HeardInv(n)
  /\ \A t \in Thread : ThreadInv(t)

\* Who is sent to by a loop does not act in it.
LEMMA ReceiversDoNotAct ==
  ASSUME ControlTypes, NEW m \in ASN, m \in Members(graph, loop),
         NEW n \in Receivers(graph, loop, m)
  PROVE  n \in ASN /\ ~Acts(n)
<1>1. /\ n \in ASN
      /\ loop.phase \in {"up", "across", "down"}
      /\ loop.phase = "up" => graph.rank[n] > loop.rank
      /\ loop.phase = "down" => graph.rank[n] < loop.rank
  BY ReceiversElsewhere
<1>2. graph.rank[n] \in Nat /\ loop.rank \in Nat
  BY <1>1 DEF ControlTypes, WellFormed, Graph
<1>3. n \in Members(graph, loop) /\ loop.phase \in {"up", "down"} => graph.rank[n] = loop.rank
  BY DEF Members
<1>4. QED BY <1>1, <1>2, <1>3 DEF Acts, Processes

\* A step of one thread with its AS: it takes the AS, or has it already.
ByThread(t, n, w) ==
  /\ UNCHANGED <<graph, loop, before>>
  /\ work' = [work EXCEPT ![t] = w]
  /\ \/ work[t] = Idle /\ n \in todo /\ todo' = todo \ {n}
     \/ Busy(t) /\ work[t].node = n /\ todo' = todo
  /\ w = Idle \/ (w.step \in {"process", "send"} /\ w.node = n)
  /\ \A k \in ASN \ {n} : tables'[k] = tables[k]

\* It concerns no other AS and no other thread.
LEMMA OwnStep ==
  ASSUME ControlInv, NEW t \in Thread, NEW n \in ASN, NEW w, ByThread(t, n, w)
  PROVE  /\ n \notin todo'
         /\ work'[t] = w
         /\ \A u \in Thread \ {t} : work'[u] = work[u] /\ (Busy(u) => work[u].node # n)
         /\ \A k : Acts(k)' <=> Acts(k)
         /\ Reading(n) <=> work[t].step = "process"
         /\ Reading(n)' <=> w.step = "process"
         /\ \A m : Pending(n, m) <=> work[t].step = "send" /\ m \in work[t].unsent
         /\ \A m : Pending(n, m)' <=> w.step = "send" /\ m \in w.unsent
         /\ \A k \in ASN \ {n} :
              /\ k \in todo' <=> k \in todo
              /\ Finished(k)' <=> Finished(k)
              /\ \A m : Delivered(k, m)' <=> Delivered(k, m)
              /\ Now(k)' = Now(k)
<1> USE DEF ByThread
<1>1. /\ DOMAIN work = Thread
      /\ todo \subseteq Members(graph, loop)
      /\ \A u \in Thread : Busy(u) => work[u].node \notin todo
      /\ \A u, v \in Thread : u # v /\ Busy(u) /\ Busy(v) => work[u].node # work[v].node
  BY DEF ControlInv, ControlTypes, WorkInv
<1>2. /\ work'[t] = w
      /\ \A u \in Thread \ {t} : work'[u] = work[u]
  BY <1>1
<1>3. \A u \in Thread \ {t} : Busy(u) => work[u].node # n
  BY <1>1 DEF Busy
<1>4. n \notin todo' /\ \A k : k # n => (k \in todo' <=> k \in todo)
  BY <1>1
<1>5. \A u : work[u].step \in {"process", "send"} => Busy(u)
  BY StepIsBusy
<1>6. \A u \in Thread \ {t} : work[u].step \in {"process", "send"} => work[u].node # n
  BY <1>3, <1>5
<1>7. /\ Idle.step \notin {"process", "send"}
      /\ work[t].step \in {"process", "send"} => work[t].node = n
      /\ w.step \in {"process", "send"} => w.node = n
  BY <1>5 DEF Idle, Busy
<1>8. /\ Reading(n) <=> work[t].step = "process"
      /\ \A m : Pending(n, m) <=> work[t].step = "send" /\ m \in work[t].unsent
  BY <1>6, <1>7 DEF Reading, Reads, Pending, Appends
<1>9. /\ Reading(n)' <=> w.step = "process"
      /\ \A m : Pending(n, m)' <=> w.step = "send" /\ m \in w.unsent
  BY <1>2, <1>6, <1>7 DEF Reading, Reads, Pending, Appends
<1>10. \A k : k # n => /\ Reading(k)' <=> Reading(k)
                       /\ \A m : Pending(k, m)' <=> Pending(k, m)
  BY <1>2, <1>7 DEF Reading, Reads, Pending, Appends
<1>11. /\ UNCHANGED Members(graph, loop)
       /\ \A k : Acts(k)' <=> Acts(k)
  BY DEF Acts
<1>12. ASSUME NEW k \in ASN \ {n}
       PROVE  /\ Finished(k)' <=> Finished(k)
              /\ \A m : Delivered(k, m)' <=> Delivered(k, m)
              /\ Now(k)' = Now(k)
  BY <1>4, <1>10, <1>11 DEF Finished, Delivered, Now
<1>13. QED BY <1>2, <1>3, <1>4, <1>8, <1>9, <1>11, <1>12

LEMMA OthersKept ==
  ASSUME LoopInv, NEW t \in Thread, NEW n \in ASN, NEW w, ByThread(t, n, w)
  PROVE  /\ \A k \in ASN \ {n} : TableInv(k)'
         /\ \A u \in Thread \ {t} : ThreadInv(u)'
<1>1. ControlInv
  BY DEF LoopInv
<1>2. /\ \A u \in Thread \ {t} : work'[u] = work[u] /\ (Busy(u) => work[u].node # n)
      /\ \A k : Acts(k)' <=> Acts(k)
      /\ \A k \in ASN \ {n} : /\ k \in todo' <=> k \in todo
                              /\ Finished(k)' <=> Finished(k)
                              /\ Now(k)' = Now(k)
  BY <1>1, OwnStep
<1>3. /\ UNCHANGED <<graph, before>>
      /\ \A k \in ASN \ {n} : tables'[k] = tables[k]
  BY DEF ByThread
<1>4. ASSUME NEW k \in ASN \ {n} PROVE TableInv(k)'
  <2>1. TableInv(k)
    BY DEF LoopInv
  <2>2. QED BY <1>2, <1>3, <2>1 DEF TableInv
<1>5. ASSUME NEW u \in Thread \ {t} PROVE ThreadInv(u)'
  <2>1. ThreadInv(u)
    BY DEF LoopInv
  <2>2. CASE work[u].step \in {"process", "send"}
    <3>1. Busy(u)
      BY <2>2, StepIsBusy
    <3>2. work[u].node \in ASN
      <4>1. work[u].node \in Members(graph, loop) /\ loop.phase \in Phases
        BY <1>1, <3>1 DEF ControlInv, ControlTypes, WorkInv
      <4>2. QED BY <4>1, MembersAreASes
    <3>3. QED BY <1>2, <1>3, <2>1, <3>1, <3>2 DEF ThreadInv
  <2>3. CASE work[u].step \notin {"process", "send"}
    BY <1>2, <2>3 DEF ThreadInv
  <2>4. QED BY <2>2, <2>3
<1>6. QED BY <1>4, <1>5

LEMMA QueueKept ==
  ASSUME LoopInv, NEW t \in Thread, NEW n \in ASN, NEW w, ByThread(t, n, w), NEW k \in ASN,
         received_queue'[k] = received_queue[k], Finished(k)' <=> Finished(k),
         ~Delivered(n, k), ~Delivered(n, k)'
  PROVE  HeardInv(k)'
<1>1. ControlInv /\ HeardInv(k)
  BY DEF LoopInv
<1>2. /\ Acts(k)' <=> Acts(k)
      /\ \A m \in ASN \ {n} : (Delivered(m, k)' <=> Delivered(m, k)) /\ Now(m)' = Now(m)
  BY <1>1, OwnStep
<1>3. /\ \A m \in ASN : Delivered(m, k)' <=> Delivered(m, k)
      /\ \A m \in {x \in ASN : Delivered(x, k)} : Now(m)' = Now(m)
  BY <1>2
<1>4. {Now(m) : m \in {x \in ASN : Delivered(x, k)}}'
        = {Now(m) : m \in {x \in ASN : Delivered(x, k)}}
  BY <1>3
<1>5. UNCHANGED before
  BY DEF ByThread
<1>6. QED BY <1>1, <1>2, <1>4, <1>5 DEF HeardInv

\* An AS that starts to send owes its receivers everything.
LEMMA DispatchResult ==
  ASSUME NEW t \in Thread, NEW n, UNCHANGED <<graph, loop, tables>>, work'[t] = Dispatch(n)
  PROVE  /\ Dispatch(n) = Idle \/ (Dispatch(n).step = "send" /\ Dispatch(n).node = n)
         /\ ThreadInv(t)'
         /\ \A m : ~Delivered(n, m)'
<1>1. CASE tables[n].best = NoRoute
  <2>1. Dispatch(n) = Idle
    BY <1>1 DEF Dispatch
  <2>2. QED BY <1>1, <2>1 DEF Delivered, ThreadInv, Idle
<1>2. CASE tables[n].best # NoRoute
  <2> DEFINE batch == Now(n)
             unsent == Receivers(graph, loop, n)
  <2>1. Dispatch(n) = Sending(n, batch, unsent)
    BY <1>2 DEF Dispatch, Now
  <2>2. UNCHANGED <<batch, unsent>>
    BY DEF Now
  <2>3. CASE unsent = {}
    <3>1. Dispatch(n) = Idle
      BY <2>1, <2>3 DEF Sending
    <3>2. QED BY <2>2, <2>3, <3>1 DEF Delivered, ThreadInv, Idle
  <2>4. CASE unsent # {}
    <3> HIDE DEF batch, unsent
    <3>1. Dispatch(n) = [step |-> "send", node |-> n, batch |-> batch, unsent |-> unsent]
      BY <2>1, <2>4 DEF Sending
    <3>2. /\ work'[t].step = "send" /\ work'[t].node = n
          /\ work'[t].batch = batch /\ work'[t].unsent = unsent
      BY <3>1
    <3>3. \A m : m \in unsent => Pending(n, m)'
      BY <3>2 DEF Pending, Appends
    <3>4. \A m : ~Delivered(n, m)'
      BY <2>2, <3>3 DEF Delivered, unsent
    <3>5. ThreadInv(t)'
      BY <1>2, <2>2, <3>2 DEF ThreadInv, batch
    <3>6. QED BY <3>1, <3>4, <3>5
  <2>5. QED BY <2>3, <2>4
<1>3. QED BY <1>1, <1>2

LEMMA BeforeKept == BeforeInv /\ UNCHANGED <<graph, loop, before>> => BeforeInv'
BY DEF BeforeInv

LEMMA TakeKeepsLoop ==
  ASSUME LoopInv, NEW t \in Thread, NEW n \in ASN, Take(t, n)
  PROVE  LoopInv'
<1> DEFINE w == IF Processes(loop) THEN Processing(n, 1) ELSE Dispatch(n)
<1>1. /\ ControlInv /\ BeforeInv /\ TableInv(n)
      /\ DOMAIN work = Thread
      /\ before.received_queue[n] \in Seq(Announcement)
  BY DEF LoopInv, ControlInv, ControlTypes, BeforeInv
<1>2. /\ UNCHANGED <<graph, seeds, loop, received_queue, tables, before>>
      /\ work[t] = Idle /\ n \in todo /\ todo' = todo \ {n}
      /\ work' = [work EXCEPT ![t] = w]
  BY DEF Take
<1>3. work'[t] = w
  BY <1>1, <1>2
<1>4. ~Processes(loop) => /\ w = Idle \/ (w.step = "send" /\ w.node = n)
                          /\ ThreadInv(t)'
                          /\ \A m : ~Delivered(n, m)'
  BY <1>2, <1>3, DispatchResult
<1>5. Processes(loop) => w = [step |-> "process", node |-> n, position |-> 1]
  BY DEF Processing
<1>6. Processes(loop) => w.step = "process" /\ w.node = n /\ w.position = 1
  BY <1>5
<1> HIDE DEF w
<1>7. ByThread(t, n, w)
  BY <1>2, <1>4, <1>6 DEF ByThread
<1>8. /\ n \notin todo'
      /\ Reading(n)' <=> w.step = "process"
      /\ \A k : Acts(k)' <=> Acts(k)
      /\ \A k \in ASN \ {n} : Finished(k)' <=> Finished(k)
  BY <1>1, <1>7, OwnStep
<1>9. ~Finished(n) /\ ~Finished(n)'
  BY <1>2, <1>6, <1>8 DEF Finished, Acts
<1>10. TableInv(n)'
  BY <1>1, <1>2, <1>9 DEF TableInv
<1>11. ThreadInv(t)'
  <2>1. CASE Processes(loop)
    <3>1. UpTo(before.received_queue[n], 0) = {}
      BY DEF UpTo
    <3>2. KeptOf(graph, n, {}) = {}
      BY DEF KeptOf
    <3>3. tables[n] = before.tables[n]
      BY <1>1, <1>2 DEF TableInv
    <3>4. ByNextHop(tables[n].queue) = LearnedFrom(ByNextHop(tables[n].queue), {})
      BY LearnedFromNothing
    <3>5. Len(before.received_queue[n]) \in Nat
      BY <1>1
    <3>6. work'[t].step = "process" /\ work'[t].node = n /\ work'[t].position = 1
      BY <1>3, <1>6, <2>1
    <3>7. 1 - 1 = 0 /\ 1 \in 1..(Len(before.received_queue[n]) + 1)
      BY <3>5
    <3>8. QED BY <1>2, <3>1, <3>2, <3>3, <3>4, <3>6, <3>7 DEF ThreadInv
  <2>2. QED BY <1>4, <2>1
<1>12. \A m : ~Delivered(n, m) /\ ~Delivered(n, m)'
  BY <1>2, <1>4, <1>6, <1>8 DEF Delivered
<1>13. \A k \in ASN : HeardInv(k)'
  BY <1>2, <1>7, <1>8, <1>9, <1>12, QueueKept
<1>14. ControlInv' /\ BeforeInv'
  BY <1>1, <1>2, TakeStep, BeforeKept
<1>15. DOMAIN tables' = ASN
  BY <1>2 DEF LoopInv
<1>16. QED BY <1>7, <1>10, <1>11, <1>13, <1>14, <1>15, OthersKept DEF LoopInv

LEMMA ProcessKeepsLoop ==
  ASSUME LoopInv, NEW t \in Thread, ProcessNext(t), NEW n, n = work[t].node
  PROVE  LoopInv'
<1> DEFINE pos == work[t].position
           old == before.received_queue[n]
           w == Processing(n, pos + 1)
<1>1. /\ ControlInv /\ BeforeInv /\ ThreadInv(t)
      /\ DOMAIN work = Thread /\ loop.phase \in Phases
  BY DEF LoopInv, ControlInv, ControlTypes
<1>2. /\ UNCHANGED <<graph, seeds, loop, todo, received_queue, before>>
      /\ work[t].step = "process" /\ pos <= Len(received_queue[n])
      /\ work' = [work EXCEPT ![t] = w]
      /\ tables' = [tables EXCEPT ![n] = Absorb(graph, n, tables[n], received_queue[n][pos])]
  BY DEF ProcessNext
<1>3. Busy(t) /\ n \in Members(graph, loop) /\ n \notin todo /\ Processes(loop)
  BY <1>1, <1>2, StepIsBusy DEF ControlInv, WorkInv
<1>4. n \in ASN
  BY <1>1, <1>3, MembersAreASes
<1>5. w.step = "process" /\ w.node = n /\ w.position = pos + 1 /\ work'[t] = w
  BY <1>1, <1>2 DEF Processing
<1> HIDE DEF w
<1>6. \A k : k # n => tables'[k] = tables[k]
  BY <1>2
<1>7. ByThread(t, n, w)
  BY <1>2, <1>3, <1>5, <1>6 DEF ByThread
<1>8. /\ Reading(n) /\ Reading(n)'
      /\ \A k : Acts(k)' <=> Acts(k)
      /\ \A k \in ASN \ {n} : Finished(k)' <=> Finished(k)
  BY <1>1, <1>2, <1>4, <1>5, <1>7, OwnStep
<1>9. ~Finished(n) /\ ~Finished(n)' /\ \A m : ~Delivered(n, m) /\ ~Delivered(n, m)'
  BY <1>8 DEF Finished, Delivered
<1>10. /\ old \in Seq(Announcement) /\ OnePerNeighbour(old)
       /\ received_queue[n] = old
       /\ TableInv(n) /\ Acts(n)
  <2>1. HeardInv(n) /\ TableInv(n) /\ Acts(n)
    BY <1>3, <1>4 DEF LoopInv, Acts
  <2>2. QED BY <1>1, <1>4, <1>9, <2>1 DEF BeforeInv, HeardInv
<1> DEFINE new == Absorb(graph, n, tables[n], old[pos])
           routes == ByNextHop(before.tables[n].queue)
<1>11. pos \in 1..Len(old)
       /\ ByNextHop(tables[n].queue) = LearnedFrom(routes, KeptOf(graph, n, UpTo(old, pos - 1)))
  <2>1. Len(old) \in Nat
    BY <1>10
  <2>2. QED BY <1>1, <1>2, <1>10, <2>1 DEF ThreadInv
<1>12. /\ Consistent(new)
       /\ ByNextHop(new.queue) = LearnedFrom(routes, KeptOf(graph, n, UpTo(old, pos)))
  <2>1. Consistent(tables[n])
    BY <1>10 DEF TableInv
  <2> HIDE DEF old, routes
  <2>2. QED BY <1>4, <1>10, <1>11, <2>1, AbsorbLearns
<1>13. tables'[n] = new
  BY <1>2, <1>4, <1>10 DEF LoopInv, ControlInv, ControlTypes
<1>14. TableInv(n)'
  <2> HIDE DEF new
  <2>1. QED BY <1>2, <1>3, <1>8, <1>9, <1>10, <1>12, <1>13 DEF TableInv
<1>15. ThreadInv(t)'
  <2>1. /\ pos \in Nat /\ Len(old) \in Nat /\ pos + 1 - 1 = pos
        /\ pos + 1 \in 1..(Len(old) + 1)
    <3>1. Len(old) \in Nat /\ pos \in 1..Len(old)
      BY <1>10, <1>11
    <3> HIDE DEF pos, old
    <3>2. QED BY <3>1
  <2>2. /\ work'[t].step = "process" /\ work'[t].node = n /\ work'[t].position = pos + 1
        /\ UNCHANGED <<graph, before>>
    BY <1>2, <1>5
  <2> HIDE DEF new, pos
  <2>3. QED BY <1>12, <1>13, <2>1, <2>2 DEF ThreadInv
<1>16. \A k \in ASN : HeardInv(k)'
  BY <1>2, <1>4, <1>7, <1>8, <1>9, QueueKept
<1>17. ControlInv' /\ BeforeInv'
  BY <1>1, <1>2, ProcessStep, BeforeKept
<1>18. DOMAIN tables' = ASN
  BY <1>2 DEF LoopInv
<1>19. QED BY <1>4, <1>7, <1>14, <1>15, <1>16, <1>17, <1>18, OthersKept DEF LoopInv

LEMMA ClearKeepsLoop ==
  ASSUME LoopInv, NEW t \in Thread, ClearQueue(t), NEW n, n = work[t].node
  PROVE  LoopInv'
<1> DEFINE pos == work[t].position
           old == before.received_queue[n]
           w == Dispatch(n)
<1>1. /\ ControlInv /\ BeforeInv /\ ThreadInv(t)
      /\ DOMAIN work = Thread /\ loop.phase \in Phases
      /\ DOMAIN received_queue = ASN
  BY DEF LoopInv, ControlInv, ControlTypes
<1>2. /\ UNCHANGED <<graph, seeds, loop, todo, tables, before>>
      /\ work[t].step = "process" /\ pos > Len(received_queue[n])
      /\ work' = [work EXCEPT ![t] = w]
      /\ received_queue' = [received_queue EXCEPT ![n] = <<>>]
  BY DEF ClearQueue
<1>3. Busy(t) /\ n \in Members(graph, loop) /\ n \notin todo /\ Processes(loop)
  BY <1>1, <1>2, StepIsBusy DEF ControlInv, WorkInv
<1>4. n \in ASN
  BY <1>1, <1>3, MembersAreASes
<1>5. work'[t] = Dispatch(n)
  BY <1>1, <1>2
<1>6. /\ w = Idle \/ (w.step = "send" /\ w.node = n)
      /\ ThreadInv(t)'
      /\ \A m : ~Delivered(n, m)'
  BY <1>2, <1>5, DispatchResult
<1> HIDE DEF w
<1>7. ByThread(t, n, w)
  BY <1>2, <1>3, <1>6 DEF ByThread
<1>8. w.step # "process"
  BY <1>6 DEF Idle
<1>9. /\ Reading(n) /\ ~Reading(n)'
      /\ \A k : Acts(k)' <=> Acts(k)
      /\ \A k \in ASN \ {n} : Finished(k)' <=> Finished(k)
  BY <1>1, <1>2, <1>4, <1>7, <1>8, OwnStep
<1>10. /\ ~Finished(n) /\ Finished(n)' /\ Acts(n) /\ Acts(n)'
       /\ \A m : ~Delivered(n, m) /\ ~Delivered(n, m)'
  BY <1>2, <1>3, <1>6, <1>9 DEF Finished, Delivered, Acts
<1>11. /\ old \in Seq(Announcement)
       /\ received_queue[n] = old
       /\ TableInv(n)
  <2>1. HeardInv(n) /\ TableInv(n)
    BY <1>4 DEF LoopInv
  <2>2. QED BY <1>1, <1>4, <1>10, <2>1 DEF BeforeInv, HeardInv
<1>12. TableInv(n)'
  <2>1. pos - 1 = Len(old)
    <3>1. Len(old) \in Nat /\ pos \in 1..(Len(old) + 1) /\ pos > Len(old)
      BY <1>1, <1>2, <1>11 DEF ThreadInv
    <3>2. QED BY <3>1
  <2>2. UpTo(old, Len(old)) = Elements(old)
    BY <1>11 DEF UpTo, Elements
  <2>3. ByNextHop(tables[n].queue)
          = LearnedFrom(ByNextHop(before.tables[n].queue), KeptOf(graph, n, Elements(old)))
    BY <1>1, <1>2, <2>1, <2>2 DEF ThreadInv
  <2>4. QED BY <1>2, <1>3, <1>10, <1>11, <2>3 DEF TableInv
<1>13. HeardInv(n)'
  <2>1. received_queue'[n] = <<>>
    BY <1>1, <1>2, <1>4
  <2>2. QED BY <1>10, <2>1 DEF HeardInv, OnePerNeighbour
<1>14. \A k \in ASN \ {n} : HeardInv(k)'
  <2>1. \A k \in ASN \ {n} : received_queue'[k] = received_queue[k]
    BY <1>1, <1>2
  <2>2. QED BY <1>4, <1>7, <1>9, <1>10, <2>1, QueueKept
<1>15. /\ ControlInv' /\ BeforeInv'
       /\ DOMAIN tables' = ASN
  BY <1>1, <1>2, ClearStep, BeforeKept DEF LoopInv
<1>16. QED BY <1>4, <1>6, <1>7, <1>12, <1>13, <1>14, <1>15, OthersKept DEF LoopInv

\* What an AS sends is an announcement of its own.
LEMMA NowResult ==
  ASSUME NEW n \in ASN, Consistent(tables[n]), tables[n].best # NoRoute
  PROVE  Now(n) \in Announcement /\ Now(n).next_hop = n
<1>1. tables[n].best \in Announcement
  BY ConsistentBest
<1>2. SentAs(loop) \in Relationship
  BY DEF SentAs, Relationship
<1>3. QED BY <1>1, <1>2, ExportResult DEF Now

LEMMA AppendResult ==
  ASSUME NEW queue \in Seq(Announcement), OnePerNeighbour(queue), NEW ann \in Announcement,
         \A a \in Elements(queue) : a.next_hop # ann.next_hop
  PROVE  /\ Append(queue, ann) \in Seq(Announcement)
         /\ OnePerNeighbour(Append(queue, ann))
         /\ Elements(Append(queue, ann)) = Elements(queue) \cup {ann}
<1> DEFINE new == Append(queue, ann)
<1>1. /\ Len(queue) \in Nat /\ DOMAIN queue = 1..Len(queue)
      /\ new \in Seq(Announcement) /\ DOMAIN new = 1..(Len(queue) + 1)
      /\ \A k \in DOMAIN queue : new[k] = queue[k]
      /\ new[Len(queue) + 1] = ann
  OBVIOUS
<1> HIDE DEF new
<1>2. \A k \in DOMAIN queue : queue[k].next_hop # ann.next_hop
  BY DEF Elements
<1>3. OnePerNeighbour(new)
  BY <1>1, <1>2 DEF OnePerNeighbour
<1>4. Elements(new) = Elements(queue) \cup {ann}
  BY <1>1 DEF Elements
<1>5. QED BY <1>1, <1>3, <1>4 DEF new

LEMMA SendKeepsLoop ==
  ASSUME LoopInv, NEW t \in Thread, NEW m \in ASN, Send(t, m), NEW n, n = work[t].node
  PROVE  LoopInv'
<1> DEFINE batch == work[t].batch
           unsent == work[t].unsent
           w == Sending(n, batch, unsent \ {m})
<1>1. /\ ControlInv /\ BeforeInv /\ ThreadInv(t) /\ ControlTypes
      /\ DOMAIN work = Thread /\ loop.phase \in Phases
      /\ DOMAIN received_queue = ASN
  BY DEF LoopInv, ControlInv, ControlTypes
<1>2. /\ UNCHANGED <<graph, seeds, loop, todo, tables, before>>
      /\ work[t].step = "send" /\ m \in unsent
      /\ work' = [work EXCEPT ![t] = w]
      /\ received_queue' = [received_queue EXCEPT ![m] = Append(@, batch)]
  BY DEF Send
<1>3. /\ Busy(t) /\ n \in Members(graph, loop) /\ n \notin todo
      /\ unsent \subseteq Receivers(graph, loop, n)
  BY <1>1, <1>2, StepIsBusy DEF ControlInv, WorkInv
<1>4. n \in ASN
  BY <1>1, <1>3, MembersAreASes
<1>5. \/ w = Idle /\ unsent \ {m} = {}
      \/ w.step = "send" /\ w.node = n /\ w.batch = batch /\ w.unsent = unsent \ {m}
  BY DEF Sending
<1>6. tables[n].best # NoRoute /\ batch = Now(n)
  BY <1>1, <1>2 DEF ThreadInv
<1> HIDE DEF w
<1>7. ByThread(t, n, w)
  BY <1>2, <1>3, <1>5 DEF ByThread
<1>8. w.step # "process" /\ \A k : (w.step = "send" /\ k \in w.unsent <=> k \in unsent \ {m})
  BY <1>5 DEF Idle
<1>9. /\ work'[t] = w
      /\ ~Reading(n) /\ ~Reading(n)'
      /\ \A k : Pending(n, k) <=> k \in unsent
      /\ \A k : Pending(n, k)' <=> k \in unsent \ {m}
      /\ \A k : Acts(k)' <=> Acts(k)
      /\ \A k \in ASN \ {n} : /\ Finished(k)' <=> Finished(k)
                              /\ \A x : Delivered(k, x)' <=> Delivered(k, x)
  BY <1>1, <1>2, <1>4, <1>7, <1>8, OwnStep
<1>10. /\ ~Delivered(n, m) /\ Delivered(n, m)'
       /\ \A k : k # m => (Delivered(n, k)' <=> Delivered(n, k))
       /\ Finished(n)' <=> Finished(n)
  BY <1>2, <1>3, <1>6, <1>9 DEF Delivered, Finished
<1>11. \A x : Now(x)' = Now(x)
  BY <1>2 DEF Now
<1>12. TableInv(n)'
  BY <1>2, <1>4, <1>9, <1>10 DEF LoopInv, TableInv
<1>13. ThreadInv(t)'
  BY <1>2, <1>5, <1>6, <1>9, <1>11 DEF ThreadInv, Idle
<1>14. ASSUME NEW k \in ASN, k # m PROVE HeardInv(k)'
  <2>1. received_queue'[k] = received_queue[k]
    BY <1>1, <1>2, <1>14
  <2>2. \A x \in ASN : Delivered(x, k)' <=> Delivered(x, k)
    BY <1>9, <1>10, <1>14
  <2>3. {Now(x) : x \in {y \in ASN : Delivered(y, k)}}'
          = {Now(x) : x \in {y \in ASN : Delivered(y, k)}}
    BY <1>11, <2>2
  <2>4. HeardInv(k) /\ (Finished(k)' <=> Finished(k))
    BY <1>4, <1>9, <1>10 DEF LoopInv
  <2>5. QED BY <1>2, <1>9, <2>1, <2>3, <2>4 DEF HeardInv
<1>15. HeardInv(m)'
  <2>1. ~Acts(m) /\ HeardInv(m)
    BY <1>1, <1>2, <1>3, <1>4, ReceiversDoNotAct DEF LoopInv
  <2>2. \A x \in ASN : Delivered(x, m) => Now(x) \in Announcement /\ Now(x).next_hop = x
    BY NowResult DEF LoopInv, TableInv, Delivered
  <2>3. batch \in Announcement /\ batch.next_hop = n
    BY <1>4, <1>6, NowResult DEF LoopInv, TableInv
  <2>4. \A a \in Elements(before.received_queue[m]) : a.next_hop # n
    <3>1. loop.phase \in {"up", "across", "down"}
      BY <1>1, <1>2, <1>3, <1>4, ReceiversElsewhere
    <3>2. loop.phase \in {"up", "down"} => graph.rank[n] = loop.rank
      BY <1>3 DEF Members
    <3>3. graph.rank[n] \in Nat
      BY <1>1, <1>4 DEF ControlTypes, WellFormed, Graph
    <3>4. QED BY <1>1, <3>1, <3>2, <3>3 DEF BeforeInv
  <2>5. \A a \in Elements(received_queue[m]) : a.next_hop # n
    <3>1. \A a \in Elements(received_queue[m]) :
            \/ a \in Elements(before.received_queue[m])
            \/ \E x \in ASN : Delivered(x, m) /\ a = Now(x)
      BY <2>1 DEF HeardInv
    <3>2. QED BY <1>10, <2>2, <2>4, <3>1
  <2>6. received_queue'[m] = Append(received_queue[m], batch)
    BY <1>1, <1>2
  <2>7. /\ received_queue'[m] \in Seq(Announcement)
        /\ OnePerNeighbour(received_queue'[m])
        /\ Elements(received_queue'[m]) = Elements(received_queue[m]) \cup {batch}
    BY <2>1, <2>3, <2>5, <2>6, AppendResult DEF HeardInv
  <2>8. \A x \in ASN : Delivered(x, m)' <=> Delivered(x, m) \/ x = n
    BY <1>9, <1>10
  <2>9. {Now(x) : x \in {y \in ASN : Delivered(y, m)}}'
          = {Now(x) : x \in {y \in ASN : Delivered(y, m)}} \cup {batch}
    BY <1>4, <1>6, <1>11, <2>8
  <2>10. QED BY <1>2, <1>9, <2>1, <2>7, <2>9 DEF HeardInv
<1>16. /\ ControlInv' /\ BeforeInv'
       /\ DOMAIN tables' = ASN
  BY <1>1, <1>2, SendStep, BeforeKept DEF LoopInv
<1>17. QED BY <1>4, <1>7, <1>12, <1>13, <1>14, <1>15, <1>16, OthersKept DEF LoopInv

\* At the end of a loop, whoever had to act did, and whoever had to send did.
LEMMA BarrierSeesAll ==
  ASSUME LoopInv, Barrier, NEW n \in ASN
  PROVE  /\ Finished(n) <=> Acts(n)
         /\ \A m : Delivered(m, n) <=> /\ m \in Members(graph, loop)
                                       /\ tables[m].best # NoRoute
                                       /\ n \in Receivers(graph, loop, m)
         /\ Acts(n) => received_queue[n] = <<>>
         /\ ~Acts(n) => Elements(received_queue[n]) =
              Elements(before.received_queue[n]) \cup {Now(m) : m \in {x \in ASN : Delivered(x, n)}}
<1>1. todo = {} /\ \A t \in Thread : work[t] = Idle
  BY DEF Barrier
<1>2. \A m, k : ~Reading(m) /\ ~Pending(m, k)
  BY <1>1 DEF Reading, Reads, Pending, Appends, Idle
<1>3. /\ Finished(n) <=> Acts(n)
      /\ \A m : Delivered(m, n) <=> /\ m \in Members(graph, loop)
                                    /\ tables[m].best # NoRoute
                                    /\ n \in Receivers(graph, loop, m)
  BY <1>1, <1>2 DEF Finished, Delivered
<1>4. HeardInv(n)
  BY DEF LoopInv
<1>5. QED BY <1>3, <1>4 DEF HeardInv

\* Who is heard at a barrier had its turn before the next loop.
LEMMA BarrierKeepsTurn ==
  ASSUME LoopInv, Barrier, NEW n \in ASN, NEW a \in Elements(received_queue[n])
  PROVE  /\ loop'.phase # "across"
         /\ loop'.phase = "up" => graph.rank[a.next_hop] < loop'.rank
         /\ loop'.phase = "down" => graph.rank[a.next_hop] > loop'.rank
<1>1. /\ ControlInv /\ BeforeInv /\ WellFormed(graph) /\ loop.phase \in Phases /\ loop.rank \in Nat
      /\ loop.phase # "done" /\ loop' = NextLoop(graph, loop)
      /\ todo = {} /\ \A t \in Thread : work[t] = Idle
      /\ received_queue[n] \in Seq(Announcement)
  BY DEF LoopInv, ControlInv, ControlTypes, Barrier, HeardInv
<1>2. received_queue[n] # <<>>
  BY DEF Elements
<1>3. /\ ~Acts(n)
      /\ Elements(received_queue[n]) =
           Elements(before.received_queue[n]) \cup {Now(m) : m \in {x \in ASN : Delivered(x, n)}}
  BY <1>2, BarrierSeesAll
<1>4. loop.phase \in {"up", "across", "down"}
  BY <1>1, <1>3 DEF Acts, Processes, Members, Phases
<1>5. /\ MaxRank(graph) \in Nat
      /\ \A k \in ASN : graph.rank[k] \in Nat
  BY <1>1, MaxRankType DEF WellFormed, Graph
<1>6. a.next_hop \in ASN
  <2>1. a \in Announcement
    BY <1>1 DEF Elements
  <2>2. QED BY <2>1 DEF Announcement
<1>7. a \in Elements(before.received_queue[n]) \/ a.next_hop \in Members(graph, loop)
  <2>1. ASSUME NEW x \in ASN, Delivered(x, n) PROVE Now(x).next_hop \in Members(graph, loop)
    <3>1. Consistent(tables[x]) /\ tables[x].best # NoRoute /\ x \in Members(graph, loop)
      BY <2>1 DEF LoopInv, TableInv, Delivered
    <3>2. QED BY <3>1, NowResult
  <2>2. QED BY <1>3, <2>1
<1>8. /\ loop.phase = "up" => graph.rank[a.next_hop] <= loop.rank
      /\ loop.phase = "down" => graph.rank[a.next_hop] >= loop.rank
  BY <1>1, <1>5, <1>6, <1>7 DEF BeforeInv, Members
<1>9. CASE loop.phase = "up"
  <2>1. \/ loop' = LoopHead(loop.iteration, "up", loop.rank + 1)
        \/ loop' = LoopHead(loop.iteration, "drain", 0)
    BY <1>1, <1>5, <1>9 DEF NextLoop
  <2>2. QED BY <1>1, <1>5, <1>6, <1>8, <1>9, <2>1 DEF LoopHead
<1>10. CASE loop.phase = "across"
  <2>1. loop' = LoopHead(loop.iteration, "settle", 0)
    BY <1>1, <1>10 DEF NextLoop
  <2>2. QED BY <2>1 DEF LoopHead
<1>11. CASE loop.phase = "down"
  <2>1. loop.rank > 0
    <3>1. ~ToBeEmptied(n)
      BY <1>1 DEF ToBeEmptied, Reads, Idle
    <3>2. graph.rank[n] < loop.rank
      BY <1>1, <1>2, <1>11, <3>1 DEF ControlInv, QueueInv
    <3>3. QED BY <1>1, <1>5, <3>2
  <2>2. loop' = LoopHead(loop.iteration, "down", loop.rank - 1)
    BY <1>1, <1>11, <2>1 DEF NextLoop
  <2>3. QED BY <1>1, <1>5, <1>6, <1>8, <1>11, <2>2 DEF LoopHead
<1>12. QED BY <1>4, <1>9, <1>10, <1>11

LEMMA NothingByNextHop == ByNextHop(<<>>) = <<>>
BY DEF ByNextHop, NextHops

\* A seeded table holds the AS's own route, if that is let in.
LEMMA SeededTable ==
  ASSUME NEW g, NEW s, NEW n \in ASN
  PROVE  LET table == Seeded(g, s, n)
         IN  /\ Consistent(table)
             /\ ByNextHop(table.queue) = IF table.best = NoRoute THEN <<>>
                                         ELSE Remember(<<>>, table.best)
<1> DEFINE ann == MakeAnnouncement(<<n>>, n, "ORIGIN", s[n] = "invalid")
<1>1. ann \in Announcement
  <2>1. <<n>> \in Path
    BY MaxPathLenAssumption DEF Path
  <2>2. QED BY <2>1 DEF MakeAnnouncement, Announcement, Relationship
<1>2. ann # NoRoute
  BY <1>1, NoRouteAssumption
<1>3. Consistent(EmptyTable) /\ EmptyTable.best = NoRoute /\ EmptyTable.queue = <<>>
  BY DEF Consistent, EmptyTable, OnePerNeighbour, BestIsSelection
<1>4. Receive(EmptyTable, ann).best = ann /\ Receive(EmptyTable, ann).queue = Store(<<>>, ann)
  BY <1>3 DEF Receive
<1>5. Seeded(g, s, n) \in {EmptyTable, Receive(EmptyTable, ann)}
  BY DEF Seeded, Admit
<1> HIDE DEF ann
<1>6. Consistent(Receive(EmptyTable, ann))
  BY <1>1, <1>3, ReceiveKeepsConsistent
<1>7. ByNextHop(Store(<<>>, ann)) = Remember(<<>>, ann)
  <2>1. <<>> \in Seq(Announcement) /\ OnePerNeighbour(<<>>)
    BY DEF OnePerNeighbour
  <2>2. QED BY <1>1, <2>1, StoreIsRemember, NothingByNextHop
<1>8. QED BY <1>2, <1>3, <1>4, <1>5, <1>6, <1>7, NothingByNextHop

\* The best route of a table is the most preferred of those it has by neighbour.
LEMMA BestIsMostPreferred ==
  ASSUME NEW table, Consistent(table)
  PROVE  LET routes == ByNextHop(table.queue)
         IN  table.best = MostPreferred({routes[m] : m \in DOMAIN routes})
<1> DEFINE routes == ByNextHop(table.queue)
<1>1. CASE table.queue = <<>>
  <2>1. DOMAIN routes = {}
    BY <1>1 DEF ByNextHop, NextHops
  <2>2. MostPreferred({routes[m] : m \in DOMAIN routes}) = NoRoute
    BY <2>1 DEF MostPreferred
  <2>3. table.best = NoRoute
    BY <1>1 DEF Consistent, BestIsSelection
  <2>4. QED BY <2>2, <2>3
<1>2. CASE table.queue # <<>>
  BY <1>2, MostPreferredIsSelected DEF Consistent, BestIsSelection
<1>3. QED BY <1>1, <1>2

LEMMA InitLoop == Init => LoopInv
<1>1. SUFFICES ASSUME Init PROVE LoopInv
  OBVIOUS
<1>2. ControlInv
  BY <1>1, ControlInit
<1>3. /\ loop = FirstLoop /\ todo = Members(graph, FirstLoop)
      /\ \A t \in Thread : work[t] = Idle
      /\ before = [received_queue |-> received_queue, tables |-> tables]
      /\ \A n \in ASN : received_queue[n] = <<>> /\ tables[n] = Seeded(graph, seeds, n)
      /\ DOMAIN tables = ASN
  BY <1>1 DEF Init
<1>4. \A n \in ASN : Consistent(tables[n])
  BY <1>3, SeededTable
<1>5. <<>> \in Seq(Announcement) /\ OnePerNeighbour(<<>>) /\ Elements(<<>>) = {}
  BY DEF OnePerNeighbour, Elements
<1>6. BeforeInv
  <2>1. before.received_queue = received_queue /\ before.tables = tables
    BY <1>3
  <2>2. QED BY <1>3, <1>4, <1>5, <2>1 DEF BeforeInv
<1>7. /\ \A n \in ASN : TableInv(n) /\ HeardInv(n)
      /\ \A t \in Thread : ThreadInv(t)
  <2>1. before.received_queue = received_queue /\ before.tables = tables
    BY <1>3
  <2>2. \A n : ~Finished(n) /\ \A m : ~Delivered(m, n)
    BY <1>3 DEF Finished, Acts, Delivered
  <2>3. ASSUME NEW n \in ASN PROVE TableInv(n) /\ HeardInv(n)
    BY <1>3, <1>4, <1>5, <2>1, <2>2 DEF TableInv, HeardInv
  <2>4. \A t \in Thread : ThreadInv(t)
    BY <1>3 DEF ThreadInv, Idle
  <2>5. QED BY <2>3, <2>4
<1>8. QED BY <1>2, <1>3, <1>6, <1>7 DEF LoopInv

LEMMA BarrierKeepsLoop == LoopInv /\ Barrier => LoopInv'
<1>1. SUFFICES ASSUME LoopInv, Barrier PROVE LoopInv'
  OBVIOUS
<1>2. /\ todo' = Members(graph', loop')
      /\ \A t \in Thread : work'[t] = Idle
      /\ before' = [received_queue |-> received_queue', tables |-> tables']
      /\ UNCHANGED <<graph, received_queue, tables>>
  BY <1>1 DEF Barrier
<1>3. ControlInv'
  BY <1>1, BarrierStep DEF LoopInv
<1>4. \A n \in ASN : /\ Consistent(tables'[n])
                     /\ received_queue'[n] \in Seq(Announcement)
                     /\ OnePerNeighbour(received_queue'[n])
  BY <1>1, <1>2 DEF LoopInv, TableInv, HeardInv
<1>5. before'.received_queue = received_queue /\ before'.tables = tables
  BY <1>2
<1>6. BeforeInv'
  BY <1>1, <1>2, <1>4, <1>5, BarrierKeepsTurn DEF BeforeInv
<1>7. (\A n \in ASN : TableInv(n) /\ HeardInv(n))' /\ (\A t \in Thread : ThreadInv(t))'
  <2>1. before'.received_queue = received_queue' /\ before'.tables = tables'
    BY <1>2
  <2>2. \A n : ~Finished(n)' /\ \A m : ~Delivered(m, n)'
    BY <1>2 DEF Finished, Acts, Delivered
  <2>3. ASSUME NEW n \in ASN PROVE TableInv(n)' /\ HeardInv(n)'
    BY <1>4, <2>1, <2>2 DEF TableInv, HeardInv
  <2>4. \A t \in Thread : ThreadInv(t)'
    BY <1>2 DEF ThreadInv, Idle
  <2>5. QED BY <2>3, <2>4
<1>8. DOMAIN tables' = ASN
  BY <1>1, <1>2 DEF LoopInv
<1>9. QED BY <1>3, <1>6, <1>7, <1>8 DEF LoopInv

LEMMA StutterKeepsLoop == LoopInv /\ UNCHANGED vars => LoopInv'
<1>1. SUFFICES ASSUME LoopInv, UNCHANGED vars PROVE LoopInv'
  OBVIOUS
<1>2. UNCHANGED <<graph, seeds, loop, todo, work, received_queue, tables, before>>
  BY <1>1 DEF vars
<1>3. ControlInv' /\ BeforeInv' /\ DOMAIN tables' = ASN
  BY <1>1, <1>2, ControlStutter, BeforeKept DEF LoopInv
<1>4. /\ \A n : (Acts(n)' <=> Acts(n)) /\ (Finished(n)' <=> Finished(n)) /\ Now(n)' = Now(n)
      /\ \A m, n : Delivered(m, n)' <=> Delivered(m, n)
  BY <1>2 DEF Acts, Finished, Reading, Reads, Delivered, Pending, Appends, Now
<1>5. ASSUME NEW n \in ASN PROVE TableInv(n)' /\ HeardInv(n)'
  <2>1. {Now(m) : m \in {x \in ASN : Delivered(x, n)}}'
          = {Now(m) : m \in {x \in ASN : Delivered(x, n)}}
    BY <1>4
  <2>2. TableInv(n) /\ HeardInv(n)
    BY <1>1 DEF LoopInv
  <2>3. QED BY <1>2, <1>4, <2>1, <2>2 DEF TableInv, HeardInv
<1>6. ASSUME NEW t \in Thread PROVE ThreadInv(t)'
  BY <1>1, <1>2, <1>4 DEF LoopInv, ThreadInv
<1>7. QED BY <1>3, <1>5, <1>6 DEF LoopInv

LEMMA LoopInvariant == Spec => []LoopInv
<1>1. LoopInv /\ [Next]_vars => LoopInv'
  <2>1. SUFFICES ASSUME LoopInv, [Next]_vars PROVE LoopInv'
    OBVIOUS
  <2>2. ASSUME NEW t \in Thread, NEW n \in ASN, Take(t, n) PROVE LoopInv'
    BY <2>1, <2>2, TakeKeepsLoop
  <2>3. ASSUME NEW t \in Thread, ProcessNext(t) PROVE LoopInv'
    BY <2>1, <2>3, ProcessKeepsLoop
  <2>4. ASSUME NEW t \in Thread, ClearQueue(t) PROVE LoopInv'
    BY <2>1, <2>4, ClearKeepsLoop
  <2>5. ASSUME NEW t \in Thread, NEW m \in ASN, Send(t, m) PROVE LoopInv'
    BY <2>1, <2>5, SendKeepsLoop
  <2>6. CASE Barrier
    BY <2>1, <2>6, BarrierKeepsLoop
  <2>7. CASE UNCHANGED vars
    BY <2>1, <2>7, StutterKeepsLoop
  <2>8. QED BY <2>1, <2>2, <2>3, <2>4, <2>5, <2>6, <2>7 DEF Next, ThreadStep
<1>2. QED BY <1>1, InitLoop, PTL DEF Spec

\* What LockStep has an AS learn in the loop that runs.
LEMMA LearnReadsAlike ==
  ASSUME NEW n \in ASN
  PROVE  /\ InLockStep!Acting = IF Processes(loop) THEN Members(graph, loop) ELSE {}
         /\ InLockStep!Learn(n) =
              LearnedFrom(ByNextHop(before.tables[n].queue),
                          KeptOf(graph, n, Elements(before.received_queue[n])))
<1> DEFINE routes == [k \in ASN |-> ByNextHop(before.tables[k].queue)]
           heard == [k \in ASN |-> Elements(before.received_queue[k])]
<1>1. InLockStep!Acting = IF Processes(loop) THEN Members(graph, loop) ELSE {}
  BY LoopsReadAlike DEF InLockStep!Acting
<1>2. InLockStep!Kept(n) = KeptOf(graph, n, heard[n])
  BY RoutesReadAlike DEF InLockStep!Kept, KeptOf, LetIn
<1>3. InLockStep!Learn(n) = LearnedFrom(routes[n], InLockStep!Kept(n))
  BY DEF InLockStep!Learn, LearnedFrom
<1>4. routes[n] = ByNextHop(before.tables[n].queue) /\ heard[n] = Elements(before.received_queue[n])
  OBVIOUS
<1> HIDE DEF routes, heard
<1>5. QED BY <1>1, <1>2, <1>3, <1>4

\* What an AS hears in a loop is what its neighbours use by its end.
LEMMA BarrierHeard ==
  ASSUME LoopInv, Barrier, NEW n \in ASN
  PROVE  Elements(received_queue[n]) =
           (IF Acts(n) THEN {} ELSE Elements(before.received_queue[n]))
             \cup {Now(m) : m \in {a \in Members(graph, loop) :
                      n \in Receivers(graph, loop, a) /\ tables[a].best # NoRoute}}
<1> DEFINE senders == {a \in Members(graph, loop) :
                         n \in Receivers(graph, loop, a) /\ tables[a].best # NoRoute}
<1>1. ControlTypes /\ Members(graph, loop) \subseteq ASN
  BY MembersAreASes DEF LoopInv, ControlInv, ControlTypes
<1>2. {x \in ASN : Delivered(x, n)} = senders
  BY <1>1, BarrierSeesAll
<1>3. Acts(n) => senders = {}
  BY <1>1, ReceiversDoNotAct
<1>4. Elements(<<>>) = {}
  BY DEF Elements
<1>5. CASE Acts(n)
  <2>1. {Now(m) : m \in senders} = {}
    BY <1>3, <1>5
  <2>2. QED BY <1>4, <1>5, <2>1, BarrierSeesAll
<1>6. CASE ~Acts(n)
  <2> HIDE DEF senders
  <2>1. Elements(received_queue[n]) =
          Elements(before.received_queue[n]) \cup {Now(m) : m \in {x \in ASN : Delivered(x, n)}}
    BY <1>6, BarrierSeesAll
  <2>2. QED BY <1>2, <1>6, <2>1 DEF senders
<1>7. QED BY <1>5, <1>6

LEMMA BarrierIsStep == LoopInv /\ Barrier => InLockStep!Step
<1>1. SUFFICES ASSUME LoopInv, Barrier PROVE InLockStep!Step
  OBVIOUS
<1> DEFINE heard  == [n \in ASN |-> Elements(before.received_queue[n])]
           routes == [n \in ASN |-> ByNextHop(before.tables[n].queue)]
           best   == [n \in ASN |-> before.tables[n].best]
<1>2. /\ loop.phase # "done" /\ todo = {}
      /\ loop' = InLockStep!NextLoop(graph, loop)
      /\ before' = [received_queue |-> received_queue, tables |-> tables]
      /\ UNCHANGED <<graph, seeds>>
  BY <1>1, LoopsReadAlike DEF Barrier
<1>3. before'.received_queue = received_queue /\ before'.tables = tables
  BY <1>2
<1>4. /\ heard'  = [n \in ASN |-> Elements(received_queue[n])]
      /\ routes' = [n \in ASN |-> ByNextHop(tables[n].queue)]
      /\ best'   = [n \in ASN |-> tables[n].best]
  BY <1>3
<1>5. routes' = [n \in ASN |-> IF n \in InLockStep!Acting THEN InLockStep!Learn(n) ELSE routes[n]]
  <2>1. ASSUME NEW n \in ASN
        PROVE  ByNextHop(tables[n].queue)
                 = IF n \in InLockStep!Acting THEN InLockStep!Learn(n) ELSE routes[n]
    <3>1. TableInv(n) /\ (n \in InLockStep!Acting <=> Acts(n))
      BY <1>1, LearnReadsAlike DEF LoopInv, Acts
    <3>2. CASE Acts(n)
      <4>1. Finished(n)
        BY <1>1, <3>2, BarrierSeesAll
      <4>2. QED BY <3>1, <3>2, <4>1, LearnReadsAlike DEF TableInv
    <3>3. CASE ~Acts(n)
      BY <3>1, <3>3 DEF TableInv
    <3>4. QED BY <3>2, <3>3
  <2> HIDE DEF routes
  <2>2. QED BY <1>4, <2>1
<1>6. best' = [n \in ASN |-> InLockStep!MostPreferred({routes'[n][m] : m \in DOMAIN routes'[n]})]
  <2>1. ASSUME NEW n \in ASN
        PROVE  tables[n].best
                 = InLockStep!MostPreferred({routes'[n][m] : m \in DOMAIN routes'[n]})
    <3>1. routes'[n] = ByNextHop(tables[n].queue)
      BY <1>4
    <3>2. Consistent(tables[n])
      BY <1>1 DEF LoopInv, TableInv
    <3> HIDE DEF routes
    <3>3. tables[n].best = MostPreferred({routes'[n][m] : m \in DOMAIN routes'[n]})
      BY <3>1, <3>2, BestIsMostPreferred
    <3>4. QED BY <3>3, RoutesReadAlike
  <2> HIDE DEF best, routes
  <2>2. QED BY <1>4, <2>1
<1>7. heard' = [n \in ASN |->
         (IF n \in InLockStep!Acting THEN {} ELSE heard[n])
           \cup {InLockStep!Export(m, best'[m], InLockStep!SentAs(loop)) :
                   m \in {a \in InLockStep!Members(graph, loop) :
                            n \in InLockStep!Receivers(graph, loop, a) /\ best'[a] # NoRoute}}]
  <2>1. ASSUME NEW n \in ASN
        PROVE  Elements(received_queue[n]) =
                 (IF n \in InLockStep!Acting THEN {} ELSE heard[n])
                   \cup {InLockStep!Export(m, best'[m], InLockStep!SentAs(loop)) :
                           m \in {a \in InLockStep!Members(graph, loop) :
                                    n \in InLockStep!Receivers(graph, loop, a) /\ best'[a] # NoRoute}}
    <3>1. Members(graph, loop) \subseteq ASN
      BY <1>1, MembersAreASes DEF LoopInv, ControlInv, ControlTypes
    <3>2. \A m \in ASN : best'[m] = tables[m].best
      BY <1>4
    <3>3. heard[n] = Elements(before.received_queue[n])
      OBVIOUS
    <3>4. n \in InLockStep!Acting <=> Acts(n)
      BY LearnReadsAlike DEF Acts
    <3> HIDE DEF best, heard
    <3> DEFINE senders == {a \in InLockStep!Members(graph, loop) :
                             n \in InLockStep!Receivers(graph, loop, a) /\ best'[a] # NoRoute}
    <3>5. senders = {a \in Members(graph, loop) :
                       n \in Receivers(graph, loop, a) /\ tables[a].best # NoRoute}
      BY <3>1, <3>2, LoopsReadAlike
    <3>6. \A m \in senders : InLockStep!Export(m, best'[m], InLockStep!SentAs(loop)) = Now(m)
      BY <3>1, <3>2, <3>5, LoopsReadAlike, RoutesReadAlike DEF Now
    <3> HIDE DEF senders
    <3>7. {InLockStep!Export(m, best'[m], InLockStep!SentAs(loop)) : m \in senders}
            = {Now(m) : m \in senders}
      BY <3>6
    <3>8. Elements(received_queue[n]) =
            (IF Acts(n) THEN {} ELSE Elements(before.received_queue[n]))
              \cup {Now(m) : m \in senders}
      BY <1>1, <3>5, BarrierHeard
    <3>9. QED BY <3>3, <3>4, <3>7, <3>8 DEF senders
  <2> HIDE DEF heard, best
  <2>2. QED BY <1>4, <2>1
<1>8. QED BY <1>2, <1>5, <1>6, <1>7 DEF InLockStep!Step

\* Whatever the threads do between two barriers, propagateAll computes what the
\* lock-step propagation does: the routes do not depend on the schedule.
THEOREM SchedulesDoNotMatter == Spec => IsLockStep
<1>1. Init => InLockStep!Init
  <2>1. SUFFICES ASSUME Init PROVE InLockStep!Init
    OBVIOUS
  <2> DEFINE heard  == [n \in ASN |-> Elements(before.received_queue[n])]
             routes == [n \in ASN |-> ByNextHop(before.tables[n].queue)]
             best   == [n \in ASN |-> before.tables[n].best]
  <2>2. /\ graph \in Graphs /\ seeds \in Seeds /\ loop = InLockStep!FirstLoop
        /\ \A n \in ASN : received_queue[n] = <<>> /\ tables[n] = Seeded(graph, seeds, n)
        /\ before.received_queue = received_queue /\ before.tables = tables
    BY <2>1, LoopsReadAlike DEF Init
  <2>3. Elements(<<>>) = {}
    BY DEF Elements
  <2>4. heard = [n \in ASN |-> {}]
    BY <2>2, <2>3
  <2>5. best = [n \in ASN |-> InLockStep!Seeded(graph, seeds, n).best]
    BY <2>2, SeededReadsAlike
  <2>6. routes = [n \in ASN |-> IF best[n] = NoRoute THEN <<>>
                                ELSE InLockStep!Remember(<<>>, best[n])]
    <3>1. ASSUME NEW n \in ASN
          PROVE  ByNextHop(before.tables[n].queue)
                   = IF best[n] = NoRoute THEN <<>> ELSE InLockStep!Remember(<<>>, best[n])
      <4>1. best[n] = before.tables[n].best
        OBVIOUS
      <4> HIDE DEF best
      <4>2. QED BY <2>2, <4>1, SeededTable, RoutesReadAlike
    <3> HIDE DEF best
    <3>2. QED BY <3>1
  <2>7. QED BY <2>2, <2>4, <2>5, <2>6 DEF InLockStep!Init
<1>2. LoopInv /\ [Next]_vars => [InLockStep!Next]_(InLockStep!vars)
  <2>1. SUFFICES ASSUME LoopInv, [Next]_vars PROVE [InLockStep!Next]_(InLockStep!vars)
    OBVIOUS
  <2>2. CASE Barrier
    BY <2>1, <2>2, BarrierIsStep DEF InLockStep!Next
  <2>3. ASSUME UNCHANGED <<graph, seeds, loop, before>> PROVE UNCHANGED InLockStep!vars
    BY <2>3 DEF InLockStep!vars
  <2>4. ASSUME NEW t \in Thread, ThreadStep(t) PROVE UNCHANGED <<graph, seeds, loop, before>>
    BY <2>4 DEF ThreadStep, Take, ProcessNext, ClearQueue, Send
  <2>5. CASE UNCHANGED vars
    BY <2>3, <2>5 DEF vars
  <2>6. QED BY <2>1, <2>2, <2>3, <2>4, <2>5 DEF Next
<1>3. QED BY <1>1, <1>2, LoopInvariant, PTL DEF Spec, IsLockStep, InLockStep!Spec
-----------------------------------------------------------------------------
(***************************************************************************)
(* What LockStepProofs proves of the lock-step computation holds of the    *)
(* threads, then, at every barrier and at the end.                         *)
(***************************************************************************)
Proved == INSTANCE LockStepProofs WITH
  heard  <- [n \in ASN |-> Elements(before.received_queue[n])],
  routes <- [n \in ASN |-> ByNextHop(before.tables[n].queue)],
  best   <- [n \in ASN |-> before.tables[n].best]

\* LockStepProofs is about the same specification and the same properties,
LEMMA ProvedOfTheSame ==
  /\ Proved!Spec <=> InLockStep!Spec
  /\ Proved!OriginIsTruthful <=> InLockStep!OriginIsTruthful
  /\ Proved!BestAreValleyFree <=> InLockStep!BestAreValleyFree
  /\ Proved!SimplyRelated <=> InLockStep!SimplyRelated
  /\ Proved!BestAreLoopFree <=> InLockStep!BestAreLoopFree
  /\ Proved!ForwardingFollowsPath <=> InLockStep!ForwardingFollowsPath
  /\ Proved!StableAtEnd <=> InLockStep!StableAtEnd
<1>1. Proved!Init <=> InLockStep!Init
  BY DEF InLockStep!Init, Proved!Init, InLockStep!FirstLoop, Proved!FirstLoop,
         InLockStep!LoopHead, Proved!LoopHead, InLockStep!Seeded, Proved!Seeded,
         InLockStep!EmptyTable, Proved!EmptyTable, InLockStep!Admit, Proved!Admit,
         InLockStep!Receive, Proved!Receive, InLockStep!Store, Proved!Store,
         InLockStep!Slots, Proved!Slots, InLockStep!Better, Proved!Better,
         InLockStep!Score, Proved!Score, InLockStep!RelationshipValue,
         Proved!RelationshipValue, InLockStep!SelectBestRoute, Proved!SelectBestRoute,
         InLockStep!Outranks, Proved!Outranks, InLockStep!EnumValue, Proved!EnumValue,
         InLockStep!ShorterOrLowerNextHop, Proved!ShorterOrLowerNextHop,
         InLockStep!MakeAnnouncement, Proved!MakeAnnouncement, InLockStep!Remember,
         Proved!Remember
<1>2. [Proved!Next]_(Proved!vars) <=> [InLockStep!Next]_(InLockStep!vars)
  <2>1. Proved!Next <=> InLockStep!Next
    BY DEF InLockStep!Next, Proved!Next, InLockStep!Step, Proved!Step, InLockStep!Acting,
           Proved!Acting, InLockStep!Processes, Proved!Processes, InLockStep!Members,
           Proved!Members, InLockStep!Learn, Proved!Learn, InLockStep!Kept, Proved!Kept,
           InLockStep!PrependASN, Proved!PrependASN, InLockStep!MakeAnnouncement,
           Proved!MakeAnnouncement, InLockStep!Accepts, Proved!Accepts,
           InLockStep!ContainsASN, Proved!ContainsASN, InLockStep!MostPreferred,
           Proved!MostPreferred, InLockStep!PreferredTo, Proved!PreferredTo,
           InLockStep!Place, Proved!Place, InLockStep!Precedence, Proved!Precedence,
           InLockStep!Export, Proved!Export, InLockStep!SentAs, Proved!SentAs,
           InLockStep!Receivers, Proved!Receivers, InLockStep!Customers, Proved!Customers,
           InLockStep!NextLoop, Proved!NextLoop, InLockStep!MaxRank, Proved!MaxRank,
           InLockStep!LoopHead, Proved!LoopHead
  <2>2. QED BY <2>1 DEF Proved!vars, InLockStep!vars
<1>3. Proved!Spec <=> InLockStep!Spec
  BY <1>1, <1>2, PTL DEF Proved!Spec, InLockStep!Spec
<1>4. Proved!OriginIsTruthful <=> InLockStep!OriginIsTruthful
  BY DEF InLockStep!OriginIsTruthful, Proved!OriginIsTruthful, InLockStep!GetOriginASN,
         Proved!GetOriginASN
<1>5. Proved!BestAreValleyFree <=> InLockStep!BestAreValleyFree
  BY DEF InLockStep!BestAreValleyFree, Proved!BestAreValleyFree, InLockStep!ValleyFree,
         Proved!ValleyFree, InLockStep!Descends, Proved!Descends, InLockStep!Climbs,
         Proved!Climbs, InLockStep!Crosses, Proved!Crosses
<1>6. Proved!SimplyRelated <=> InLockStep!SimplyRelated
  BY DEF InLockStep!SimplyRelated, Proved!SimplyRelated, InLockStep!Customers,
         Proved!Customers
<1>7. Proved!BestAreLoopFree <=> InLockStep!BestAreLoopFree
  BY DEF InLockStep!BestAreLoopFree, Proved!BestAreLoopFree, InLockStep!LoopFree,
         Proved!LoopFree
<1>8. Proved!ForwardingFollowsPath <=> InLockStep!ForwardingFollowsPath
  BY DEF InLockStep!ForwardingFollowsPath, Proved!ForwardingFollowsPath,
         InLockStep!SimplyRelated, Proved!SimplyRelated, InLockStep!Customers,
         Proved!Customers, InLockStep!PrependASN, Proved!PrependASN,
         InLockStep!MakeAnnouncement, Proved!MakeAnnouncement
<1>9. Proved!StableAtEnd <=> InLockStep!StableAtEnd
  BY DEF InLockStep!StableAtEnd, Proved!StableAtEnd, InLockStep!SimplyRelated,
         Proved!SimplyRelated, InLockStep!Customers, Proved!Customers,
         InLockStep!MostPreferred, Proved!MostPreferred, InLockStep!PreferredTo,
         Proved!PreferredTo, InLockStep!Place, Proved!Place, InLockStep!Precedence,
         Proved!Precedence, InLockStep!Own, Proved!Own, InLockStep!Seeded, Proved!Seeded,
         InLockStep!EmptyTable, Proved!EmptyTable, InLockStep!Admit, Proved!Admit,
         InLockStep!Receive, Proved!Receive, InLockStep!Store, Proved!Store,
         InLockStep!Slots, Proved!Slots, InLockStep!Better, Proved!Better,
         InLockStep!Score, Proved!Score, InLockStep!RelationshipValue,
         Proved!RelationshipValue, InLockStep!SelectBestRoute, Proved!SelectBestRoute,
         InLockStep!Outranks, Proved!Outranks, InLockStep!EnumValue, Proved!EnumValue,
         InLockStep!ShorterOrLowerNextHop, Proved!ShorterOrLowerNextHop,
         InLockStep!MakeAnnouncement, Proved!MakeAnnouncement, InLockStep!Offered,
         Proved!Offered, InLockStep!PrependASN, Proved!PrependASN, InLockStep!Export,
         Proved!Export, InLockStep!RelationTo, Proved!RelationTo, InLockStep!Neighbours,
         Proved!Neighbours, InLockStep!HandsOn, Proved!HandsOn
<1>10. QED BY <1>3, <1>4, <1>5, <1>6, <1>7, <1>8, <1>9

\* under the same assumptions.
LEMMA ProvedUnderTheSame ==
  /\ Proved!IsFiniteSet(ASN)
  /\ NoRoute \notin Proved!Announcement
  /\ \A g \in Graphs : Proved!WellFormed(g)
<1>1. Proved!IsFiniteSet(ASN)
  BY ASNFinite DEF IsFiniteSet, Proved!IsFiniteSet
<1>2. NoRoute \notin Proved!Announcement
  BY NoRouteAssumption DEF Announcement, Proved!Announcement, Path, Proved!Path,
                           Relationship, Proved!Relationship
<1>3. \A g \in Graphs : Proved!WellFormed(g)
  BY GraphsAssumption DEF WellFormed, Proved!WellFormed, Graph, Proved!Graph,
                          Flattened, Proved!Flattened, Customers, Proved!Customers
<1>4. QED BY <1>1, <1>2, <1>3

\* However many threads run, and whatever the order in which they append to the
\* queues, one pass of propagateAll (main.cpp:395) ends in the stable routes of the
\* Gao-Rexford model, and traffic follows them (as_graph.cpp:714-755).
THEOREM ThreadsEndStable ==
  ASSUME Iterations = 1
  PROVE  Spec => [](InLockStep!StableAtEnd /\ InLockStep!ForwardingFollowsPath)
<1>1. Proved!Spec => []Proved!StableAtEnd
  BY Proved!OnePassIsStable, ProvedUnderTheSame, ASNAssumption, MaxPathLenAssumption,
     FieldAssumption, ASNFinite, LoopCheckAssumption, IterationsAssumption, SeedsAssumption
<1>2. Proved!Spec => []Proved!ForwardingFollowsPath
  BY Proved!ForwardingFollowsPaths, ProvedUnderTheSame, ASNAssumption, MaxPathLenAssumption,
     FieldAssumption, ASNFinite, LoopCheckAssumption, IterationsAssumption, SeedsAssumption
<1>3. /\ Proved!Spec <=> InLockStep!Spec
      /\ Proved!StableAtEnd <=> InLockStep!StableAtEnd
      /\ Proved!ForwardingFollowsPath <=> InLockStep!ForwardingFollowsPath
  BY ProvedOfTheSame
<1>4. QED BY <1>1, <1>2, <1>3, SchedulesDoNotMatter, PTL DEF IsLockStep

\* Nor does any schedule lead to a best route with a valley or, where no pair is
\* related in two ways, with a loop, although nothing but the order of the loops
\* stands in for an export rule (as_node.cpp:365) and short paths are accepted
\* unseen (as_node.cpp:210).
THEOREM ThreadsKeepPathsClean ==
  ASSUME Iterations = 1
  PROVE  Spec => [](/\ InLockStep!BestAreValleyFree
                    /\ InLockStep!SimplyRelated => InLockStep!BestAreLoopFree)
<1>1. Proved!Spec => []Proved!BestAreValleyFree
  BY Proved!BestRoutesAreValleyFree, ProvedUnderTheSame, ASNAssumption, MaxPathLenAssumption,
     FieldAssumption, ASNFinite, LoopCheckAssumption, IterationsAssumption, SeedsAssumption
<1>2. Proved!Spec => [](Proved!SimplyRelated => Proved!BestAreLoopFree)
  BY Proved!BestRoutesAreLoopFree, ProvedUnderTheSame, ASNAssumption, MaxPathLenAssumption,
     FieldAssumption, ASNFinite, LoopCheckAssumption, IterationsAssumption, SeedsAssumption
<1>3. /\ Proved!Spec <=> InLockStep!Spec
      /\ Proved!BestAreValleyFree <=> InLockStep!BestAreValleyFree
      /\ Proved!SimplyRelated <=> InLockStep!SimplyRelated
      /\ Proved!BestAreLoopFree <=> InLockStep!BestAreLoopFree
  BY ProvedOfTheSame
<1>4. QED BY <1>1, <1>2, <1>3, SchedulesDoNotMatter, PTL DEF IsLockStep

\* The origin of a best route and its ROV mark are the announced ones for every
\* schedule and any number of passes (announcement.h:198).
THEOREM ThreadsKeepOriginsTruthful == Spec => []InLockStep!OriginIsTruthful
<1>1. Proved!Spec => []Proved!OriginIsTruthful
  BY Proved!OriginsAreTruthful, ProvedUnderTheSame, ASNAssumption, MaxPathLenAssumption,
     FieldAssumption, ASNFinite, LoopCheckAssumption, IterationsAssumption, SeedsAssumption
<1>2. /\ Proved!Spec <=> InLockStep!Spec
      /\ Proved!OriginIsTruthful <=> InLockStep!OriginIsTruthful
  BY ProvedOfTheSame
<1>3. QED BY <1>1, <1>2, SchedulesDoNotMatter, PTL DEF IsLockStep

\* Where pairs are related in two ways no schedule brings a route back either, as
\* long as no AS is its own peer and paths have room for the length from which
\* loops are looked for, as 16 has for 10 (announcement.h:10, as_node.cpp:210).
THEOREM ThreadsBringNoRouteBack ==
  ASSUME Iterations = 1, LoopCheckLen <= MaxPathLen
  PROVE  Spec => []((\A n \in ASN : n \notin graph.peers[n]) => InLockStep!BestAreLoopFree)
<1>1. Proved!Spec => [](Proved!NoSelfPeering => Proved!BestAreLoopFree)
  BY Proved!NoRouteComesBack, ProvedUnderTheSame, ASNAssumption, MaxPathLenAssumption,
     FieldAssumption, ASNFinite, LoopCheckAssumption, IterationsAssumption, SeedsAssumption
<1>2. /\ Proved!Spec <=> InLockStep!Spec
      /\ Proved!BestAreLoopFree <=> InLockStep!BestAreLoopFree
  BY ProvedOfTheSame
<1>3. (\A n \in ASN : n \notin graph.peers[n]) <=> Proved!NoSelfPeering
  BY DEF Proved!NoSelfPeering
<1>4. QED BY <1>1, <1>2, <1>3, SchedulesDoNotMatter, PTL DEF IsLockStep
=============================================================================
