------------------------------ MODULE Propagation ------------------------------
(***************************************************************************)
(* ASGraph::propagateAll (as_graph.cpp) on OpenMP threads.  The ASes of a  *)
(* parallel loop are handled by different threads at the same time.  A     *)
(* thread reads the received queue of its AS without the lock, announcement *)
(* by announcement, clears it, and then appends to the queues of the       *)
(* neighbours under their locks.  A barrier ends every loop.               *)
(***************************************************************************)
EXTENDS ParallelLoops

CONSTANTS Thread,  \* the OpenMP threads, two in main
          Graphs,  \* the graphs considered
          Seeds    \* the ways to seed them: AS -> "none", "valid" or "invalid"

ASSUME GraphsAssumption == \A g \in Graphs : WellFormed(g)

ASSUME SeedsAssumption == Seeds \subseteq [ASN -> {"none", "valid", "invalid"}]

VARIABLES graph,          \* never changes
          seeds,          \* never changes
          loop,           \* the parallel loop that runs
          todo,           \* its ASes that no thread has taken yet
          work,           \* thread -> what it is at
          received_queue, \* AS -> announcements received and not yet processed
          tables,         \* AS -> routes and best route of its policy
          before          \* history: queues and tables when the loop started

vars == <<graph, seeds, loop, todo, work, received_queue, tables, before>>

\* No AS at hand; in the loop of processReceivedQueue over the AS's queue; or
\* sending the AS's batch to the neighbours in unsent.
Idle == [step |-> "idle"]

Processing(n, position) == [step |-> "process", node |-> n, position |-> position]

Sending(n, batch, unsent) ==
  IF unsent = {} THEN Idle
  ELSE [step |-> "send", node |-> n, batch |-> batch, unsent |-> unsent]

Work ==
  {Idle}
    \cup [step : {"process"}, node : ASN, position : Nat \ {0}]
    \cup [step : {"send"}, node : ASN, batch : Announcement, unsent : SUBSET ASN]

Table == [queue : Seq(Announcement), best : Announcement \cup {NoRoute}]

Init ==
  /\ graph \in Graphs
  /\ seeds \in Seeds
  /\ loop = FirstLoop
  /\ todo = Members(graph, FirstLoop)
  /\ work = [t \in Thread |-> Idle]
  /\ received_queue = [n \in ASN |-> <<>>]
  /\ tables = [n \in ASN |-> Seeded(graph, seeds, n)]
  /\ before = [received_queue |-> received_queue, tables |-> tables]

\* sendToProviders, sendToPeers or sendToCustomers of an AS starts; without a
\* best route or without neighbours of the kind there is nothing to do.
Dispatch(n) ==
  LET best == tables[n].best
  IN  IF best = NoRoute THEN Idle
      ELSE Sending(n, Export(n, best, SentAs(loop)), Receivers(graph, loop, n))

\* A thread takes an AS of the loop.  Which thread gets which one is up to the
\* static schedule and the iteration order of the hash map.
Take(t, n) ==
  /\ work[t] = Idle
  /\ n \in todo
  /\ todo' = todo \ {n}
  /\ work' = [work EXCEPT ![t] = IF Processes(loop) THEN Processing(n, 1) ELSE Dispatch(n)]
  /\ UNCHANGED <<graph, seeds, loop, received_queue, tables, before>>

\* One round of the loop of processReceivedQueue.
ProcessNext(t) ==
  LET n   == work[t].node
      pos == work[t].position
  IN  /\ work[t].step = "process"
      /\ pos <= Len(received_queue[n])
      /\ tables' = [tables EXCEPT ![n] = Absorb(graph, n, tables[n], received_queue[n][pos])]
      /\ work' = [work EXCEPT ![t] = Processing(n, pos + 1)]
      /\ UNCHANGED <<graph, seeds, loop, todo, received_queue, before>>

\* Faulty variant: the queue is not cleared.
KeepQueue(t) ==
  LET n == work[t].node
  IN  /\ work[t].step = "process"
      /\ work[t].position > Len(received_queue[n])
      /\ work' = [work EXCEPT ![t] = Dispatch(n)]
      /\ UNCHANGED <<graph, seeds, loop, todo, received_queue, tables, before>>

\* The queue is cleared, the body of the loop goes on to send.
ClearQueue(t) ==
  LET n == work[t].node
  IN  /\ work[t].step = "process"
      /\ work[t].position > Len(received_queue[n])
      /\ received_queue' = [received_queue EXCEPT ![n] = <<>>]
      /\ work' = [work EXCEPT ![t] = Dispatch(n)]
      /\ UNCHANGED <<graph, seeds, loop, todo, tables, before>>

\* Faulty variant: the batch goes to the same neighbour over and over.
SendForever(t, m) ==
  /\ work[t].step = "send"
  /\ m \in work[t].unsent
  /\ received_queue' = [received_queue EXCEPT ![m] = <<work[t].batch>>]
  /\ UNCHANGED <<graph, seeds, loop, todo, work, tables, before>>

\* addBatchToReceivedQueue of one neighbour, under its lock.
Send(t, m) ==
  LET n == work[t].node
  IN  /\ work[t].step = "send"
      /\ m \in work[t].unsent
      /\ received_queue' = [received_queue EXCEPT ![m] = Append(@, work[t].batch)]
      /\ work' = [work EXCEPT ![t] = Sending(n, work[t].batch, work[t].unsent \ {m})]
      /\ UNCHANGED <<graph, seeds, loop, todo, tables, before>>

\* The implicit barrier at the end of a parallel loop; the next one starts.
Barrier ==
  LET next == NextLoop(graph, loop)
  IN  /\ loop.phase # "done"
      /\ todo = {}
      /\ \A t \in Thread : work[t] = Idle
      /\ loop' = next
      /\ todo' = Members(graph, next)
      /\ before' = [received_queue |-> received_queue, tables |-> tables]
      /\ UNCHANGED <<graph, seeds, work, received_queue, tables>>

ThreadStep(t) ==
  \/ \E n \in ASN : Take(t, n)
  \/ ProcessNext(t)
  \/ ClearQueue(t)
  \/ \E m \in ASN : Send(t, m)

Next == Barrier \/ \E t \in Thread : ThreadStep(t)

Spec == Init /\ [][Next]_vars

\* The operating system runs every thread; the barrier opens when all arrived.
FairSpec == Spec /\ WF_vars(Barrier) /\ \A t \in Thread : WF_vars(ThreadStep(t))
-----------------------------------------------------------------------------
\* An AS whose queue a thread reads, respectively appends to.
Reads(t, n) == work[t].step = "process" /\ work[t].node = n

Appends(t, n) == work[t].step = "send" /\ n \in work[t].unsent

\* processReceivedQueue takes no lock (as_node.cpp:191-229): nobody may be
\* about to append to the queue that is read, and no two threads have the same
\* AS.  Only the ranks and the split of the peer phase see to that.
RaceFree ==
  \A t, u \in Thread : t # u => \A n \in ASN :
    Reads(t, n) => ~Reads(u, n) /\ ~Appends(u, n)

\* When propagateAll returns, no announcement is left in any queue: everything
\* sent in the last loops was processed, too.
NothingLeftBehind == loop.phase = "done" => \A n \in ASN : received_queue[n] = <<>>

\* The queue and the tables at the barriers, as LockStep sees them.
Elements(queue) == {queue[k] : k \in DOMAIN queue}

InLockStep == INSTANCE LockStep WITH
  heard  <- [n \in ASN |-> Elements(before.received_queue[n])],
  routes <- [n \in ASN |-> ByNextHop(before.tables[n].queue)],
  best   <- [n \in ASN |-> before.tables[n].best]

\* Whatever the threads do between them, the outcome of every loop is the one
\* of the lock-step computation: the routes do not depend on the schedule.
IsLockStep == InLockStep!Spec

\* propagateAll returns.
Terminates == <>(loop.phase = "done")
=============================================================================
