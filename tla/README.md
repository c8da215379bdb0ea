# Formal models of the BGP simulator

TLA+ models of the simulator in `src/`, checked with TLC and, for the theorems
listed below, proved with TLAPS. Line numbers refer to the files under `src/`;
`as_graph.cpp` stands for `src/src/as_graph.cpp`, `bgp.h` for
`src/include/bgp.h`.

## 1. The system

The program reads the AS relationships of the CAIDA format, ranks the ASes, puts
a ROV policy on some, lets some announce prefixes, propagates the announcements
up, across and down the graph, and writes every AS's routes to a CSV file.
Everything is sequential but the loops of the propagation, which run on two
OpenMP threads (`main.cpp:264`).

| Component | State | Operations | Correct if |
|---|---|---|---|
| Announcement (`announcement.cpp/.h`) | prefix id, path of at most 16 ASes, next hop, relationship, ROV mark, packed score | constructors, `prependASN`, `containsASN`, score | paths stay in their array; score and step-by-step comparison agree; origin and mark survive |
| BGP policy (`bgp.cpp/.h`) | `received_queue_` and `local_rib_` per prefix id | `receiveAnnouncement`, `receiveAnnouncementWithPrepend`, `selectBestRoute`, `clear`, queries | one route per neighbour; the best route is never stale |
| ROV policy (`rov.cpp/.h`) | that of BGP | `receiveAnnouncement` with a filter | no invalid route gets in |
| ASNode (`as_node.cpp/.h`) | neighbours, policy, `received_queue_` under a mutex, rank | `seedAnnouncement`, `addBatchToReceivedQueue`, `processReceivedQueue`, `sendTo...` | nothing received is lost; own routes are never used |
| flattenGraph (`as_graph.cpp:475`) | ranks, counters, a queue | Kahn's algorithm | providers above customers, tight ranks, cycles reported |
| propagateAll (`as_graph.cpp:687`) | which loop runs, what its threads are at | parallel loops over ranks and over all ASes | no races, one outcome for all schedules, stable routes |
| PrefixMap (`prefix_map.cpp`) | vector and hash map of prefixes, global | `getPrefixId`, `getPrefixString`, `reset` | ids and prefixes correspond |
| propagateToConvergence (`as_graph.cpp:760`) | pending prefixes per AS and direction, round counter | sequential rounds until nothing changes | ends in stable routes, or says it was cut off |
| propagateUp, Across, Down (`as_graph.cpp:576-666`) | none | one phase each | as the phases of propagateAll |
| Graph builder (`as_graph.cpp:135-321`) | nodes and relationships | `parseLine`, `buildFromCAIDAFile`, `getOrCreateNode` | links are in pairs; a cyclic file is refused |
| Cycle detection (`as_graph.cpp:368-447`) | visited and in-stack marks | depth-first search | same verdict as flattenGraph |
| deployROV, pipeline (`as_graph.cpp:1195`, `main.cpp:261`) | order of the steps | `setPolicy` on listed ASes | no seeded route is thrown away |
| CSV output (`as_graph.cpp:921`) | a buffer and a write position, a stdio stream | `dumpToCSV` | no row beyond the buffer; a failed write is reported; rows agree |
| IPPrefix, command line, CSV input | none | parsing | the output has what the input files announce |
| FlatHashMap, SmallVector (headers) | tables of their own | container operations | as the standard containers; not used by the program |

**Interaction.** `main` calls the steps one after the other. A parallel loop of
`propagateAll` calls `processReceivedQueue` and a send on each of its ASes.
`processReceivedQueue` reads the AS's queue *without* its mutex, prepends the AS
to every path, hands the announcements to the policy and clears the queue. A
send makes one batch from `local_rib_` and appends it to each neighbour's queue
*under* that neighbour's mutex. The end of a parallel loop is a barrier. Policies
call `PrefixMap` only when prefixes are parsed and when `selectBestRoute` looks
up a name to trace.

**What is hard.** The unlocked read relies on ranks alone. No export rule is
implemented (`as_node.cpp:365`), so that the order of the loops has to make
routes valley-free. Loops are not looked for in paths below ten ASes. The best
route is maintained by three shortcuts, and two comparisons written apart have
to agree. The hash maps and the thread schedule make all orders possible.
`propagateToConvergence` has neither the order of the loops nor withdrawals to
rely on, and walks three maps of pending prefixes while it fills them. The
library's calls can be made in any order, while queues, policies and ranks carry
state from one to the next; deploying a policy throws routes away. `dumpToCSV`
formats through a bare pointer into a buffer of estimated size.
`PROJECT.json` lists these hazards line by line.

## 2. Modules

| Module | Models | Correspondence |
|---|---|---|
| `Announcements` | class Announcement and both comparisons | a record without the prefix id (tables are keyed by it); `Score` is the packed integer in a number system of bases `NextHopBase` (2^32 in the code) and `LengthBase` (2^16) |
| `RouteTable` | one prefix of a policy | `[queue, best]`; `Receive` is `receiveAnnouncement`, `SelectBestRoute` the result of the scan |
| `SelectBestRoute` | the scan of `selectBestRoute` | one iteration a step |
| `BGPPolicy` | a BGP or ROV policy object | one call a step; an object is used by one thread at a time (`Propagation!RaceFree`); `InlinePrepends` are the calls of `receiveAnnouncementWithPrepend` |
| `Preference`, `AdjRibIn` | what a BGP speaker promises | abstract specification of `BGPPolicy` |
| `CustomerLinks` | the links walked before propagation | a multigraph, as the vectors of `ASNode` are |
| `CycleSearch` | `hasProviderCustomerCycles`, `hasCycleDFS` | the recursion is a stack of calls; one customer a step; order of ASes and links free |
| `Flatten` | `flattenGraph` | one visit of a link a step; counting order, link order and queue order are free |
| `Preparation` | the search, then the ranking, of one graph | composes `CycleSearch` (by INSTANCE) and `Flatten`; unlike `main` it ranks cyclic graphs too, for which `flattenGraph` has a warning (`as_graph.cpp:522`) |
| `ASGraph` | relationships, one AS's handling of an announcement | operators used by the modules below |
| `ParallelLoops` | the order of the loops of `propagateAll`, who is in each, its loop check | operators used by `Propagation` and `LockStep` |
| `Propagation` | `propagateAll` on threads | `Take` an AS, `ProcessNext` announcement, `ClearQueue`, `Send` to one neighbour under its mutex, `Barrier` |
| `LockStep` | the "synchronous (lock-step)" computation of `as_graph.cpp:685` | one parallel loop a step, deterministic; abstract specification of `Propagation` |
| `Convergence` | `propagateToConvergence` | one AS of one loop a step: take what is pending, process the queue, compare with before, send; `rounds` counts under a limit only |
| `PrefixMap` | `prefix_map.cpp` | one call a step |
| `InputFiles` | the CSV files of `main`, the prefix check | which lines count, and what their fields become in 32 and 8 bits |
| `GraphBuilder` | `parseLine`, `buildFromCAIDAFile` | one line a step; a vector of neighbours is how often each is in it |
| `SinglePhases` | `propagateUp`, `propagateAcross`, `propagateDown`, `propagateAll` as calls | operators from the routes and queues before a call to those after it |
| `Simulator` | whole runs: `main`, or a user of the library | composes the three above; one step of `main`, one seeded announcement or one call a step |
| `OutputBuffer` | `dumpToCSV` | one row a step, in lengths; then open, write and flush, each of which may fail |
| `FlatHashMap` | `flat_hash_map.h` | the array of entries; one member function a step, displacement and growth inside it |
| `Dictionary` | what users of a map expect | abstract specification of `FlatHashMap` |
| `SmallVector` | `small_vector.h` | objects and heap blocks with their owners; inline elements and block address share storage, as in the union; two history variables have the elements of a `std::vector` in its place, and the places where this one may have others |
| `Components` | the scan, `PrefixMap`, the containers, `dumpToCSV` | side by side: in a behaviour one of them runs. They share nothing, so that no interleaving of them is of interest |
| `SmallGraphs`, `MC...` | instances | graphs, seeds and routes for TLC |
| `RouteTableProofs` | facts about the operators of an AS | lemmas the other proofs share |
| `ComponentsProofs`, `BGPPolicyProofs`, `PreparationProofs`, `LockStepProofs`, `PropagationProofs`, `ConvergenceProofs`, `SimulatorProofs` | theorems | each extends the modules it is about; `PropagationProofs` instantiates `LockStepProofs` |

`BGPPolicy` implements `AdjRibIn` by mapping the queue to a function from next
hops to routes. `Propagation` implements `LockStep` by showing queues and tables
as they were at the last barrier (`before`, a history variable): queues become
sets, because the order within a queue has to be irrelevant. `FlatHashMap`
implements `Dictionary` by mapping the entries to what `find` answers.

The modules lean on each other across levels: `Simulator` uses a call's result
where `Propagation` has its threads (`IsLockStep` says that they do not show), has
the ranks `PreparationProofs` proves instead of the queue that finds them, and checks
that the graph it hands on is `WellFormed`, which `Propagation`, `LockStep` and
`Convergence` take for granted.

Definitions marked *Faulty variant* are no part of any specification. Each is a
plausible bug of the definition after it; putting it in that definition's place
breaks the property that `PROJECT.json` names with it.

**Abstractions.** One prefix in the propagation: tables of different prefixes
are separate and a batch is one announcement per prefix. Which thread gets which
AS (static schedule, chunks of 128, hash map order) is any choice, which includes
the real one. A duplicate relationship is a set element in `ASGraph` (the second
copy of a batch replaces the first, being from the same next hop) but a second
link in `Flatten`, where it changes the counters. Self-peerings are among the
graphs of `Simulator` only. `Wire` announcements of `BGPPolicy` may have any relationship from any
neighbour, which is more than neighbours send.

In `Simulator` an AS without a policy is one with an empty BGP table: every
operation that finds no policy makes that one first or does nothing. All records
announce the one prefix, spelled in a way that parses or not; two spellings of a
prefix are two prefixes to the program. The user of the library builds one graph
and then calls; adding links after ranking is left out. The temporary file through
which `main` passes the list of ROV ASes (`main.cpp:330`) may fail, which leaves
nothing deployed. Rows in `OutputBuffer` are their lengths, any sequence of which
is possible because two hash maps decide the order. Moves of `FlatHashMap` hand over the whole
state and are left out. Tracing, text and timing are left out, and with the tracing
the exception of `getPrefixString` in `selectBestRoute` (`bgp.cpp:345`), which
needs a reset of the mapping between storing a route and selecting; only tests reset.

`SmallVector` copies its elements bitwise, and so does the model: elements are
values. A cell nobody has set is `Unset`, and so are the inline cells over which a
block's address was stored. `push_back` of one of the vector's own elements reads it
after `grow` (`small_vector.h:247-252`): from the block just deleted it reads the old
element or `Unset`, from inside the object what is left next to the address
(`ReadOwn`). That reading a deleted block may also end the program is left out.

## 3. Runs

| Run | Question | Bounds |
|---|---|---|
| `policy` | is the best route ever stale; does an invalid one get in; is the policy a speaker? | one prefix (tables are independent), 3 neighbours and two lengths, so that the best can be replaced by a worse one while 2 others compete; invalid routes better and worse than those, own ones too; with and without prepending in place; array of 2 ASes, so that paths are cut off |
| `flatten` | verdict of the search, ranks, cycles, termination | all multigraphs of 3 ASes and 4 links: doubled and self links, cycles, an AS above a cycle; ranks left from before |
| `one_pass` | does one pass end in the Gao-Rexford routes? Valleys, loops, forwarding | all acyclic graphs of 4 ASes without pairs related twice, nobody or AS 4 filters; all acyclic graphs of ASes 1 to 3 with such pairs; one origin, or an origin and a hijacker |
| `threads` | races, lost announcements, schedule independence, termination | all acyclic graphs of 3 ASes, 2 threads, AS 2 filters; path array and loop check at 2, so that cutting off and rejecting both happen |
| `convergence` | do the rounds end, is a change ever dropped, what is left over? | all acyclic graphs of 3 ASes, flattened (pairs related twice among them) or not; AS 2 filters; one origin, an origin and a hijacker, or all origins; no limit and a limit of 2 rounds, which is too few for some |
| `pipeline` | do reader, search, ranks, deployment, seeding, phases and output fit together, in `main`'s order and in any other? | `main`: every file of up to 3 lines over all links of 3 ASes, self links and self-peerings included, and malformed lines; 2 ROV files or none; 6 announcement files: a header only, a hijack, one AS twice, an AS that is not in the graph, bad prefix lengths. Library: files of up to 3 of 5 links and 5 calls, which is all three phases, a seed and a deployment |
| `components` | the scan, prefix ids, the containers, the output buffer | scan: all queues of 1 to 3 of 16 routes (4 relationships, 2 lengths, 2 next hops). Ids: 5 prefixes, 5 ids, so that the last id is given out. Map: 4 slots, two pairs of keys that collide, in slots that follow each other, so that entries are displaced and the array grows. Vectors: 2 objects, 1 element inside, over which the address of a block is stored; an empty list and one of 2 elements, sizes 1 and 2, blocks of up to 4, so that moves, copies, growth, shrinking, pushes and writes meet in all combinations, inside and on the heap. Output: all sequences of up to 5 rows of 4 lengths, the longest as long as the slack |

Three ASes are the smallest number with a valley, a loop over a third AS, two
ranks with a peering, and two neighbours that send to one AS at the same time;
four add an up-down-up path and two disjoint providers. `one_pass` looks for
loops in paths of ten ASes, as the code does: with four ASes no path gets there, so
that its properties hold with no loop check in effect. The routes
they require do not depend on the check, which makes the shortcut of
`as_node.cpp:210` right for one pass. Three lines are the shortest file with a cycle over
three ASes, and with a link listed twice beside another. `CHECK_DEADLOCK FALSE` stands where the
algorithm ends. ASes are not symmetric: ASNs are integers, because next hops are
compared. `components` uses the symmetry of the vectors, which nothing tells apart. What a theorem proves for all
sizes and another property implies (`BestOfExamined`, `IdsAreUnique`, `CountsEachOnce`,
`ChecksAgree`, `ShortWriteIsReported`) is not among the runs' properties as well.

The `violation` runs each check one sentence of the documentation:

| Run | Sentence | What the code does |
|---|---|---|
| `leak` | "follows the Gao-Rexford valley-free routing model" (`README.md:139`) | `propagateAll` does (`one_pass`); `propagateToConvergence` sends what came from providers and peers on to providers and peers, and ends with valleys |
| `routing_loop` | refusing the own ASN keeps from "creat[ing a] routing loop" (`announcement.h:218-219`) | nothing is withdrawn: a neighbour that refuses an AS's new route keeps its old one, and two peers end with the route through each other |
| `two_passes` | no loop check below ten ASes has "zero correctness impact" (`as_node.cpp:204`) | true for one pass; in a second pass best routes come back to where they were |
| `overrun` | "Safety check: ensure we have space" (`as_graph.cpp:962`) | the check is for 200 characters, a row may have 225; on a chain of seventeen ASes with ten-digit numbers a row goes beyond the buffer. With rows that fit the slack it never does (`RowsStayWithin`) |
| `lost_flush` | "true if successful, false otherwise" (`as_graph.h:275`) | what `fwrite` left in the stdio buffer is lost without notice when `fflush` or `fclose` fails; a failure inside `fwrite` is reported (`ShortWritesReported`) |

Some more sentences do not fit what the models show, without a run of their own:

* `announcement.h:198` has `getOriginASN` be "the ASN that originated this prefix".
  `prependASN` drops the last AS of a full path (`PrependResult`), so that it is
  not after sixteen hops; `OriginIsTruthful` holds for shorter paths.
* `prefix_map.h:30` has ids unique. With 65537 prefixes they wrap, and the routes
  of two prefixes are mixed; `UniqueWhileTheyFit` has the bound as its assumption,
  and `RoundTrips` is false as soon as `Prefix` is larger than `IdSpace`.
* `as_node.cpp:108` has origin announcements preferred most. An AS that is listed
  as its own peer gets its own announcement back and replaces its ORIGIN route
  by it, the next hops being equal; no other AS is hit (`OriginPreferredUnlessOwnPeer`).
* `announcement.cpp:42` refuses lengths above 32, after a cast to 8 bits: 256 + 24
  is taken (`Parses`), announced and written (`SeedsReachOutput`).
* `as_graph.h:279` has paths separated by spaces; the rows have "(3, 2, 1)".
* `flat_hash_map.h:10` has keys up to 65535, which is the key of empty slots
  (`KeysAssumption`).
* A `SmallVector` that has shrunk on the heap is copied from its inline storage,
  where the address of the block is (`small_vector.h:103`, `CopySpoils`).
* `SmallVector` departs from `std::vector`, whose type names it has "for STL
  compatibility" (`small_vector.h:32`), in three more ways. The constructor from a
  size and `resize` (`small_vector.h:46`, `218`) leave new elements unset: push an
  element, `clear()`, `resize(1)`, and it is back. `v.push_back(v[0])` reads its argument after
  `grow` has deleted or overwritten it (`small_vector.h:250`). And `push_back` doubles a block
  at every call, full or not (`small_vector.h:206`). `ElementsAsExpected` marks
  the places of the copies and of the first two in `spoiled`, and requires all others.
* `main` ends with 0 when the output could not be written (`main.cpp:404`).
* `bgp.h:18` has the first seen of equal routes win; `selectBestRoute` takes the
  lower next hop (`bgp.cpp:430`), as does `Outranks`.
* `rov.h:8` has a ROV AS reject invalid announcements. The inherited
  `receiveAnnouncementWithPrepend` (`bgp.cpp:150`) does not filter. Nothing calls
  it yet; `InvalidKeptOut` holds for calls with valid announcements.
* `as_graph.cpp:676` has every AS hear every origin. An AS behind two peerings
  hears nothing, which is what valley-free means.
* `announcement.h:218` has the own ASN never accepted. It is accepted below ten
  ASes (`as_node.cpp:210`); such a route is stored and, in one pass, never used
  (`BestAreLoopFree`).
* `as_node.h:131` says "Update next_hop to this AS". `processReceivedQueue`
  prepends with the announcement's own next hop, the neighbour
  (`as_node.cpp:217`), which is what `ForwardingFollowsPath` needs.

## 4. Fairness

Safety is checked without fairness. `Propagation!FairSpec` has weak fairness of
each thread's next step and of the barrier: the operating system runs every
OpenMP thread, the implicit barrier opens when all arrived, and a queue's mutex
is held for one append, hence free again at once. `Preparation!FairPrepareSpec` and
`Convergence!FairSpec` have weak fairness of the one sequential computation.

## 5. Proofs

All for every value of the constants: any number of ASes, threads, prefixes,
vectors, any finite path array, any acyclic graph. Assumed are the named
ASSUMEs of the modules, among them that ASNs and lengths fit the bit fields of
the score, and that there are finitely many ASes. Where a theorem assumes
`Iterations = 1`, that is the one pass `main` asks for (`main.cpp:395`); the run
`two_passes` shows that it is needed.

* **Comparison** (`RouteTableProofs`). `ScoreIsSelectionOrder`: the packed score
  and `Outranks` order alike, by uniqueness of digits (`TwoDigits`).
  `PrependResult`: what `prependASN` keeps.
* **Table** (`RouteTableProofs`, `ComponentsProofs`). `Consistent` (one route per
  next hop and the best is the selection) is preserved by `Receive`
  (`ReceiveKeepsConsistent`). The argument: selections exist and are unique, since a tie
  of the score means the same next hop (`TieHasSameNextHop`); a route that beats
  the old best beats everything; if the best's own entry was not replaced nothing
  it had beaten got better but the candidate. The scan's loop invariant gives
  `ScanSelects`, `ScanAgreesWithScore` and, at every step, `ScanKeepsBest`.
* **Policy** (`BGPPolicyProofs`). `PolicyInv` is `Consistent` for every prefix;
  `OneRoutePerNeighbour` and `BestIsSelected` are not inductive one without the
  other. From it `BestNeverStale`, `NoSpontaneousLoss` and
  `PolicyImplementsSpeaker` (implementation of `AdjRibIn`). `RovFilters` assumes
  that `receiveAnnouncementWithPrepend`, which does not filter, is called for
  valid announcements only.
* **Ranks** (`PreparationProofs`). The invariant counts: `remaining` of an AS is the number
  of its links whose customer was not visited yet, an AS is in the queue or popped
  exactly when that is zero, and ranks of those are final. `CyclesFound` adds that no popped AS is above
  a cycle and that an AS left out has a customer left out.
* **Cycles** (`PreparationProofs`). `StackInv`: the calls on the stack form a path, and
  of its customers a call has looked at those whose call has returned and the one
  above it. `BlackInv`: no cycle goes through an AS whose call has returned; the
  AS of a returning call joins these, because all its customers are among them.
  `SearchIsRight` follows, and with `CyclesFound` that the two checks agree
  (`BothChecksAgree`), on every finite multigraph.
* **One pass** (`LockStepProofs`). `TruthInv`: every stored or received announcement
  that is not cut off names an AS that announced the prefix, and carries its
  mark; `OriginsAreTruthful` holds for any number of passes. `ShapeInv`: which links a
  stored path may consist of, by the relationship it came over and the loop
  that runs (`BestRoutesAreValleyFree`, pairs related twice included). `ExactInv` says,
  where no pair is related twice, exactly which routes and messages there are in
  each loop: those via the neighbours that had their turn, with the paths these
  use *now*. For this an AS must not change its mind after it has sent, which is the
  reason for ranks. At the end all have had their turn, which is `OnePassIsStable`
  and `ForwardingFollowsPaths`. `PathInv`: a path consists of ASes without a route of
  a customer, of falling rank towards its owner, and behind them of ASes that have
  one, so that no AS is on it twice (`BestRoutesAreLoopFree`), whatever the
  length from which the program looks for loops. Where pairs are related twice an
  AS may change its mind after all, and `TwiceInv` takes over: what an AS has sent
  up stays what it uses until the peers have been heard (`SentInv`), and wherever a
  path climbs through an AS, this AS keeps a route of its own or by way of a
  customer that is no longer than the rest of the path (`KeptInv`, `OnItsWayInv`). So a
  route that comes back is longer than what is there (`NoRouteComesBack`). The refused offers (`OnePassIsStable` requires
  the most preferred of *all* offers) come back to an AS that has a better route.
* **Threads** (`PropagationProofs`). `WorkInv`: what threads are at belongs to the loop
  that runs, on different ASes. `QueueInv`: where a queue may be non-empty, per
  phase. With ranks rising along links (the conclusion of `PreparationProofs`,
  assumed as `WellFormed`) `NoRace` and `QueuesDrained` follow.
  `SchedulesDoNotMatter` is the refinement: `LoopInv` describes the middle of a loop
  by `before`: an AS that was not taken has its table and queue of then, one that is
  processing has absorbed part of its queue, one that is done has the table
  `LockStep` computes, and a queue holds what it held and the messages of those
  that have sent, in any order. Absorbing a queue with one message per neighbour
  gives the same routes for every order. `LockStepProofs` is then instantiated
  under the refinement mapping: `ThreadsEndStable`, `ThreadsKeepPathsClean`,
  `ThreadsBringNoRouteBack` and `ThreadsKeepOriginsTruthful` say its results of every schedule.
* **Rounds** (`ConvergenceProofs`). `NoChangeLost` is inductive together with `RoutesInv`
  (tables are consistent, next hops are senders). The change of an AS is pending, or on
  its way, or known to the receiver or refused by it; processing
  a queue keeps the last word of each neighbour (`KnowsProcessed`), and a send
  appends the sender's best route as its last word. `ConvergenceEndsQuiet` needs where
  messages may wait in which loop (`QuietInv`).
* **Prefixes** (`ComponentsProofs`). With at most 2^16 prefixes the vector is as long as
  the map is large, hence ids fresh; `MeaningKept` and `MapTypes` need no bound.
* **Output** (`ComponentsProofs`). `BufferInv`: the pointer is within the buffer.
  `RowsStayWithin` assumes that no row is longer than the slack (`RowsFitSlack`), which is
  the assumption the run `overrun` violates: after the check there is room for
  a slack, whether the buffer has grown or not, so that neither the estimate
  nor the number of rows matters. `ShortWritesReported`: the result is fixed when `fwrite` returns,
  and what it handed on is at most on the disk then.
* **Vectors** (`ComponentsProofs`). `VectorInv`: blocks have one owner, elements have
  room, are on the heap or inside as `block` says, and are those expected at
  every place that is not spoiled (`Agree`). `expected` is what a `std::vector` would
  hold, whatever the storage has: `VectorsKeepElements` would fail for a `spoiled` that
  forgets a place. A place is spoiled by `resize` and the constructor from a size,
  by an own element pushed while growing and by a copy of a vector that shrunk on the
  heap, and is not any more when it is set or gone.
  The two properties need each other: a block that two vectors share would be written
  by one and read by the other. A new block is one nobody has, of which
  there is one because there are more names than vectors.
* **Whole runs** (`SimulatorProofs`). `GraphInv`: links are in pairs and between nodes
  (`GraphIsRead`), and ranks are none or those `flattenGraph` gives. A descent of an
  acyclic graph passes no AS twice, hence is shorter than there are nodes, and
  ranks, which are the longest descents, rise along links and leave no gap:
  `MainHandsOnAGraph` is the `WellFormed` the other modules assume. `States` says what the
  tables and queues of all ASes may hold (`GoodTable`: consistent, nothing invalid
  at a ROV AS, an origin's own route among the others; `GoodMessage`: nothing from oneself
  but over a peering with oneself). Every send and every processing stays in it, hence so
  does every loop of a call (`LoopStays`), and `RouteInv` holds between the calls:
  `DeployedAlwaysFilter`, `OriginsUseTheirOwn`. `NothingBelow` and `NothingAbove` say which ranks have
  nothing waiting inside a call (`QueuesAreEmptied`). `RecordInv` follows `main` through the list of
  announcements (`SeedsAreWritten`, of every AS that is not its own peer). For `AllIsThreeCalls`, `Left` numbers the loops of
  `propagateAll` and `Settled` says who has nothing to process in each, so that the draining
  loop does nothing and the others are those of the three calls (`OneCallOrThree`).
  For `WrittenRowsAgree`, `Follows` says that every route continues the one its sender uses:
  sending keeps it (`SendFollows`), and processing does if those that others have heard
  do not change their minds (`ProcessFollows`). On the way up and down they are of ranks
  that have had their turn (`UpState`, `DownState`), or use a route of their own or of a
  customer, which nothing heard later displaces (`Lasting`).
  `FilesAssumption` has `ASN` contain the ASes of the files, which are finite.

Three properties leave out graphs on purpose. Where a pair is listed as peers and as
provider and customer, `ForwardingFollowsPath` is false: with 2 and 3 providers of
1, 3 a provider of 2, 4 of 3, and 1 and 3 peers as well, AS 4 learns the path 3, 1
on the way up, then 1's announcement over the peering replaces its earlier one at 3,
which goes over to 3, 2, 1. `RowsAgree` is about the same paths in the output and has the
same condition (`PairsRelatedOnce`). The same holds of `StableAtEnd`, in whose model a pair has one
relationship. `NoRouteComesBack` covers such graphs, but an AS that is its own peer
replaces its route by the longer one it hears from itself, and `NoSelfPeering`
excludes it. It also needs `LoopCheckLen <= MaxPathLen`, 10 and 16 in the code: with
paths of three ASes and a check from four on, TLC finds an AS that uses 2, 1, 2, cut off
and therefore no longer than its own route was.

Only model-checked: that `FlatHashMap` implements `Dictionary`, because displacement is a RECURSIVE operator, which leaves the prover without its
arithmetic. The three `Terminates` are liveness, which the proof system does not reach.

## 6. Not modelled, and what is left

* The command line (`main.cpp:71-129`) and the text of prefixes: parsing without
  state. Of `IPPrefix` only the length check is there.
* Formatting of rows (`fast_uint_to_str`), tracing (`bgp.cpp`, `as_node.cpp`), progress
  and statistics: no state depends on them. Timing and memory use likewise.
* Element access, comparison and iterators that only read, and the move operations
  of `FlatHashMap`.
* Adding links to a graph that is ranked: `flattenGraph` has to be called again, which
  `Flatten` covers (`RanksAreTight` starts from ranks left from before), but the calls of
  the library's user in `Simulator` do not include it.

Left to prove: the refinement of `FlatHashMap`, which needs its recursive operators
stated as functions first.
