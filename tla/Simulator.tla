------------------------------ MODULE Simulator ------------------------------
(***************************************************************************)
(* Whole runs: main with its fixed order of steps (main.cpp), and a        *)
(* program that uses the library as the tests do, calling what it likes in *)
(* any order after the graph is built.  There is one prefix, as in         *)
(* ASGraph; an AS without a policy is one with empty tables.               *)
(***************************************************************************)
EXTENDS GraphBuilder, SinglePhases

CONSTANTS Lines,          \* caller -> the lines its file may have
          MaxLines,       \* bound: caller -> how many lines are read
          RovFiles,       \* files of ROV ASes, as in InputFiles
          RecordFiles,    \* files of announcements, all of the one prefix
          MaxCalls        \* bound: calls of the library's user

\* ASN has the ASes of all files, which are finite.
ASSUME FilesAssumption ==
  /\ \A c \in {"main", "library"} : \A line \in Lines[c] :
       ParseLine(line) => AS1(line) \in ASN /\ AS2(line) \in ASN
  /\ \A file \in RecordFiles : Len(file) \in Nat

VARIABLES caller,   \* who runs: "main" or "library"
          stage,    \* the step that comes next
          lines,    \* lines read, calls made
          rov,      \* the ASes whose policy is ROV
          tables,   \* AS -> table of its policy
          queues,   \* AS -> received_queue_
          records,  \* announcements loaded, none before that
          next,     \* the one to seed next
          exit,     \* what main returned
          output,   \* the written files: a set of rows, or none
          origins   \* history: ASes that announced the prefix and kept their policy

routeVars == <<rov, tables, queues, origins>>

mainVars == <<records, next, exit, output>>

vars == <<caller, stage, lines, graphVars, routeVars, mainVars>>

Init ==
  /\ caller \in {"main", "library"}
  /\ stage = "build"
  /\ lines = 0
  /\ EmptyGraph
  /\ rov = {} /\ origins = {}
  /\ tables = [n \in ASN |-> EmptyTable]
  /\ queues = [n \in ASN |-> <<>>]
  /\ records = <<>> /\ next = 1
  /\ exit = "none" /\ output = {}
-----------------------------------------------------------------------------
\* The graph as the propagation sees it.
GraphView ==
  [providers |-> [n \in ASN |-> ProvidersOf(n)],
   peers     |-> [n \in ASN |-> PeersOf(n)],
   rank      |-> [n \in ASN |-> IF rank[n] < 0 THEN 0 ELSE rank[n]],
   rov       |-> rov]

Routes == [tables |-> tables, queues |-> queues]

\* Faulty variant: ROV is deployed after the announcements are seeded.
FollowingDeployLate ==
  [build |-> "flatten", flatten |-> "load", load |-> "seed", seed |-> "deploy",
   deploy |-> "propagate", propagate |-> "dump", dump |-> "done"]

\* The steps of main, one after the other.
Following == [build |-> "flatten", flatten |-> "deploy", deploy |-> "load",
              load |-> "seed", seed |-> "propagate", propagate |-> "dump", dump |-> "done"]

Return(code) == stage' = "done" /\ exit' = code
-----------------------------------------------------------------------------
\* getline in buildFromCAIDAFile
ReadFile ==
  /\ stage = "build" /\ lines < MaxLines[caller]
  /\ \E line \in Lines[caller] : ReadLine(line)
  /\ lines' = lines + 1
  /\ UNCHANGED <<caller, stage, routeVars, mainVars>>

FileUnreadable ==
  /\ stage = "build" /\ caller = "main" /\ lines = 0
  /\ Return("1")
  /\ UNCHANGED <<caller, lines, graphVars, routeVars, records, next, output>>

\* A file with a cycle is refused; the user of the library gives up as well.
RefuseGraph ==
  /\ stage = "build"
  /\ HasCycle
  /\ Return(IF caller = "main" THEN "1" ELSE "none")
  /\ UNCHANGED <<caller, lines, graphVars, routeVars, records, next, output>>

\* Faulty variant: the file is not looked through for cycles.
AcceptAnyGraph ==
  /\ stage = "build"
  /\ stage' = IF caller = "main" THEN Following["build"] ELSE "calls"
  /\ lines' = 0
  /\ UNCHANGED <<caller, graphVars, routeVars, mainVars>>

AcceptGraph ==
  /\ stage = "build"
  /\ ~HasCycle
  /\ stage' = IF caller = "main" THEN Following["build"] ELSE "calls"
  /\ lines' = 0
  /\ UNCHANGED <<caller, graphVars, routeVars, mainVars>>

\* setPolicy(ROV) at these ASes: the new policy has no routes yet.
SetROV(ases) ==
  /\ rov' = rov \cup ases
  /\ tables' = [n \in ASN |-> IF n \in ases THEN EmptyTable ELSE tables[n]]
  /\ origins' = origins \ ases
  /\ UNCHANGED queues

\* Faulty variant: the policy is told to filter and keeps its routes.
DeployROVInPlace(list) ==
  /\ rov' = rov \cup (list \cap nodes)
  /\ UNCHANGED <<tables, queues, origins>>

\* ASes that are not in the graph are skipped.
DeployROV(list) == SetROV(list \cap nodes)

\* An announcement of its own at one AS, through the filter of its policy.
SeedAnnouncement(n, invalid) ==
  /\ tables' = [tables EXCEPT
       ![n] = Admit(GraphView, n, @, MakeAnnouncement(<<n>>, n, "ORIGIN", invalid))]
  /\ origins' = IF n \in rov /\ invalid THEN origins ELSE origins \cup {n}
  /\ UNCHANGED <<rov, queues>>

\* A propagation on a graph that was not flattened is a warning.
Becomes(s) ==
  /\ tables' = IF Ranked THEN s.tables ELSE tables
  /\ queues' = IF Ranked THEN s.queues ELSE queues
  /\ UNCHANGED <<rov, origins>>
-----------------------------------------------------------------------------
Enter(step) ==
  /\ caller = "main" /\ stage = step
  /\ stage' = Following[step]
  /\ UNCHANGED <<caller, lines>>

MainFlattens ==
  /\ Enter("flatten")
  /\ FlattenGraph
  /\ UNCHANGED <<routeVars, mainVars>>

\* The list goes through a temporary file, which may fail to be written or read.
\* Then as with an empty list nothing is deployed.
MainDeploys ==
  /\ Enter("deploy")
  /\ \E file \in RovFiles \cup {<<>>} : DeployROV(ToSet(ParseRovAsnsCsv(file)))
  /\ UNCHANGED <<graphVars, mainVars>>

MainLoads ==
  /\ Enter("load")
  /\ \E file \in RecordFiles : records' = ParseAnnouncementsCsv(file)
  /\ records' # <<>>
  /\ UNCHANGED <<graphVars, routeVars, next, exit, output>>

NothingToAnnounce ==
  /\ stage = "load"
  /\ \E file \in RecordFiles : ParseAnnouncementsCsv(file) = <<>>
  /\ Return("1")
  /\ UNCHANGED <<caller, lines, graphVars, routeVars, records, next, output>>

\* Whether the record is of an AS of the graph and of a prefix that parses.
Announceable(record) == record.asn \in nodes /\ Parses(record.prefix)

MainSeeds ==
  /\ stage = "seed" /\ next <= Len(records)
  /\ IF Announceable(records[next])
     THEN SeedAnnouncement(records[next].asn, records[next].rov_invalid)
     ELSE UNCHANGED routeVars
  /\ next' = next + 1
  /\ UNCHANGED <<caller, stage, lines, graphVars, records, exit, output>>

MainHasSeeded ==
  /\ next > Len(records)
  /\ Enter("seed")
  /\ UNCHANGED <<graphVars, routeVars, mainVars>>

MainPropagates ==
  /\ Enter("propagate")
  /\ Becomes(PropagateAll(GraphView, Routes))
  /\ UNCHANGED <<graphVars, mainVars>>

\* The rows dumpToCSV formats.
Rows == {<<n, tables[n].best.path>> : n \in {m \in nodes : tables[m].best # NoRoute}}

\* A file that cannot be opened or written makes no difference to main.
MainDumps ==
  /\ stage = "dump"
  /\ output' \in {{}, {Rows}}
  /\ Return("0")
  /\ UNCHANGED <<caller, lines, graphVars, routeVars, records, next>>
-----------------------------------------------------------------------------
Call ==
  /\ stage = "calls" /\ lines < MaxCalls
  /\ lines' = lines + 1
  /\ UNCHANGED <<caller, stage, mainVars>>

LibraryFlattens == Call /\ FlattenGraph /\ UNCHANGED routeVars

LibraryDeploys == Call /\ UNCHANGED graphVars /\ \E n \in nodes : DeployROV({n})

LibrarySeeds ==
  /\ Call /\ UNCHANGED graphVars
  /\ \E n \in nodes, invalid \in BOOLEAN : SeedAnnouncement(n, invalid)

LibraryPropagatesUp ==
  Call /\ UNCHANGED graphVars /\ Becomes(PropagateUp(GraphView, Routes))

\* This phase needs no ranks.
LibraryPropagatesAcross ==
  /\ Call /\ UNCHANGED graphVars
  /\ LET after == PropagateAcross(GraphView, Routes)
     IN  tables' = after.tables /\ queues' = after.queues
  /\ UNCHANGED <<rov, origins>>

LibraryPropagatesDown ==
  Call /\ UNCHANGED graphVars /\ Becomes(PropagateDown(GraphView, Routes))

LibraryPropagatesAll ==
  Call /\ UNCHANGED graphVars /\ Becomes(PropagateAll(GraphView, Routes))

Next ==
  \/ ReadFile \/ FileUnreadable \/ RefuseGraph \/ AcceptGraph
  \/ MainFlattens \/ MainDeploys \/ MainLoads \/ NothingToAnnounce
  \/ MainSeeds \/ MainHasSeeded \/ MainPropagates \/ MainDumps
  \/ LibraryFlattens \/ LibraryDeploys \/ LibrarySeeds
  \/ LibraryPropagatesUp \/ LibraryPropagatesAcross
  \/ LibraryPropagatesDown \/ LibraryPropagatesAll

Spec == Init /\ [][Next]_vars
-----------------------------------------------------------------------------
\* What main hands to propagateAll is what the other modules assume of a graph:
\* links in pairs, as often at the one end as at the other, no cycles, providers
\* above their customers.  The reader, the search for cycles and the ranking have
\* to agree on it (main.cpp:299-313).
MainPropagatesWellFormed ==
  caller = "main" /\ stage = "propagate" => WellFormed(GraphView) /\ LinksAgree

\* "Calls propagateUp, propagateAcross, propagateDown" (as_graph.h:256-259):
\* propagateAll, which is written apart and has another loop between the
\* phases, does what the three calls do, whatever was called before.
PhasesCompose ==
  stage \in {"calls", "propagate"} /\ Ranked =>
    PropagateAll(GraphView, Routes)
      = PropagateDown(GraphView, PropagateAcross(GraphView, PropagateUp(GraphView, Routes)))

\* No call leaves an announcement in a queue: a later call in another direction
\* would process it out of its turn (as_graph.cpp:576-755).
NothingWaits == \A n \in ASN : queues[n] = <<>>

\* However the calls are ordered, an AS that deploys ROV has no invalid route
\* from then on, not even one it had before (as_graph.cpp:1239, rov.cpp:90).
DeployedFilters ==
  \A n \in rov :
    /\ tables[n].best # NoRoute => ~tables[n].best.rov_invalid
    /\ \A k \in DOMAIN tables[n].queue : ~tables[n].queue[k].rov_invalid

\* "Origin announcements have highest preference" (as_node.cpp:107): an AS that
\* announces the prefix uses its own route until its policy is replaced.  An AS
\* that is its own peer does not: its announcement comes back to it with the same
\* next hop and takes the place of the one it made.
OriginPreferredUnlessOwnPeer ==
  \A n \in origins : n \notin PeersOf(n) => tables[n].best.received_from = "ORIGIN"

\* Every announcement main accepts is in the output, at the AS that made it,
\* unless that is its own peer: no step after the seeding throws a policy away
\* (main.cpp:316-378).
SeedsReachOutput ==
  \A rows \in output, k \in DOMAIN records :
    /\ Announceable(records[k])
    /\ records[k].asn \notin PeersOf(records[k].asn)
    /\ ~(records[k].asn \in rov /\ records[k].rov_invalid)
    => <<records[k].asn, <<records[k].asn>>>> \in rows

\* No AS is its own peer or that of a provider or customer.
PairsRelatedOnce ==
  \A n \in nodes : PeersOf(n) \cap ({n} \cup ProvidersOf(n) \cup CustomersOf(n)) = {}

\* The rows of a file agree with each other: the path of a row, unless it is cut
\* off, continues as the row of its next AS says (as_graph.cpp:921-1058).
RowsAgree ==
  \A rows \in output : \A row \in rows :
    PairsRelatedOnce /\ Len(row[2]) \in 2..(MaxPathLen - 1)
      => <<row[2][2], Tail(row[2])>> \in rows
=============================================================================
