------------------------------ MODULE Components ------------------------------
(***************************************************************************)
(* Components that keep a state of their own and call no other.  In a      *)
(* behaviour one of them runs, and the others rest.                        *)
(***************************************************************************)
EXTENDS SelectBestRoute, PrefixMap, FlatHashMap, SmallVector, OutputBuffer

VARIABLE part  \* the component that runs

Part == {"selectBestRoute", "PrefixMap", "FlatHashMap", "SmallVector", "dumpToCSV"}

\* Any of choices for the component that runs, always the same for the others
Chosen(name, choices) == IF part = name THEN choices ELSE {CHOOSE c \in choices : TRUE}

ComponentsInit ==
  /\ part \in Part
  /\ announcements \in Chosen("selectBestRoute", Queues)
  /\ rows \in Chosen("dumpToCSV", Outputs)
  /\ room \in Chosen("dumpToCSV", DiskRooms)
  /\ ScanInit /\ MapInit /\ HashInit /\ VectorInit /\ DumpInit

ComponentsNext ==
  /\ UNCHANGED part
  /\ \/ part = "selectBestRoute" /\ ScanNext
     \/ part # "selectBestRoute" /\ UNCHANGED scanVars
  /\ \/ part = "PrefixMap" /\ MapNext
     \/ part # "PrefixMap" /\ UNCHANGED mapVars
  /\ \/ part = "FlatHashMap" /\ HashNext
     \/ part # "FlatHashMap" /\ UNCHANGED hashVars
  /\ \/ part = "SmallVector" /\ VectorNext
     \/ part # "SmallVector" /\ UNCHANGED vectorVars
  /\ \/ part = "dumpToCSV" /\ DumpNext
     \/ part # "dumpToCSV" /\ UNCHANGED dumpVars

ComponentsSpec ==
  ComponentsInit /\ [][ComponentsNext]_<<part, scanVars, mapVars, hashVars, vectorVars, dumpVars>>
=============================================================================
