----------------------------- MODULE OutputBuffer -----------------------------
(***************************************************************************)
(* dumpToCSV (as_graph.cpp): a row per route is formatted through a bare   *)
(* pointer into one buffer, whose size was estimated from the number of    *)
(* routes; then the buffer goes to a file through stdio.  Characters are   *)
(* counted only.                                                           *)
(***************************************************************************)
EXTENDS Integers, Sequences

CONSTANTS Outputs,     \* sequences of row lengths: one row per route, in the
                       \* order of two hash maps
          HeaderLen,   \* characters of the first line, 19
          BaseSize,    \* the estimate without routes, 21
          SizePerRow,  \* the estimate for a route, 60
          Slack,       \* the room looked for before a row is written, 200
          Growth,      \* what is added if it is not there, 10000000
          IOBufferLen, \* size of the stdio buffer, 1048576
          DiskRooms    \* how much may fit the disk

ASSUME OutputsAssumption == Outputs \subseteq Seq(Nat)

ASSUME SizesAssumption ==
  /\ {HeaderLen, BaseSize, SizePerRow, Slack, Growth} \subseteq Nat
  /\ HeaderLen <= BaseSize
  /\ Slack < Growth

ASSUME DiskAssumption == IOBufferLen \in Nat \ {0} /\ DiskRooms \subseteq Nat

VARIABLES dump,     \* the part of dumpToCSV that runs
          rows,     \* the lengths of all rows
          formatted, \* how many rows are formatted
          size,     \* output.size()
          pos,      \* write_ptr, as an offset
          room,     \* what the disk will take
          disk,     \* what it has taken
          buffered, \* what is in the stdio buffer
          returned  \* what dumpToCSV returned

bufferVars == <<rows, formatted, size, pos>>

fileVars == <<room, disk, buffered>>

dumpVars == <<dump, bufferVars, fileVars, returned>>

\* total_routes are counted, the buffer is made that large, the header put in.
DumpInit ==
  /\ dump = "format"
  /\ rows \in Outputs /\ formatted = 0
  /\ size = BaseSize + SizePerRow * Len(rows)
  /\ pos = HeaderLen
  /\ room \in DiskRooms
  /\ disk = 0 /\ buffered = 0
  /\ returned = "nothing"
-----------------------------------------------------------------------------
\* Faulty variant: room is made for a row of the estimated length.
EnsuredForAverage(sz) == IF pos + SizePerRow > sz - 1 THEN sz + Growth ELSE sz

\* "Safety check: ensure we have space" (as_graph.cpp:962)
Ensured(sz) == IF pos + Slack > sz - 1 THEN sz + Growth ELSE sz

FormatRow ==
  /\ dump = "format" /\ formatted < Len(rows)
  /\ size' = Ensured(size)
  /\ formatted' = formatted + 1
  /\ pos' = pos + rows[formatted']
  /\ UNCHANGED <<dump, rows, fileVars, returned>>

\* output.resize to what was written
Trim ==
  /\ dump = "format" /\ formatted = Len(rows)
  /\ dump' = "open"
  /\ size' = pos
  /\ UNCHANGED <<rows, formatted, pos, fileVars, returned>>

OpenFails ==
  /\ dump = "open"
  /\ dump' = "done" /\ returned' = "false"
  /\ UNCHANGED <<bufferVars, fileVars>>

Open ==
  /\ dump = "open"
  /\ dump' = "write"
  /\ UNCHANGED <<bufferVars, fileVars, returned>>

\* What fwrite hands to the system: whole buffers.  The rest waits.
Direct == (size \div IOBufferLen) * IOBufferLen

\* fwrite returns fewer characters only if the system took fewer.
Write ==
  /\ dump = "write"
  /\ disk' = IF Direct <= room THEN Direct ELSE room
  /\ buffered' = IF Direct <= room THEN size - Direct ELSE 0
  /\ dump' = "flush"
  /\ returned' = IF disk' + buffered' = size THEN "true" ELSE "false"
  /\ UNCHANGED <<bufferVars, room>>

\* fflush and fclose, whose results are not looked at.
Flush ==
  /\ dump = "flush"
  /\ disk' = IF disk + buffered <= room THEN disk + buffered ELSE room
  /\ buffered' = 0
  /\ dump' = "done"
  /\ UNCHANGED <<bufferVars, room, returned>>

DumpNext ==
  \/ FormatRow \/ Trim
  \/ OpenFails \/ Open \/ Write \/ Flush

DumpSpec == DumpInit /\ [][DumpNext]_dumpVars
-----------------------------------------------------------------------------
\* No row is written beyond the buffer, whatever the rows before it have used
\* up of the estimate (as_graph.cpp:962-969).
WithinBuffer == pos <= size

\* When the system refuses some of the whole buffers it is given, dumpToCSV
\* says so (as_graph.cpp:1075-1087).
ShortWriteIsReported == dump = "done" /\ disk < Direct => returned = "false"

\* "true if successful, false otherwise" (as_graph.h:275)
TrueIfWritten == dump = "done" /\ returned = "true" => disk = size
=============================================================================
