---------------------------- MODULE ComponentsProofs ----------------------------
(***************************************************************************)
(* Theorems about the components that call no other: the scan of           *)
(* selectBestRoute, the prefix ids, the output buffer and the vectors,     *)
(* each for itself.                                                        *)
(***************************************************************************)
EXTENDS SelectBestRoute, PrefixMap, OutputBuffer, SmallVector, RouteTableProofs
-----------------------------------------------------------------------------
(***************************************************************************)
(* The scan of selectBestRoute is correct on queues of every length.       *)
(***************************************************************************)

\* The loop invariant: best stays within the examined part, and a result is
\* only there once everything has been examined.
LoopInv ==
  /\ ScanTypeOK
  /\ best < i
  /\ BestOfExamined
  /\ result # NoRoute => /\ i = Len(announcements) + 1
                         /\ result = announcements[best]

LEMMA QueueFacts ==
  ASSUME announcements \in Queues
  PROVE  /\ announcements \in Seq(Announcement)
         /\ DOMAIN announcements = 1..Len(announcements)
         /\ Len(announcements) \in Nat \ {0}
         /\ \A k \in DOMAIN announcements : announcements[k] \in Announcement
<1>1. announcements \in Seq(Announcement) /\ announcements # <<>>
  BY QueuesAssumption
<1>2. QED BY <1>1

LEMMA InitLoopInv == ScanInit => LoopInv
<1>1. SUFFICES ASSUME ScanInit PROVE LoopInv
  OBVIOUS
<1>2. ScanTypeOK
  BY <1>1, QueueFacts DEF ScanInit, ScanTypeOK
<1>3. BestOfExamined
  <2>1. ~Outranks(announcements[1], announcements[1])
    BY <1>1, QueueFacts, OutranksByScore DEF ScanInit
  <2>2. QED BY <1>1, <2>1 DEF ScanInit, BestOfExamined
<1>4. QED BY <1>1, <1>2, <1>3 DEF ScanInit, LoopInv

LEMMA NextLoopInv == LoopInv /\ [ScanNext]_scanVars => LoopInv'
<1>1. SUFFICES ASSUME LoopInv, [ScanNext]_scanVars PROVE LoopInv'
  OBVIOUS
<1>2. /\ announcements \in Seq(Announcement)
      /\ DOMAIN announcements = 1..Len(announcements)
      /\ Len(announcements) \in Nat \ {0}
      /\ \A k \in DOMAIN announcements : announcements[k] \in Announcement
  BY <1>1, QueueFacts DEF LoopInv, ScanTypeOK
<1>3. /\ i \in 2..(Len(announcements) + 1)
      /\ best \in DOMAIN announcements
      /\ result \in Announcement \cup {NoRoute}
      /\ best < i
      /\ \A j \in 1..(i - 1) : ~Outranks(announcements[j], announcements[best])
      /\ \A j \in 1..(best - 1) : Outranks(announcements[best], announcements[j])
  BY <1>1 DEF LoopInv, ScanTypeOK, BestOfExamined
<1>4. CASE Examine
  <2>1. /\ i <= Len(announcements)
        /\ i' = i + 1
        /\ announcements' = announcements
        /\ result' = result
        /\ best' = IF Outranks(announcements[i], announcements[best]) THEN i ELSE best
    BY <1>4 DEF Examine
  <2>2. result' = NoRoute
    BY <1>1, <2>1, <1>2 DEF LoopInv
  <2>3. announcements[i] \in Announcement /\ announcements[best] \in Announcement
    BY <1>2, <1>3, <2>1
  <2>4. i' \in 2..(Len(announcements) + 1) /\ best' \in DOMAIN announcements /\ best' < i'
    <3>1. i \in 1..Len(announcements) /\ best \in 1..Len(announcements)
      BY <1>2, <1>3, <2>1
    <3>2. best' = i \/ best' = best
      BY <2>1
    <3>3. i' \in 2..(Len(announcements) + 1)
      BY <1>2, <1>3, <2>1
    <3>4. best' \in DOMAIN announcements
      BY <1>2, <3>1, <3>2
    <3>5. best' < i'
      <4>1. i \in Int /\ best \in Int /\ i < i + 1 /\ best < i + 1 /\ i' = i + 1
        BY <1>2, <1>3, <2>1, <3>1
      <4>2. QED BY <3>2, <4>1
    <3>6. QED BY <3>3, <3>4, <3>5
  <2>5. ScanTypeOK'
    BY <1>1, <2>1, <2>2, <2>4 DEF LoopInv, ScanTypeOK
  <2>6. ASSUME NEW j \in 1..(i' - 1)
        PROVE  ~Outranks(announcements[j], announcements[best'])
    <3>1. j \in 1..(i - 1) \/ j = i
      BY <1>2, <1>3, <2>1
    <3>2. announcements[j] \in Announcement
      BY <1>2, <1>3, <2>1
    <3>3. QED BY <1>3, <2>1, <2>3, <3>1, <3>2, OutranksByScore
  <2>7. ASSUME NEW j \in 1..(best' - 1)
        PROVE  Outranks(announcements[best'], announcements[j])
    <3>1. CASE Outranks(announcements[i], announcements[best])
      <4>1. j \in 1..(i - 1) /\ best' = i
        BY <1>2, <1>3, <2>1, <3>1
      <4>2. announcements[j] \in Announcement /\ ~Outranks(announcements[j], announcements[best])
        BY <1>2, <1>3, <2>1, <4>1
      <4>3. QED BY <2>3, <3>1, <4>1, <4>2, OutranksByScore
    <3>2. CASE ~Outranks(announcements[i], announcements[best])
      BY <1>3, <2>1, <3>2
    <3>3. QED BY <3>1, <3>2
  <2>8. BestOfExamined'
    BY <2>1, <2>6, <2>7 DEF BestOfExamined
  <2>9. QED BY <2>2, <2>4, <2>5, <2>8 DEF LoopInv
<1>5. CASE Return
  <2>1. /\ i > Len(announcements)
        /\ result' = announcements[best]
        /\ i' = i /\ best' = best /\ announcements' = announcements
    BY <1>5 DEF Return
  <2>2. result' \in Announcement
    BY <1>2, <1>3, <2>1
  <2>3. i = Len(announcements) + 1
    BY <1>2, <1>3, <2>1
  <2>4. QED BY <1>1, <2>1, <2>2, <2>3 DEF LoopInv, ScanTypeOK, BestOfExamined
<1>6. CASE UNCHANGED scanVars
  BY <1>1, <1>6 DEF LoopInv, ScanTypeOK, BestOfExamined, scanVars
<1>7. QED BY <1>1, <1>4, <1>5, <1>6 DEF ScanNext

LEMMA LoopInvariance == ScanSpec => []LoopInv
BY InitLoopInv, NextLoopInv, PTL DEF ScanSpec

\* ScanTypeOK: the index and the best stay within the queue.
THEOREM ScanStaysInQueue == ScanSpec => []ScanTypeOK
<1>1. LoopInv => ScanTypeOK
  BY DEF LoopInv
<1>2. QED BY <1>1, LoopInvariance, PTL

\* BestOfExamined: after every iteration best is the first of the most preferred
\* routes examined so far.
THEOREM ScanKeepsBest == ScanSpec => []BestOfExamined
<1>1. LoopInv => BestOfExamined
  BY DEF LoopInv
<1>2. QED BY <1>1, LoopInvariance, PTL

\* At the end of the scan the examined part is the whole queue.
LEMMA LoopInvSelects == LoopInv => ReturnsSelection
<1>1. SUFFICES ASSUME LoopInv, result # NoRoute
               PROVE  result = SelectBestRoute(announcements)
  BY DEF ReturnsSelection
<1>2. announcements \in Seq(Announcement) /\ DOMAIN announcements = 1..Len(announcements)
  BY <1>1, QueueFacts DEF LoopInv, ScanTypeOK
<1>3. best \in DOMAIN announcements /\ result = announcements[best]
  BY <1>1 DEF LoopInv, ScanTypeOK
<1>4. IsSelection(announcements, best)
  BY <1>1, <1>2 DEF LoopInv, BestOfExamined, IsSelection
<1>5. QED BY <1>2, <1>3, <1>4, SelectionUnique

(***************************************************************************)
(* Whatever the queue, the scan returns the route that operator            *)
(* SelectBestRoute of RouteTable names; the tables of the other modules    *)
(* may therefore use the operator in place of the loop.                    *)
(***************************************************************************)
THEOREM ScanSelects == ScanSpec => []ReturnsSelection
BY LoopInvariance, LoopInvSelects, PTL

(***************************************************************************)
(* No candidate has a better score than the route returned: the scan and   *)
(* the packed score never disagree about the winner.                       *)
(***************************************************************************)
THEOREM ScanAgreesWithScore == ScanSpec => []ReturnsLowestScore
<1>1. LoopInv => ReturnsLowestScore
  <2>1. SUFFICES ASSUME LoopInv, result # NoRoute, NEW j \in DOMAIN announcements
                 PROVE  ~Better(announcements[j], result)
    BY DEF ReturnsLowestScore
  <2>2. /\ announcements[j] \in Announcement
        /\ DOMAIN announcements = 1..Len(announcements)
    BY <2>1, QueueFacts DEF LoopInv, ScanTypeOK
  <2>3. result \in Announcement /\ result = announcements[best] /\ i = Len(announcements) + 1
    BY <2>1 DEF LoopInv, ScanTypeOK
  <2>4. ~Outranks(announcements[j], result)
    BY <2>1, <2>2, <2>3 DEF LoopInv, BestOfExamined
  <2>5. QED BY <2>2, <2>3, <2>4, ScoreIsSelectionOrder
<1>2. QED BY <1>1, LoopInvariance, PTL
-----------------------------------------------------------------------------
(***************************************************************************)
(* Prefix ids mean what they should for as long as there are no more       *)
(* prefixes than ids.                                                      *)
(***************************************************************************)

Known == DOMAIN string_to_id

\* There are as many strings as known prefixes; only this keeps the size, from
\* which the next id is made, below the number of ids.
MapInv ==
  /\ MapTypeOK
  /\ Len(id_to_string) = Cardinality(Known)
  /\ RoundTrips

LEMMA NewIdInRange ==
  ASSUME Cardinality(Prefix) <= IdSpace, MapInv, NEW prefix \in Prefix, prefix \notin Known
  PROVE  /\ Len(id_to_string) \in Id
         /\ Len(id_to_string) % IdSpace = Len(id_to_string)
<1>1. IsFiniteSet(Known) /\ Known \subseteq Prefix
  BY PrefixAssumption, FS_Subset DEF MapInv, MapTypeOK, Known
<1>2. /\ Cardinality(Known) \in Nat /\ Cardinality(Prefix) \in Nat
      /\ Known # Prefix
  BY <1>1, PrefixAssumption, FS_CardinalityType
<1>3. Cardinality(Known) < Cardinality(Prefix)
  BY <1>1, <1>2, PrefixAssumption, FS_Subset
<1>4. Len(id_to_string) \in Nat /\ Len(id_to_string) < IdSpace
  BY <1>2, <1>3, IdSpaceAssumption DEF MapInv
<1>5. QED BY <1>4, IdSpaceAssumption DEF Id

LEMMA MapInvStep ==
  ASSUME Cardinality(Prefix) <= IdSpace, MapInv, [MapNext]_mapVars
  PROVE  MapInv'
<1>1. ASSUME NEW prefix \in Prefix, GetPrefixId(prefix) PROVE MapInv'
  <2> DEFINE old == id_to_string
             new == id_to_string'
  <2>1. /\ prefix \notin Known /\ old \in Seq(Prefix)
        /\ new = Append(old, prefix)
        /\ string_to_id' = With(string_to_id, prefix, Len(old) % IdSpace)
    BY <1>1 DEF GetPrefixId, Known, MapInv, MapTypeOK
  <2>2. /\ new \in Seq(Prefix)
        /\ Len(new) = Len(old) + 1 /\ Len(old) \in Nat
        /\ new[Len(old) + 1] = prefix
        /\ \A k \in 1..Len(old) : new[k] = old[k]
    BY <2>1
  <2>3. Len(old) \in Id /\ Len(old) % IdSpace = Len(old)
    BY <2>1, NewIdInRange
  <2>4. /\ Known' = Known \cup {prefix}
        /\ string_to_id'[prefix] = Len(old)
        /\ \A p \in Known : string_to_id'[p] = string_to_id[p]
    <3>1. string_to_id' = With(string_to_id, prefix, Len(old))
      BY <2>1, <2>3
    <3>2. /\ DOMAIN string_to_id' = DOMAIN string_to_id \cup {prefix}
          /\ string_to_id'[prefix] = Len(old)
          /\ \A p \in DOMAIN string_to_id :
               p # prefix => string_to_id'[p] = string_to_id[p]
      BY <3>1 DEF With
    <3>3. QED BY <2>1, <3>2 DEF Known
  <2>5. Len(new) = Cardinality(Known')
    <3>1. IsFiniteSet(Known)
      BY PrefixAssumption, FS_Subset DEF MapInv, MapTypeOK, Known
    <3>2. Cardinality(Known \cup {prefix}) = Cardinality(Known) + 1
      BY <2>1, <3>1, FS_AddElement
    <3>3. QED BY <2>2, <2>4, <3>2 DEF MapInv
  <2> HIDE DEF old, new
  <2>6. ASSUME NEW p \in Known'
        PROVE  /\ string_to_id'[p] \in Id
               /\ string_to_id'[p] < Len(new)
               /\ new[string_to_id'[p] + 1] = p
    <3>1. CASE p = prefix
      BY <2>2, <2>3, <2>4, <3>1
    <3>2. CASE p \in Known
      <4>1. /\ string_to_id[p] \in Id /\ string_to_id[p] < Len(old)
            /\ old[string_to_id[p] + 1] = p
        BY <3>2 DEF MapInv, MapTypeOK, RoundTrips, Known, old
      <4>2. string_to_id[p] \in Nat /\ string_to_id[p] + 1 \in 1..Len(old)
        BY <2>2, <4>1 DEF Id
      <4>3. QED BY <2>2, <2>4, <3>2, <4>1, <4>2
    <3>3. QED BY <2>4, <2>6, <3>1, <3>2
  <2>7. Known' \subseteq Prefix
    BY <2>4 DEF MapInv, MapTypeOK, Known
  <2>8. QED BY <2>2, <2>5, <2>6, <2>7 DEF MapInv, MapTypeOK, RoundTrips, Known, new
<1>2. CASE Reset
  <2>1. id_to_string' = <<>> /\ Known' = {} /\ Cardinality({}) = 0
    BY <1>2, FS_EmptySet DEF Reset, Known
  <2>2. id_to_string' \in Seq(Prefix) /\ Len(id_to_string') = 0
    BY <2>1
  <2>3. QED BY <2>1, <2>2 DEF MapInv, MapTypeOK, RoundTrips, Known
<1>3. CASE UNCHANGED mapVars
  BY <1>3 DEF MapInv, MapTypeOK, RoundTrips, Known, mapVars
<1>4. QED BY <1>1, <1>2, <1>3 DEF MapNext

LEMMA MapInvariant == ASSUME Cardinality(Prefix) <= IdSpace PROVE MapSpec => []MapInv
<1>1. MapInit => MapInv
  <2>1. SUFFICES ASSUME MapInit PROVE MapInv
    OBVIOUS
  <2>2. id_to_string = <<>> /\ Known = {} /\ Cardinality({}) = 0
    BY <2>1, FS_EmptySet DEF MapInit, Known
  <2>3. id_to_string \in Seq(Prefix) /\ Len(id_to_string) = 0
    BY <2>2
  <2>4. QED BY <2>2, <2>3 DEF MapInv, MapTypeOK, RoundTrips, Known
<1>2. MapInv /\ [MapNext]_mapVars => MapInv'
  BY MapInvStep
<1>3. QED BY <1>1, <1>2, PTL DEF MapSpec
-----------------------------------------------------------------------------
\* MapTypeOK, with no bound on the prefixes: ids are made of 16 bits.
THEOREM MapTypes == MapSpec => []MapTypeOK
<1>1. MapInit => MapTypeOK
  BY DEF MapInit, MapTypeOK
<1>2. MapTypeOK /\ [MapNext]_mapVars => MapTypeOK'
  <2>1. SUFFICES ASSUME MapTypeOK, [MapNext]_mapVars PROVE MapTypeOK'
    OBVIOUS
  <2>2. ASSUME NEW prefix \in Prefix, GetPrefixId(prefix) PROVE MapTypeOK'
    <3>1. PICK id : id = Len(id_to_string) % IdSpace
      OBVIOUS
    <3>2. id \in Id
      BY <2>1, <3>1, IdSpaceAssumption DEF MapTypeOK, Id
    <3>3. string_to_id' = With(string_to_id, prefix, id)
      BY <2>2, <3>1 DEF GetPrefixId
    <3>4. /\ DOMAIN string_to_id' \subseteq Prefix
          /\ \A p \in DOMAIN string_to_id' : string_to_id'[p] \in Id
      BY <2>1, <3>2, <3>3 DEF With, MapTypeOK
    <3>5. id_to_string' \in Seq(Prefix)
      BY <2>1, <2>2 DEF GetPrefixId, MapTypeOK
    <3>6. QED BY <3>4, <3>5 DEF MapTypeOK
  <2>3. CASE Reset
    BY <2>3 DEF Reset, MapTypeOK
  <2>4. CASE UNCHANGED mapVars
    BY <2>1, <2>4 DEF mapVars, MapTypeOK
  <2>5. QED BY <2>1, <2>2, <2>3, <2>4 DEF MapNext
<1>3. QED BY <1>1, <1>2, PTL DEF MapSpec

\* With at most 65536 prefixes getPrefixString inverts getPrefixId.
THEOREM MapRoundTrips == ASSUME Cardinality(Prefix) <= IdSpace PROVE MapSpec => []RoundTrips
<1>1. MapInv => RoundTrips
  BY DEF MapInv
<1>2. QED BY <1>1, MapInvariant, PTL

\* With at most 65536 prefixes the ids are unique, as prefix_map.h:30 says of
\* any number.
THEOREM UniqueWhileTheyFit ==
  ASSUME Cardinality(Prefix) <= IdSpace PROVE MapSpec => []IdsAreUnique
<1>1. MapInv => IdsAreUnique
  BY DEF MapInv, RoundTrips, IdsAreUnique
<1>2. QED BY <1>1, MapInvariant, PTL

\* An id keeps its meaning until the mapping is reset.
THEOREM MeaningKept == MapSpec => IdsKeepMeaning
<1>1. [MapNext]_mapVars => [id_to_string' # <<>> =>
        \A p \in DOMAIN string_to_id :
          p \in DOMAIN string_to_id' /\ string_to_id'[p] = string_to_id[p]]_mapVars
  <2>1. ASSUME NEW prefix \in Prefix, GetPrefixId(prefix),
               NEW p \in DOMAIN string_to_id
        PROVE  p \in DOMAIN string_to_id' /\ string_to_id'[p] = string_to_id[p]
    <3>1. PICK id : string_to_id' = With(string_to_id, prefix, id)
      BY <2>1 DEF GetPrefixId
    <3>2. p # prefix
      BY <2>1 DEF GetPrefixId
    <3>3. QED BY <2>1, <3>1, <3>2 DEF With
  <2>2. Reset => id_to_string' = <<>>
    BY DEF Reset
  <2>3. QED BY <2>1, <2>2 DEF MapNext
<1>2. QED BY <1>1, PTL DEF MapSpec, IdsKeepMeaning
-----------------------------------------------------------------------------
(***************************************************************************)
(* The buffer of dumpToCSV holds all rows, as long as none is longer than  *)
(* the room looked for; and a failure of the system to take whole buffers  *)
(* is reported.  Both for any sizes and any number of rows.                *)
(***************************************************************************)

\* No row is longer than the room that is looked for before it is written.
RowsFitSlack ==
  \A lengths \in Outputs : \A k \in DOMAIN lengths : lengths[k] <= Slack + 1

BufferInv ==
  /\ rows \in Outputs
  /\ formatted \in Nat
  /\ size \in Nat /\ pos \in Nat
  /\ WithinBuffer

LEMMA BufferInitially == DumpInit => BufferInv
<1>1. SUFFICES ASSUME DumpInit PROVE BufferInv
  OBVIOUS
<1>2. rows \in Seq(Nat) /\ Len(rows) \in Nat
  BY <1>1, OutputsAssumption DEF DumpInit
<1>3. SizePerRow * Len(rows) \in Nat
  BY <1>2, SizesAssumption
<1>4. QED BY <1>1, <1>3, SizesAssumption DEF DumpInit, BufferInv, WithinBuffer

\* Formatting a row keeps it within the buffer; the other steps leave the
\* buffer alone or cut it off behind the last row.
LEMMA BufferKept == RowsFitSlack /\ BufferInv /\ [DumpNext]_dumpVars => BufferInv'
<1>1. SUFFICES ASSUME RowsFitSlack, BufferInv, [DumpNext]_dumpVars PROVE BufferInv'
  OBVIOUS
<1>2. CASE FormatRow
  <2>1. rows \in Seq(Nat) /\ Len(rows) \in Nat
    BY <1>1, OutputsAssumption DEF BufferInv
  <2>2. formatted' \in 1..Len(rows)
    BY <1>1, <1>2, <2>1 DEF FormatRow, BufferInv
  <2>3. rows[formatted'] \in Nat /\ rows[formatted'] <= Slack + 1
    BY <1>1, <2>1, <2>2 DEF RowsFitSlack, BufferInv
  <2>4. size' \in Nat /\ pos + Slack + 1 <= size'
    <3>1. /\ size \in Nat /\ pos \in Nat /\ pos <= size
          /\ Slack \in Nat /\ Growth \in Nat /\ Slack < Growth
      BY <1>1, SizesAssumption DEF BufferInv, WithinBuffer
    <3>2. size' = IF pos + Slack > size - 1 THEN size + Growth ELSE size
      BY <1>2 DEF FormatRow, Ensured
    <3>3. QED BY ONLY <3>1, <3>2
  <2>5. pos' \in Nat /\ pos' <= size'
    <3>1. pos \in Nat /\ Slack \in Nat
      BY <1>1, SizesAssumption DEF BufferInv
    <3>2. pos' = pos + rows[formatted']
      BY <1>2 DEF FormatRow
    <3>3. QED BY ONLY <2>3, <2>4, <3>1, <3>2
  <2>6. QED BY <1>1, <1>2, <2>2, <2>4, <2>5 DEF FormatRow, BufferInv, WithinBuffer
<1>3. CASE Trim
  BY <1>1, <1>3 DEF Trim, BufferInv, WithinBuffer
<1>4. CASE UNCHANGED bufferVars
  BY <1>1, <1>4 DEF bufferVars, BufferInv, WithinBuffer
<1>5. QED
  BY <1>1, <1>2, <1>3, <1>4
  DEF DumpNext, OpenFails, Open, Write, Flush, dumpVars, bufferVars

\* WithinBuffer, for outputs whose rows all fit the slack: whatever rows come in
\* whatever order, the pointer of dumpToCSV stays in the buffer
\* (as_graph.cpp:952-1058).
THEOREM RowsStayWithin == RowsFitSlack => (DumpSpec => []WithinBuffer)
<1>1. SUFFICES ASSUME RowsFitSlack PROVE DumpSpec => []WithinBuffer
  OBVIOUS
<1>2. BufferInv /\ [DumpNext]_dumpVars => BufferInv'
  BY <1>1, BufferKept
<1>3. BufferInv => WithinBuffer
  BY DEF BufferInv
<1>4. QED BY <1>2, <1>3, BufferInitially, PTL DEF DumpSpec
-----------------------------------------------------------------------------
\* Whole buffers are at most what there is to write.
LEMMA WholeBuffers ==
  ASSUME NEW n \in Nat, NEW len \in Nat \ {0}
  PROVE  (n \div len) * len \in Nat /\ (n \div len) * len <= n
<1>1. n \div len \in Nat
  OBVIOUS
<1>2. len * (n \div len) <= n
  OBVIOUS
<1>3. (n \div len) * len = len * (n \div len) /\ (n \div len) * len \in Nat
  BY <1>1
<1>4. QED BY <1>2, <1>3

\* What the disk has, and what was returned, after fwrite and at the end.
WriteInv ==
  /\ rows \in Outputs /\ formatted \in Nat
  /\ size \in Nat /\ pos \in Nat
  /\ room \in Nat /\ disk \in Nat /\ buffered \in Nat
  /\ dump = "flush" => returned = "false" \/ (disk = Direct /\ Direct <= room)
  /\ dump = "done" => returned = "false" \/ Direct <= disk

LEMMA WriteInitially == DumpInit => WriteInv
<1>1. SUFFICES ASSUME DumpInit PROVE WriteInv
  OBVIOUS
<1>2. rows \in Seq(Nat) /\ Len(rows) \in Nat
  BY <1>1, OutputsAssumption DEF DumpInit
<1>3. SizePerRow * Len(rows) \in Nat
  BY <1>2, SizesAssumption
<1>4. QED BY <1>1, <1>3, SizesAssumption, DiskAssumption DEF DumpInit, WriteInv

\* What fwrite leaves behind: whole buffers on the disk, or the truth told.
LEMMA WriteKept == WriteInv /\ Write => WriteInv'
<1>1. SUFFICES ASSUME WriteInv, Write PROVE WriteInv'
  OBVIOUS
<1>2. Direct \in Nat /\ Direct <= size
  BY <1>1, WholeBuffers, DiskAssumption DEF WriteInv, Direct
<1>3. Direct' = Direct
  BY <1>1 DEF Write, bufferVars, Direct
<1>4. /\ UNCHANGED <<rows, formatted, size, pos, room>>
      /\ dump' = "flush"
  BY <1>1 DEF Write, bufferVars
<1>5. CASE Direct <= room
  <2>1. disk' = Direct /\ buffered' = size - Direct
    BY <1>1, <1>5 DEF Write
  <2>2. buffered' \in Nat
    BY <1>1, <1>2, <2>1 DEF WriteInv
  <2> HIDE DEF Direct
  <2>3. QED BY <1>1, <1>2, <1>3, <1>4, <1>5, <2>1, <2>2 DEF WriteInv
<1>6. CASE ~(Direct <= room)
  <2>1. disk' = room /\ buffered' = 0
    BY <1>1, <1>6 DEF Write
  <2>2. disk' + buffered' # size
    BY <1>1, <1>2, <1>6, <2>1 DEF WriteInv
  <2>3. returned' = "false"
    BY <1>1, <2>2 DEF Write
  <2>4. QED BY <1>1, <1>4, <2>1, <2>3 DEF WriteInv
<1>7. QED BY <1>5, <1>6

\* fflush only adds to what the disk has.
LEMMA FlushKept == WriteInv /\ Flush => WriteInv'
<1>1. SUFFICES ASSUME WriteInv, Flush PROVE WriteInv'
  OBVIOUS
<1>2. Direct \in Nat /\ Direct' = Direct
  BY <1>1, WholeBuffers, DiskAssumption DEF WriteInv, Direct, Flush, bufferVars
<1>3. /\ UNCHANGED <<rows, formatted, size, pos, room, returned>>
      /\ dump = "flush" /\ dump' = "done" /\ buffered' = 0
  BY <1>1 DEF Flush, bufferVars
<1>4. disk' \in Nat /\ (disk = Direct /\ Direct <= room => Direct <= disk')
  BY <1>1, <1>2 DEF Flush, WriteInv
<1>5. QED BY <1>1, <1>2, <1>3, <1>4 DEF WriteInv

LEMMA FormatKept == WriteInv /\ (FormatRow \/ Trim) => WriteInv'
<1>1. CASE WriteInv /\ FormatRow
  <2>1. rows \in Seq(Nat) /\ Len(rows) \in Nat
    BY <1>1, OutputsAssumption DEF WriteInv
  <2>2. formatted' \in 1..Len(rows)
    BY <1>1, <2>1 DEF FormatRow, WriteInv
  <2>3. rows[formatted'] \in Nat
    BY <2>1, <2>2
  <2>4. size' \in Nat
    <3>1. size \in Nat /\ pos \in Nat /\ Growth \in Nat
      BY <1>1, SizesAssumption DEF WriteInv
    <3>2. size' = size \/ size' = size + Growth
      BY <1>1 DEF FormatRow, Ensured
    <3>3. QED BY ONLY <3>1, <3>2
  <2>5. pos' \in Nat
    <3>1. pos' = pos + rows[formatted'] /\ pos \in Nat
      BY <1>1 DEF FormatRow, WriteInv
    <3>2. QED BY <2>3, <3>1
  <2>6. QED BY <1>1, <2>2, <2>4, <2>5 DEF FormatRow, WriteInv, fileVars
<1>2. CASE WriteInv /\ Trim
  BY <1>2 DEF Trim, WriteInv, fileVars
<1>3. QED BY <1>1, <1>2

\* ShortWriteIsReported, for every size of the stdio buffer, of the output and
\* of the room on the disk: fwrite's result tells whenever whole buffers were
\* refused (as_graph.cpp:1075-1087).
THEOREM ShortWritesReported == DumpSpec => []ShortWriteIsReported
<1>1. WriteInv /\ [DumpNext]_dumpVars => WriteInv'
  <2>1. SUFFICES ASSUME WriteInv, [DumpNext]_dumpVars PROVE WriteInv'
    OBVIOUS
  <2>2. CASE OpenFails
    BY <2>1, <2>2 DEF OpenFails, WriteInv, bufferVars, fileVars
  <2>3. CASE Open
    BY <2>1, <2>3 DEF Open, WriteInv, bufferVars, fileVars
  <2>4. CASE UNCHANGED dumpVars
    BY <2>1, <2>4 DEF dumpVars, bufferVars, fileVars, WriteInv, Direct
  <2>5. QED BY <2>1, <2>2, <2>3, <2>4, WriteKept, FlushKept, FormatKept DEF DumpNext
<1>2. WriteInv => ShortWriteIsReported
  <2>1. SUFFICES ASSUME WriteInv PROVE ShortWriteIsReported
    OBVIOUS
  <2>2. Direct \in Nat
    BY <2>1, WholeBuffers, DiskAssumption DEF WriteInv, Direct
  <2> HIDE DEF Direct
  <2>3. QED BY <2>1, <2>2 DEF WriteInv, ShortWriteIsReported
<1>3. QED BY <1>1, <1>2, WriteInitially, PTL DEF DumpSpec
-----------------------------------------------------------------------------
(***************************************************************************)
(* The vectors of small_vector.h, whatever is called on them.  First, what *)
(* copying elements and allocating does.                                   *)
(***************************************************************************)
LEMMA SameElements ==
  ASSUME NEW seq \in Seq(Content), NEW other \in Seq(Content), Len(seq) = Len(other),
         \A k \in 1..Len(seq) : seq[k] = other[k]
  PROVE  seq = other
OBVIOUS

LEMMA CellsResult ==
  ASSUME NEW n \in Nat
  PROVE  Cells(n) \in Seq(Content) /\ Len(Cells(n)) = n
<1>1. Cells(n) \in [1..n -> Content]
  BY DEF Cells, Content
<1>2. QED BY <1>1

LEMMA OverResult ==
  ASSUME NEW seq \in Seq(Content), NEW cells \in Seq(Content)
  PROVE  /\ Over(seq, cells) \in Seq(Content)
         /\ Len(Over(seq, cells)) = Len(cells)
         /\ \A k \in 1..Len(cells) :
              Over(seq, cells)[k] = IF k <= Len(seq) THEN seq[k] ELSE cells[k]
<1>1. DOMAIN cells = 1..Len(cells) /\ DOMAIN seq = 1..Len(seq) /\ Len(seq) \in Nat /\ Len(cells) \in Nat
  OBVIOUS
<1>2. \A k \in 1..Len(cells) : (k <= Len(seq) => seq[k] \in Content) /\ cells[k] \in Content
  OBVIOUS
<1>3. Over(seq, cells) = [k \in 1..Len(cells) |-> IF k <= Len(seq) THEN seq[k] ELSE cells[k]]
  BY <1>1 DEF Over
<1>4. Over(seq, cells) \in [1..Len(cells) -> Content]
  BY <1>2, <1>3
<1>5. QED BY <1>1, <1>3, <1>4

LEMMA FirstElements ==
  ASSUME NEW seq \in Seq(Content), NEW length \in 0..Len(seq)
  PROVE  /\ SubSeq(seq, 1, length) \in Seq(Content)
         /\ Len(SubSeq(seq, 1, length)) = length
         /\ \A k \in 1..length : SubSeq(seq, 1, length)[k] = seq[k]
OBVIOUS

LEMMA OverlaidResult ==
  ASSUME NEW inline \in Seq(Content)
  PROVE  /\ Overlaid(inline) \in Seq(Content) /\ Len(Overlaid(inline)) = Len(inline)
         /\ \A k \in 1..Len(inline) : k > PointerCells => Overlaid(inline)[k] = inline[k]
<1>1. /\ Cells(PointerCells) \in Seq(Content) /\ Len(Cells(PointerCells)) = PointerCells
      /\ PointerCells \in Nat
  BY CellsResult, CapacityAssumption
<1>2. QED BY <1>1, OverResult DEF Overlaid

\* There is an address left.
LEMMA FreshBlockResult ==
  ASSUME DOMAIN blocks \subseteq {vectors[v].block : v \in Vectors}
  PROVE  FreshBlock(blocks) \in Nat \ DOMAIN blocks
<1> DEFINE n == Cardinality(Vectors)
           owners == {v \in Vectors : vectors[v].block \in DOMAIN blocks}
           f == [v \in owners |-> vectors[v].block]
<1>1. n \in Nat /\ IsFiniteSet(owners) /\ Cardinality(owners) <= n /\ Cardinality(owners) \in Nat
  BY VectorsAssumption, FS_CardinalityType, FS_Subset
<1>2. f \in Surjection(owners, DOMAIN blocks)
  BY DEF Surjection
<1>3. IsFiniteSet(DOMAIN blocks) /\ Cardinality(DOMAIN blocks) <= Cardinality(owners)
  <2> HIDE DEF f, owners
  <2>1. QED BY <1>1, <1>2, FS_Surjection
<1>4. Cardinality(1..(n + 1)) = n + 1
  BY <1>1, FS_Interval
<1>5. ~(1..(n + 1) \subseteq DOMAIN blocks)
  <2>1. SUFFICES ASSUME 1..(n + 1) \subseteq DOMAIN blocks PROVE FALSE
    OBVIOUS
  <2> HIDE DEF n, owners
  <2>2. Cardinality(1..(n + 1)) <= Cardinality(DOMAIN blocks) /\ Cardinality(DOMAIN blocks) \in Nat
    BY <1>3, <2>1, FS_Subset, FS_CardinalityType
  <2>3. QED BY <1>1, <1>3, <1>4, <2>2
<1>6. PICK b \in 1..(n + 1) : b \notin DOMAIN blocks
  BY <1>5
<1>7. FreshBlock(blocks) \in 1..(n + 1) /\ FreshBlock(blocks) \notin DOMAIN blocks
  BY <1>6 DEF FreshBlock
<1>8. QED BY <1>1, <1>7

\* The block a vector has to delete
Own(vector) == IF vector = NotBuilt THEN {} ELSE {vector.block} \ {NoBlock}

DataOf(vector, bs) == IF vector.block # NoBlock THEN bs[vector.block] ELSE vector.inline

\* There is room for what a vector has, and always for N elements.
Sound(vector, bs) ==
  /\ vector \in Vector
  /\ Len(vector.inline) = N
  /\ DataOf(vector, bs) \in Seq(Content)
  /\ N <= Len(DataOf(vector, bs)) /\ vector.size <= Len(DataOf(vector, bs))

\* The elements a std::vector may have
Value == Content \cup {Zero}

\* These are the elements expected, but for some places.
Agree(elements, seq, places) ==
  /\ Len(elements) = Len(seq)
  /\ \A k \in (1..Len(seq)) \ places : elements[k] = seq[k]

VectorInv ==
  /\ vectors \in [Vectors -> Vector \cup {NotBuilt}]
  /\ \A v \in Built : Sound(vectors[v], blocks)
  /\ expected \in [Vectors -> Seq(Value)] /\ DOMAIN spoiled = Vectors
  /\ BlocksOwnedOnce
  /\ ElementsAsExpected

LEMMA InitVectorInv == VectorInit => VectorInv
<1>1. SUFFICES ASSUME VectorInit PROVE VectorInv
  OBVIOUS
<1>2. Built = {} /\ vectors \in [Vectors -> Vector \cup {NotBuilt}]
  BY <1>1 DEF VectorInit, Built
<1>3. DOMAIN blocks = {}
  BY <1>1 DEF VectorInit
<1>4. expected \in [Vectors -> Seq(Value)] /\ DOMAIN spoiled = Vectors
  BY <1>1 DEF VectorInit
<1>5. QED BY <1>2, <1>3, <1>4 DEF VectorInv, BlocksOwnedOnce, ElementsAsExpected

LEMMA BuiltFacts ==
  ASSUME VectorInv, NEW v \in Built
  PROVE  /\ v \in Vectors /\ vectors[v] \in Vector /\ Sound(vectors[v], blocks)
         /\ Data(v) = DataOf(vectors[v], blocks)
         /\ Data(v) \in Seq(Content) /\ Room(v) = Len(Data(v)) /\ Room(v) \in Nat
         /\ N <= Room(v) /\ vectors[v].size \in 0..Room(v)
         /\ vectors[v].inline \in Seq(Content) /\ Len(vectors[v].inline) = N
         /\ OnHeap(v) => vectors[v].block \in DOMAIN blocks
         /\ Own(vectors[v]) = {vectors[v].block} \ {NoBlock}
<1>1. v \in Vectors /\ vectors[v] # NotBuilt /\ Sound(vectors[v], blocks)
  BY DEF Built, VectorInv
<1>2. Data(v) = DataOf(vectors[v], blocks)
  BY DEF Data, DataOf, OnHeap
<1>3. vectors[v].size \in Nat /\ vectors[v].inline \in Seq(Content) /\ vectors[v] \in Vector
  BY <1>1 DEF Sound, Vector
<1>4. OnHeap(v) => vectors[v].block \in DOMAIN blocks
  BY DEF VectorInv, BlocksOwnedOnce, OnHeap
<1>5. Data(v) \in Seq(Content) /\ Len(Data(v)) \in Nat /\ Room(v) = Len(Data(v))
  BY <1>1, <1>2 DEF Sound, Room
<1>6. N <= Room(v) /\ vectors[v].size \in 0..Room(v)
  BY <1>1, <1>2, <1>3, <1>5, CapacityAssumption DEF Sound
<1>7. QED BY <1>1, <1>2, <1>3, <1>4, <1>5, <1>6 DEF Own, Sound

\* What is remembered about one vector changes.
Recorded(v, elements) ==
  /\ expected' \in [Vectors -> Seq(Value)] /\ DOMAIN spoiled' = Vectors
  /\ \A w \in Vectors \ {v} : expected'[w] = expected[w] /\ spoiled'[w] = spoiled[w]
  /\ Agree(elements, expected'[v], spoiled'[v])

LEMMA ExpectRecorded ==
  ASSUME VectorInv, NEW v \in Vectors, NEW elements, NEW seq \in Seq(Value), NEW places,
         Expect(v, seq, places), Agree(elements, seq, places)
  PROVE  Recorded(v, elements)
<1>1. expected \in [Vectors -> Seq(Value)] /\ DOMAIN spoiled = Vectors
  BY DEF VectorInv
<1>2. expected' = [expected EXCEPT ![v] = seq] /\ spoiled' = [spoiled EXCEPT ![v] = places]
  BY DEF Expect
<1>3. QED BY <1>1, <1>2 DEF Recorded

\* A step of one vector that deletes its block or none and takes one that is new.
LEMMA OneVector ==
  ASSUME VectorInv, NEW v \in Vectors, NEW vector, NEW elements,
         vectors' = [vectors EXCEPT ![v] = vector],
         DOMAIN blocks' = (DOMAIN blocks \ Own(vectors[v])) \cup Own(vector),
         Own(vector) \cap (DOMAIN blocks \ Own(vectors[v])) = {},
         \A b \in DOMAIN blocks \ Own(vectors[v]) : blocks'[b] = blocks[b],
         Recorded(v, elements),
         vector # NotBuilt => /\ Sound(vector, blocks')
                              /\ elements = SubSeq(DataOf(vector, blocks'), 1, vector.size)
  PROVE  VectorInv'
<1>1. /\ DOMAIN vectors = Vectors
      /\ vectors'[v] = vector /\ \A w \in Vectors \ {v} : vectors'[w] = vectors[w]
      /\ vectors' \in [Vectors -> Vector \cup {NotBuilt}]
  BY DEF VectorInv, Sound
<1>2. \A w \in Vectors \ {v} : w \in Built' <=> w \in Built
  BY <1>1 DEF Built
<1>3. v \in Built' <=> vector # NotBuilt
  BY <1>1 DEF Built
<1>4. ASSUME NEW w \in Built \ {v}
      PROVE  /\ DataOf(vectors[w], blocks') = DataOf(vectors[w], blocks)
             /\ vectors[w].block # NoBlock => vectors[w].block \in DOMAIN blocks \ Own(vectors[v])
  <2>1. w \in Vectors /\ (OnHeap(w) => vectors[w].block \in DOMAIN blocks)
    BY BuiltFacts
  <2>2. OnHeap(w) => vectors[w].block \notin Own(vectors[v])
    <3>1. SUFFICES ASSUME OnHeap(w), vectors[w].block \in Own(vectors[v]) PROVE FALSE
      OBVIOUS
    <3>2. v \in Built /\ vectors[w].block = vectors[v].block
      BY <3>1 DEF Own, Built
    <3>3. QED BY <3>1, <3>2 DEF VectorInv, BlocksOwnedOnce
  <2>3. QED BY <2>1, <2>2 DEF DataOf, OnHeap
<1>5. \A w \in Built' : Sound(vectors'[w], blocks')
  BY <1>1, <1>2, <1>3, <1>4 DEF Sound, VectorInv, Built
<1>6. BlocksOwnedOnce'
  <2>1. DOMAIN blocks = {vectors[w].block : w \in Built} \ {NoBlock}
    BY DEF VectorInv, BlocksOwnedOnce
  <2>2. DOMAIN blocks' = {vectors'[w].block : w \in Built'} \ {NoBlock}
    <3>1. ASSUME NEW b \in DOMAIN blocks' PROVE b # NoBlock /\ \E w \in Built' : b = vectors'[w].block
      <4>1. CASE b \in Own(vector)
        BY <1>1, <1>3, <4>1 DEF Own
      <4>2. CASE b \in DOMAIN blocks \ Own(vectors[v])
        <5>1. PICK w \in Built : b = vectors[w].block /\ b # NoBlock
          BY <2>1, <4>2
        <5>2. w # v
          BY <4>2, <5>1 DEF Own, Built
        <5>3. QED BY <1>1, <1>2, <5>1, <5>2 DEF Built
      <4>3. QED BY <4>1, <4>2
    <3>2. ASSUME NEW w \in Built', vectors'[w].block # NoBlock PROVE vectors'[w].block \in DOMAIN blocks'
      <4>1. CASE w = v
        BY <1>1, <1>3, <3>2, <4>1 DEF Own
      <4>2. CASE w # v
        BY <1>1, <1>2, <1>4, <3>2, <4>2 DEF Built
      <4>3. QED BY <4>1, <4>2
    <3>3. QED BY <3>1, <3>2
  <2>3. ASSUME NEW w \in Built', NEW u \in Built', OnHeap(w)', vectors'[w].block = vectors'[u].block
        PROVE  w = u
    <3>1. vectors'[w].block # NoBlock /\ vectors'[u].block # NoBlock
      BY <2>3 DEF OnHeap
    <3>2. CASE w # v /\ u # v
      <4>1. w \in Built /\ u \in Built /\ OnHeap(w) /\ vectors[w].block = vectors[u].block
        BY <1>1, <1>2, <2>3, <3>1, <3>2 DEF Built, OnHeap
      <4>2. QED BY <4>1 DEF VectorInv, BlocksOwnedOnce
    <3>3. CASE w # u /\ v \in {w, u}
      <4>1. PICK x \in Built' \ {v} : x \in {w, u} /\ vectors'[x].block = vectors'[v].block
        BY <2>3, <3>3
      <4>2. vectors'[x].block \in Own(vector)
        BY <1>1, <1>3, <2>3, <3>1, <3>3, <4>1 DEF Own
      <4>3. vectors'[x].block \in DOMAIN blocks \ Own(vectors[v])
        BY <1>1, <1>2, <1>4, <3>1, <4>1 DEF Built
      <4>4. QED BY <4>2, <4>3
    <3>4. QED BY <3>2, <3>3
  <2>4. QED BY <2>2, <2>3 DEF BlocksOwnedOnce
<1>7. ElementsAsExpected'
  <2>1. ASSUME NEW w \in Built'
        PROVE  /\ vectors'[w].size = Len(expected'[w])
               /\ \A k \in 1..vectors'[w].size \ spoiled'[w] :
                    DataOf(vectors'[w], blocks')[k] = expected'[w][k]
    <3>1. CASE w = v
      <4>1. vectors'[w] = vector /\ vector # NotBuilt
        BY <1>1, <1>3, <2>1, <3>1
      <4>2. Sound(vector, blocks') /\ elements = SubSeq(DataOf(vector, blocks'), 1, vector.size)
        BY <4>1
      <4>3. DataOf(vector, blocks') \in Seq(Content) /\ vector.size \in 0..Len(DataOf(vector, blocks'))
        BY <4>2 DEF Sound, Vector
      <4>4. /\ Len(elements) = vector.size
            /\ \A k \in 1..vector.size : elements[k] = DataOf(vector, blocks')[k]
        BY <4>2, <4>3, FirstElements
      <4>5. Agree(elements, expected'[v], spoiled'[v])
        BY DEF Recorded
      <4>6. QED BY <3>1, <4>1, <4>4, <4>5 DEF Agree
    <3>2. CASE w # v
      <4>1. w \in Vectors \ {v} /\ w \in Built /\ vectors'[w] = vectors[w]
        BY <1>1, <1>2, <2>1, <3>2 DEF Built
      <4>2. /\ vectors[w].size = Len(expected[w])
            /\ \A k \in 1..vectors[w].size \ spoiled[w] :
                 DataOf(vectors[w], blocks)[k] = expected[w][k]
        BY <4>1 DEF VectorInv, ElementsAsExpected, Data, DataOf, OnHeap
      <4>3. expected'[w] = expected[w] /\ spoiled'[w] = spoiled[w]
        BY <4>1 DEF Recorded
      <4>4. QED BY <1>4, <3>2, <4>1, <4>2, <4>3
    <3>3. QED BY <3>1, <3>2
  <2>2. QED BY <2>1 DEF ElementsAsExpected, Data, DataOf, OnHeap
<1>8. QED BY <1>1, <1>5, <1>6, <1>7 DEF VectorInv, Recorded

LEMMA NewBlockFacts ==
  ASSUME VectorInv
  PROVE  FreshBlock(blocks) \in Nat \ DOMAIN blocks /\ FreshBlock(blocks) # NoBlock
<1>1. DOMAIN blocks \subseteq {vectors[v].block : v \in Vectors}
  BY DEF VectorInv, BlocksOwnedOnce, Built
<1>2. QED BY <1>1, FreshBlockResult, NoBlockAssumption

LEMMA MoveToBlockResult ==
  ASSUME VectorInv, NEW v \in Built, NEW length \in Nat, NEW cells \in Seq(Content),
         N <= Len(cells), length <= Len(cells),
         MoveToBlock(v, length, cells), Recorded(v, SubSeq(cells, 1, length))
  PROVE  VectorInv'
<1> DEFINE block == FreshBlock(blocks)
           old == vectors[v].block
           inline == Overlaid(vectors[v].inline)
           vector == [size |-> length, block |-> block, inline |-> inline]
<1>1. block \in Nat \ DOMAIN blocks /\ block # NoBlock
  BY NewBlockFacts
<1>2. /\ v \in Vectors /\ Own(vectors[v]) = {old} \ {NoBlock}
      /\ old # NoBlock => old \in DOMAIN blocks
  BY BuiltFacts DEF OnHeap
<1>3. inline \in Seq(Content) /\ Len(inline) = N
  BY BuiltFacts, OverlaidResult
<1>4. /\ vectors' = [vectors EXCEPT ![v] = vector]
      /\ blocks' = Without(Allocated(blocks, block, cells), old)
  BY DEF MoveToBlock
<1> HIDE DEF block, old, inline
<1>5. vector \in Vector /\ vector # NotBuilt /\ Own(vector) = {block}
  BY <1>1, <1>3, NotBuiltAssumption DEF Vector, Own
<1>6. /\ DOMAIN blocks' = (DOMAIN blocks \cup {block}) \ {old}
      /\ \A b \in DOMAIN blocks' : blocks'[b] = IF b = block THEN cells ELSE blocks[b]
  BY <1>4 DEF Without, Allocated
<1>7. block # old /\ NoBlock \notin DOMAIN blocks
  <2>1. NoBlock \notin DOMAIN blocks
    BY DEF VectorInv, BlocksOwnedOnce
  <2>2. QED BY <1>1, <1>2, <2>1
<1>8. /\ DOMAIN blocks' = (DOMAIN blocks \ Own(vectors[v])) \cup Own(vector)
      /\ Own(vector) \cap (DOMAIN blocks \ Own(vectors[v])) = {}
      /\ \A b \in DOMAIN blocks \ Own(vectors[v]) : blocks'[b] = blocks[b]
      /\ blocks'[block] = cells
  BY <1>1, <1>2, <1>5, <1>6, <1>7
<1>9. DataOf(vector, blocks') = cells
  BY <1>1, <1>8 DEF DataOf
<1>10. Sound(vector, blocks') /\ SubSeq(cells, 1, length) = SubSeq(DataOf(vector, blocks'), 1, vector.size)
  BY <1>3, <1>5, <1>9 DEF Sound
<1> HIDE DEF vector
<1>11. QED BY <1>2, <1>4, <1>8, <1>10, OneVector

LEMMA MoveInsideResult ==
  ASSUME VectorInv, NEW v \in Built, NEW seq \in Seq(Content), Len(seq) <= N,
         MoveInside(v, seq), Recorded(v, seq)
  PROVE  VectorInv'
<1> DEFINE old == vectors[v].block
           inline == Over(seq, vectors[v].inline)
           vector == [size |-> Len(seq), block |-> NoBlock, inline |-> inline]
<1>1. /\ v \in Vectors /\ Own(vectors[v]) = {old} \ {NoBlock}
      /\ vectors[v].inline \in Seq(Content) /\ Len(vectors[v].inline) = N
  BY BuiltFacts
<1>2. /\ inline \in Seq(Content) /\ Len(inline) = N
      /\ \A k \in 1..N : inline[k] = IF k <= Len(seq) THEN seq[k] ELSE vectors[v].inline[k]
  BY <1>1, OverResult
<1>3. /\ vectors' = [vectors EXCEPT ![v] = vector]
      /\ blocks' = Without(blocks, old)
  BY DEF MoveInside
<1> HIDE DEF inline, old
<1>4. Len(seq) \in Nat /\ N \in Nat
  BY CapacityAssumption
<1>5. vector \in Vector /\ vector # NotBuilt /\ Own(vector) = {} /\ DataOf(vector, blocks') = inline
  BY <1>2, <1>4, NotBuiltAssumption DEF Vector, Own, DataOf
<1>6. /\ DOMAIN blocks' = DOMAIN blocks \ {old}
      /\ \A b \in DOMAIN blocks' : blocks'[b] = blocks[b]
      /\ NoBlock \notin DOMAIN blocks
  BY <1>3 DEF Without, VectorInv, BlocksOwnedOnce
<1>7. Sound(vector, blocks')
  BY <1>2, <1>4, <1>5 DEF Sound
<1>8. seq = SubSeq(inline, 1, Len(seq))
  <2>1. Len(seq) \in 0..Len(inline)
    BY <1>2, <1>4
  <2>2. /\ SubSeq(inline, 1, Len(seq)) \in Seq(Content)
        /\ Len(SubSeq(inline, 1, Len(seq))) = Len(seq)
        /\ \A k \in 1..Len(seq) : SubSeq(inline, 1, Len(seq))[k] = inline[k]
    BY <1>2, <2>1, FirstElements
  <2>3. \A k \in 1..Len(seq) : k \in 1..N /\ k <= Len(seq)
    BY <1>4
  <2>4. QED BY <1>2, <2>2, <2>3, SameElements
<1>9. seq = SubSeq(DataOf(vector, blocks'), 1, vector.size)
  BY <1>5, <1>8
<1>10. /\ DOMAIN blocks' = (DOMAIN blocks \ Own(vectors[v])) \cup Own(vector)
       /\ Own(vector) \cap (DOMAIN blocks \ Own(vectors[v])) = {}
       /\ \A b \in DOMAIN blocks \ Own(vectors[v]) : blocks'[b] = blocks[b]
  BY <1>1, <1>5, <1>6
<1> HIDE DEF vector
<1>11. QED BY <1>1, <1>3, <1>7, <1>9, <1>10, OneVector

LEMMA MakeResult ==
  ASSUME VectorInv, NEW v \in Vectors, NEW seq \in Seq(Content), Make(v, seq), Recorded(v, seq)
  PROVE  VectorInv'
<1> DEFINE block == FreshBlock(blocks)
<1>1. vectors[v] = NotBuilt /\ Own(vectors[v]) = {} /\ Len(seq) \in Nat /\ N \in Nat
  BY CapacityAssumption DEF Make, Built, Own
<1>2. Cells(N) \in Seq(Content) /\ Len(Cells(N)) = N
  BY CellsResult, CapacityAssumption
<1>3. CASE Len(seq) > N
  <2> DEFINE vector == [size |-> Len(seq), block |-> block, inline |-> Cells(N)]
  <2>1. block \in Nat \ DOMAIN blocks /\ block # NoBlock
    BY NewBlockFacts
  <2>2. /\ vectors' = [vectors EXCEPT ![v] = vector]
        /\ blocks' = Allocated(blocks, block, seq)
    BY <1>3 DEF Make
  <2> HIDE DEF block
  <2>3. vector \in Vector /\ vector # NotBuilt /\ Own(vector) = {block}
    BY <1>1, <1>2, <2>1, NotBuiltAssumption DEF Vector, Own
  <2>4. /\ DOMAIN blocks' = DOMAIN blocks \cup {block}
        /\ \A b \in DOMAIN blocks : blocks'[b] = blocks[b]
        /\ blocks'[block] = seq
    BY <2>1, <2>2 DEF Allocated
  <2>5. DataOf(vector, blocks') = seq
    BY <2>1, <2>4 DEF DataOf
  <2>6. Sound(vector, blocks')
    BY <1>1, <1>2, <1>3, <2>3, <2>5 DEF Sound
  <2>7. seq = SubSeq(DataOf(vector, blocks'), 1, vector.size)
    BY <2>5
  <2> HIDE DEF vector
  <2>8. QED BY <1>1, <2>1, <2>2, <2>3, <2>4, <2>6, <2>7, OneVector
<1>4. CASE Len(seq) <= N
  <2> DEFINE inline == Over(seq, Cells(N))
             vector == [size |-> Len(seq), block |-> NoBlock, inline |-> inline]
  <2>1. /\ inline \in Seq(Content) /\ Len(inline) = N
        /\ \A k \in 1..N : k <= Len(seq) => inline[k] = seq[k]
    BY <1>2, OverResult
  <2>2. vectors' = [vectors EXCEPT ![v] = vector] /\ blocks' = blocks
    BY <1>1, <1>4 DEF Make
  <2> HIDE DEF inline
  <2>3. vector \in Vector /\ vector # NotBuilt /\ Own(vector) = {} /\ DataOf(vector, blocks') = inline
    BY <1>1, <2>1, NotBuiltAssumption DEF Vector, Own, DataOf
  <2>4. Sound(vector, blocks')
    BY <1>1, <1>4, <2>1, <2>3 DEF Sound
  <2>5. seq = SubSeq(inline, 1, Len(seq))
    <3>1. Len(seq) \in 0..Len(inline) /\ \A k \in 1..Len(seq) : k \in 1..N /\ k <= Len(seq)
      BY <1>1, <1>4, <2>1
    <3>2. /\ SubSeq(inline, 1, Len(seq)) \in Seq(Content)
          /\ Len(SubSeq(inline, 1, Len(seq))) = Len(seq)
          /\ \A k \in 1..Len(seq) : SubSeq(inline, 1, Len(seq))[k] = inline[k]
      BY <2>1, <3>1, FirstElements
    <3>3. QED BY <2>1, <3>1, <3>2, SameElements
  <2>6. seq = SubSeq(DataOf(vector, blocks'), 1, vector.size)
    BY <2>3, <2>5
  <2> HIDE DEF vector
  <2>7. QED BY <1>1, <2>2, <2>3, <2>4, <2>6, OneVector
<1>5. QED BY <1>1, <1>3, <1>4

\* A vector stays where it is.
LEMMA StayResult ==
  ASSUME VectorInv, NEW v \in Built, NEW vector, NEW elements,
         vectors' = [vectors EXCEPT ![v] = vector],
         vector \in Vector, vector.block = vectors[v].block,
         DOMAIN blocks' = DOMAIN blocks,
         \A b \in DOMAIN blocks : b # vector.block => blocks'[b] = blocks[b],
         Sound(vector, blocks'),
         elements = SubSeq(DataOf(vector, blocks'), 1, vector.size),
         Recorded(v, elements)
  PROVE  VectorInv'
<1>1. /\ v \in Vectors /\ Own(vectors[v]) = {vectors[v].block} \ {NoBlock}
      /\ vectors[v].block # NoBlock => vectors[v].block \in DOMAIN blocks
  BY BuiltFacts DEF OnHeap
<1>2. Own(vector) = Own(vectors[v])
  BY <1>1, NotBuiltAssumption DEF Own
<1>3. NoBlock \notin DOMAIN blocks
  BY DEF VectorInv, BlocksOwnedOnce
<1>4. /\ DOMAIN blocks' = (DOMAIN blocks \ Own(vectors[v])) \cup Own(vector)
      /\ Own(vector) \cap (DOMAIN blocks \ Own(vectors[v])) = {}
      /\ \A b \in DOMAIN blocks \ Own(vectors[v]) : blocks'[b] = blocks[b]
  BY <1>1, <1>2, <1>3
<1>5. QED BY <1>1, <1>4, OneVector
-----------------------------------------------------------------------------
(***************************************************************************)
(* Then, one member function after the other.                              *)
(***************************************************************************)
LEMMA ContentsResult ==
  ASSUME VectorInv, NEW v \in Built
  PROVE  /\ Contents(v) \in Seq(Content) /\ Len(Contents(v)) = vectors[v].size
         /\ \A k \in 1..vectors[v].size : Contents(v)[k] = Data(v)[k]
         /\ Agree(Contents(v), expected[v], spoiled[v])
         /\ expected[v] \in Seq(Value) /\ Len(expected[v]) = vectors[v].size
<1>1. Data(v) \in Seq(Content) /\ vectors[v].size \in 0..Len(Data(v))
  BY BuiltFacts
<1>2. /\ Contents(v) \in Seq(Content) /\ Len(Contents(v)) = vectors[v].size
      /\ \A k \in 1..vectors[v].size : Contents(v)[k] = Data(v)[k]
  BY <1>1, FirstElements DEF Contents
<1>3. /\ vectors[v].size = Len(expected[v])
      /\ \A k \in 1..vectors[v].size \ spoiled[v] : Data(v)[k] = expected[v][k]
  BY DEF VectorInv, ElementsAsExpected
<1>4. expected[v] \in Seq(Value)
  BY DEF VectorInv, Built
<1>5. QED BY <1>2, <1>3, <1>4 DEF Agree

LEMMA CopiedResult ==
  ASSUME VectorInv, NEW other \in Built
  PROVE  /\ Copied(other) \in Seq(Content) /\ Len(Copied(other)) = vectors[other].size
         /\ Agree(Copied(other), expected[other], CopySpoils(other))
<1> DEFINE length == vectors[other].size
           inside == SubSeq(vectors[other].inline, 1, length)
<1>1. /\ length \in Nat /\ N \in Nat
      /\ vectors[other].inline \in Seq(Content) /\ Len(vectors[other].inline) = N
  BY BuiltFacts, CapacityAssumption
<1>2. /\ Contents(other) \in Seq(Content) /\ Len(Contents(other)) = length
      /\ \A k \in 1..length : Contents(other)[k] = Data(other)[k]
      /\ Agree(Contents(other), expected[other], spoiled[other])
      /\ Len(expected[other]) = length
  BY ContentsResult
<1>3. CASE length > N
  <2>1. Copied(other) = Contents(other) /\ CopySpoils(other) = spoiled[other]
    BY <1>1, <1>3 DEF Copied, CopySpoils
  <2>2. QED BY <1>2, <2>1
<1>4. CASE length <= N
  <2>1. Copied(other) = inside
    BY <1>1, <1>4 DEF Copied
  <2>2. length \in 0..Len(vectors[other].inline)
    BY <1>1, <1>4
  <2>3. /\ inside \in Seq(Content) /\ Len(inside) = length
        /\ \A k \in 1..length : inside[k] = vectors[other].inline[k]
    BY <1>1, <2>2, FirstElements
  <2> HIDE DEF inside
  <2>4. ASSUME OnHeap(other)
        PROVE  Agree(inside, expected[other], CopySpoils(other))
    <3>1. CopySpoils(other) = 1..length
      BY <1>4, <2>4 DEF CopySpoils
    <3>2. QED BY <1>2, <2>3, <3>1 DEF Agree
  <2>5. ASSUME ~OnHeap(other)
        PROVE  Agree(inside, expected[other], CopySpoils(other))
    <3>1. CopySpoils(other) = spoiled[other] /\ Data(other) = vectors[other].inline
      BY <2>5 DEF CopySpoils, Data
    <3>2. \A k \in 1..length : inside[k] = Contents(other)[k]
      BY <1>2, <2>3, <3>1
    <3>3. \A k \in (1..length) \ spoiled[other] : Contents(other)[k] = expected[other][k]
      BY <1>2 DEF Agree
    <3>4. \A k \in (1..length) \ spoiled[other] : inside[k] = expected[other][k]
      BY <3>2, <3>3
    <3>5. QED BY <1>2, <2>3, <3>1, <3>4 DEF Agree
  <2>6. Agree(inside, expected[other], CopySpoils(other))
    BY <2>4, <2>5
  <2>7. QED BY <2>1, <2>3, <2>6
<1>5. QED BY <1>1, <1>3, <1>4

LEMMA CopyRecorded ==
  ASSUME VectorInv, NEW v \in Vectors, NEW other \in Built, CopyExpected(v, other)
  PROVE  Recorded(v, Copied(other))
<1>1. Expect(v, expected[other], CopySpoils(other))
  BY DEF CopyExpected
<1>2. expected[other] \in Seq(Value) /\ Agree(Copied(other), expected[other], CopySpoils(other))
  BY ContentsResult, CopiedResult
<1>3. QED BY <1>1, <1>2, ExpectRecorded

LEMMA ConstructResult ==
  ASSUME VectorInv, NEW v \in Vectors, NEW seq \in Seq(Content), Construct(v, seq)
  PROVE  VectorInv'
<1>1. seq \in Seq(Value)
  BY DEF Value
<1>2. Agree(seq, seq, {})
  BY DEF Agree
<1>3. Make(v, seq) /\ Expect(v, seq, {})
  BY DEF Construct
<1>4. QED BY <1>1, <1>2, <1>3, ExpectRecorded, MakeResult

LEMMA ZerosResult ==
  ASSUME NEW n \in Nat
  PROVE  LET zeros == [k \in 1..n |-> Zero]
         IN  zeros \in Seq(Value) /\ Len(zeros) = n
<1>1. [k \in 1..n |-> Zero] \in [1..n -> Value]
  BY DEF Value
<1>2. QED BY <1>1

LEMMA ConstructSizedResult ==
  ASSUME VectorInv, NEW v \in Vectors, NEW n \in Nat, ConstructSized(v, n)
  PROVE  VectorInv'
<1> DEFINE zeros == [k \in 1..n |-> Zero]
<1>1. Make(v, Cells(n)) /\ Expect(v, zeros, 1..n)
  BY DEF ConstructSized
<1>2. Cells(n) \in Seq(Content) /\ Len(Cells(n)) = n /\ zeros \in Seq(Value) /\ Len(zeros) = n
  BY CellsResult, ZerosResult
<1> HIDE DEF zeros
<1>3. Agree(Cells(n), zeros, 1..n)
  BY <1>2 DEF Agree
<1>4. Recorded(v, Cells(n))
  BY <1>1, <1>2, <1>3, ExpectRecorded
<1>5. QED BY <1>1, <1>2, <1>4, MakeResult

LEMMA CopyConstructResult ==
  ASSUME VectorInv, NEW v \in Vectors, NEW other \in Vectors, CopyConstruct(v, other)
  PROVE  VectorInv'
<1>1. other \in Built /\ Make(v, Copied(other)) /\ CopyExpected(v, other)
  BY DEF CopyConstruct
<1>2. Copied(other) \in Seq(Content) /\ Recorded(v, Copied(other))
  BY <1>1, CopiedResult, CopyRecorded
<1>3. QED BY <1>1, <1>2, MakeResult

LEMMA CopyAssignResult ==
  ASSUME VectorInv, NEW v \in Vectors, NEW other \in Vectors, CopyAssign(v, other)
  PROVE  VectorInv'
<1> DEFINE seq == Copied(other)
           length == vectors[other].size
<1>1. v \in Built /\ other \in Built /\ CopyExpected(v, other)
  BY DEF CopyAssign
<1>2. seq \in Seq(Content) /\ Len(seq) = length /\ Recorded(v, seq)
  BY <1>1, CopiedResult, CopyRecorded
<1>3. length \in Nat /\ N \in Nat
  BY <1>1, BuiltFacts, CapacityAssumption
<1> HIDE DEF seq
<1>4. CASE length <= N
  BY <1>1, <1>2, <1>4, MoveInsideResult DEF CopyAssign, seq
<1>5. CASE length > N /\ OnHeap(v) /\ Room(v) >= length
  <2> DEFINE vector == [vectors[v] EXCEPT !.size = length]
             cells == Over(seq, Data(v))
             block == vectors[v].block
  <2>1. /\ vectors' = [vectors EXCEPT ![v].size = length]
        /\ blocks' = [blocks EXCEPT ![block] = Over(seq, @)]
    BY <1>3, <1>5 DEF CopyAssign, seq
  <2>2. /\ block \in DOMAIN blocks /\ block # NoBlock /\ Data(v) = blocks[block]
        /\ Data(v) \in Seq(Content) /\ Room(v) = Len(Data(v)) /\ N <= Room(v)
        /\ vectors[v] \in Vector /\ Len(vectors[v].inline) = N
    BY <1>1, <1>5, BuiltFacts DEF OnHeap, Data
  <2>3. /\ cells \in Seq(Content) /\ Len(cells) = Room(v)
        /\ \A k \in 1..Room(v) : k <= length => cells[k] = seq[k]
    BY <1>2, <2>2, OverResult
  <2> HIDE DEF cells
  <2>4. /\ vectors' = [vectors EXCEPT ![v] = vector] /\ vector \in Vector
        /\ vector.block = block /\ vector.size = length /\ vector.inline = vectors[v].inline
    BY <1>3, <2>1, <2>2 DEF Vector
  <2>5. /\ DOMAIN blocks' = DOMAIN blocks /\ blocks'[block] = cells
        /\ \A b \in DOMAIN blocks : b # block => blocks'[b] = blocks[b]
    BY <2>1, <2>2 DEF cells
  <2>6. DataOf(vector, blocks') = cells
    BY <2>2, <2>4, <2>5 DEF DataOf
  <2> HIDE DEF vector
  <2>7. Sound(vector, blocks')
    BY <1>5, <2>2, <2>3, <2>4, <2>6 DEF Sound
  <2>8. seq = SubSeq(cells, 1, length)
    <3>1. length \in 0..Len(cells) /\ \A k \in 1..length : k \in 1..Room(v) /\ k <= length
      BY <1>3, <1>5, <2>2, <2>3
    <3>2. /\ SubSeq(cells, 1, length) \in Seq(Content) /\ Len(SubSeq(cells, 1, length)) = length
          /\ \A k \in 1..length : SubSeq(cells, 1, length)[k] = cells[k]
      BY <2>3, <3>1, FirstElements
    <3>3. QED BY <1>2, <2>3, <3>1, <3>2, SameElements
  <2>9. seq = SubSeq(DataOf(vector, blocks'), 1, vector.size)
    BY <2>4, <2>6, <2>8
  <2>10. QED BY <1>1, <1>2, <2>4, <2>5, <2>7, <2>9, StayResult
<1>6. CASE length > N /\ ~(OnHeap(v) /\ Room(v) >= length)
  <2>1. MoveToBlock(v, length, seq)
    BY <1>3, <1>6 DEF CopyAssign, seq
  <2>2. N <= Len(seq) /\ length <= Len(seq)
    BY <1>2, <1>3, <1>6
  <2>3. seq = SubSeq(seq, 1, length)
    BY <1>2
  <2>4. QED BY <1>1, <1>2, <1>3, <2>1, <2>2, <2>3, MoveToBlockResult
<1>7. QED BY <1>3, <1>4, <1>5, <1>6

LEMMA EmptyRecorded ==
  ASSUME VectorInv, NEW v \in Vectors, Expect(v, <<>>, {})
  PROVE  Recorded(v, <<>>)
<1>1. <<>> \in Seq(Value) /\ Agree(<<>>, <<>>, {})
  BY DEF Agree
<1>2. QED BY <1>1, ExpectRecorded

LEMMA DestroyResult ==
  ASSUME VectorInv, NEW v \in Vectors, Destroy(v)
  PROVE  VectorInv'
<1>1. v \in Built
  BY DEF Destroy
<1>2. Own(NotBuilt) = {} /\ Own(vectors[v]) = {vectors[v].block} \ {NoBlock} /\ NoBlock \notin DOMAIN blocks
  BY <1>1, BuiltFacts DEF Own, VectorInv, BlocksOwnedOnce
<1>3. /\ vectors' = [vectors EXCEPT ![v] = NotBuilt]
      /\ DOMAIN blocks' = (DOMAIN blocks \ Own(vectors[v])) \cup Own(NotBuilt)
      /\ Own(NotBuilt) \cap (DOMAIN blocks \ Own(vectors[v])) = {}
      /\ \A b \in DOMAIN blocks \ Own(vectors[v]) : blocks'[b] = blocks[b]
  BY <1>2 DEF Destroy, Without
<1>4. Recorded(v, <<>>)
  BY EmptyRecorded DEF Destroy
<1>5. QED BY <1>3, <1>4, OneVector

LEMMA ClearResult ==
  ASSUME VectorInv, NEW v \in Vectors, ClearVector(v)
  PROVE  VectorInv'
<1> DEFINE vector == [vectors[v] EXCEPT !.size = 0]
<1>1. v \in Built /\ blocks' = blocks
  BY DEF ClearVector
<1>2. vectors[v] \in Vector /\ Sound(vectors[v], blocks)
  BY <1>1, BuiltFacts
<1>3. /\ vectors' = [vectors EXCEPT ![v] = vector] /\ vector \in Vector
      /\ vector.block = vectors[v].block /\ vector.size = 0 /\ vector.inline = vectors[v].inline
  BY <1>2 DEF ClearVector, Vector
<1> HIDE DEF vector
<1>4. DataOf(vector, blocks') = DataOf(vectors[v], blocks)
  BY <1>1, <1>3 DEF DataOf
<1>5. Sound(vector, blocks')
  BY <1>2, <1>3, <1>4 DEF Sound
<1>6. <<>> = SubSeq(DataOf(vector, blocks'), 1, vector.size)
  BY <1>3, <1>5 DEF Sound
<1>7. Recorded(v, <<>>)
  BY EmptyRecorded DEF ClearVector
<1>8. QED BY <1>1, <1>3, <1>5, <1>6, <1>7, StayResult

LEMMA GrownResult ==
  ASSUME VectorInv, NEW v \in Built, NEW capacity \in Nat, Room(v) <= capacity
  PROVE  /\ GrownCells(v, capacity) \in Seq(Content) /\ Len(GrownCells(v, capacity)) = capacity
         /\ \A k \in 1..capacity :
              k <= vectors[v].size => GrownCells(v, capacity)[k] = Contents(v)[k]
         /\ N <= capacity /\ vectors[v].size <= capacity
<1>1. /\ Contents(v) \in Seq(Content) /\ Len(Contents(v)) = vectors[v].size
      /\ Cells(capacity) \in Seq(Content) /\ Len(Cells(capacity)) = capacity
  BY ContentsResult, CellsResult
<1>2. N <= Room(v) /\ vectors[v].size <= Room(v) /\ Room(v) \in Nat /\ N \in Nat /\ vectors[v].size \in Nat
  BY BuiltFacts, CapacityAssumption
<1>3. QED BY <1>1, <1>2, OverResult, SMTT(30) DEF GrownCells

LEMMA ReserveResult ==
  ASSUME VectorInv, NEW v \in Vectors, NEW capacity \in Nat, Reserve(v, capacity)
  PROVE  VectorInv'
<1> DEFINE length == vectors[v].size
           cells == GrownCells(v, capacity)
<1>1. v \in Built /\ capacity > Room(v) /\ MoveToBlock(v, length, cells)
  BY DEF Reserve
<1>2. length \in Nat /\ Room(v) \in Nat
  BY <1>1, BuiltFacts
<1>3. /\ cells \in Seq(Content) /\ Len(cells) = capacity
      /\ \A k \in 1..capacity : k <= length => cells[k] = Contents(v)[k]
      /\ N <= capacity /\ length <= capacity
  BY <1>1, <1>2, GrownResult
<1>4. /\ Contents(v) \in Seq(Content) /\ Len(Contents(v)) = length
      /\ Agree(Contents(v), expected[v], spoiled[v])
  BY <1>1, ContentsResult
<1> HIDE DEF cells
<1>5. Contents(v) = SubSeq(cells, 1, length)
  <2>1. length \in 0..Len(cells) /\ \A k \in 1..length : k \in 1..capacity /\ k <= length
    BY <1>2, <1>3
  <2>2. /\ SubSeq(cells, 1, length) \in Seq(Content) /\ Len(SubSeq(cells, 1, length)) = length
        /\ \A k \in 1..length : SubSeq(cells, 1, length)[k] = cells[k]
    BY <1>3, <2>1, FirstElements
  <2>3. QED BY <1>3, <1>4, <2>1, <2>2, SameElements
<1>6. Recorded(v, SubSeq(cells, 1, length))
  BY <1>4, <1>5 DEF Reserve, Recorded, VectorInv
<1>7. QED BY <1>1, <1>2, <1>3, <1>6, MoveToBlockResult

LEMMA OverValues ==
  ASSUME NEW seq \in Seq(Value), NEW cells \in Seq(Value)
  PROVE  /\ Over(seq, cells) \in Seq(Value)
         /\ Len(Over(seq, cells)) = Len(cells)
         /\ \A k \in 1..Len(cells) :
              Over(seq, cells)[k] = IF k <= Len(seq) THEN seq[k] ELSE cells[k]
<1>1. DOMAIN cells = 1..Len(cells) /\ DOMAIN seq = 1..Len(seq) /\ Len(seq) \in Nat /\ Len(cells) \in Nat
  OBVIOUS
<1>2. \A k \in 1..Len(cells) : (k <= Len(seq) => seq[k] \in Value) /\ cells[k] \in Value
  OBVIOUS
<1>3. Over(seq, cells) = [k \in 1..Len(cells) |-> IF k <= Len(seq) THEN seq[k] ELSE cells[k]]
  BY <1>1 DEF Over
<1>4. Over(seq, cells) \in [1..Len(cells) -> Value]
  BY <1>2, <1>3
<1>5. QED BY <1>1, <1>3, <1>4

LEMMA ResizeResult ==
  ASSUME VectorInv, NEW v \in Vectors, NEW length \in Nat, Resize(v, length)
  PROVE  VectorInv'
<1> DEFINE old == vectors[v].size
           data == IF length > Room(v) THEN GrownCells(v, length) ELSE Data(v)
           seq == SubSeq(data, 1, length)
           zeros == [k \in 1..length |-> Zero]
           after == Over(expected[v], zeros)
           places == (spoiled[v] \cup (old + 1)..length) \cap 1..length
<1>1. v \in Built
  BY DEF Resize
<1>2. /\ Room(v) \in Nat /\ N <= Room(v) /\ old \in 0..Room(v) /\ N \in Nat
      /\ vectors[v] \in Vector /\ Sound(vectors[v], blocks)
      /\ Data(v) = DataOf(vectors[v], blocks) /\ Data(v) \in Seq(Content) /\ Len(Data(v)) = Room(v)
  BY <1>1, BuiltFacts, CapacityAssumption
<1>3. /\ Contents(v) \in Seq(Content) /\ Len(Contents(v)) = old
      /\ \A k \in 1..old : Contents(v)[k] = Data(v)[k]
      /\ Agree(Contents(v), expected[v], spoiled[v])
      /\ expected[v] \in Seq(Value) /\ Len(expected[v]) = old
  BY <1>1, ContentsResult
<1>4. /\ data \in Seq(Content) /\ length <= Len(data) /\ N <= Len(data)
      /\ \A k \in 1..length : k <= old => data[k] = Contents(v)[k]
  <2>1. CASE length > Room(v)
    <3>1. /\ GrownCells(v, length) \in Seq(Content) /\ Len(GrownCells(v, length)) = length
          /\ \A k \in 1..length : k <= old => GrownCells(v, length)[k] = Contents(v)[k]
          /\ N <= length
      BY <1>1, <1>2, <2>1, GrownResult
    <3>2. QED BY <2>1, <3>1
  <2>2. CASE length <= Room(v)
    BY <1>2, <1>3, <2>2
  <2>3. QED BY <1>2, <2>1, <2>2
<1>5. Expect(v, after, places)
  BY DEF Resize
<1>6. (length > Room(v) => data = GrownCells(v, length)) /\ (~(length > Room(v)) => data = Data(v))
  OBVIOUS
<1> HIDE DEF data
<1>7. /\ seq \in Seq(Content) /\ Len(seq) = length
      /\ \A k \in 1..length : seq[k] = data[k]
  <2>1. length \in 0..Len(data)
    BY <1>4
  <2>2. QED BY <1>4, <2>1, FirstElements
<1> HIDE DEF seq
<1>8. after \in Seq(Value) /\ Agree(seq, after, places)
  <2>1. zeros \in Seq(Value) /\ Len(zeros) = length /\ \A k \in 1..length : zeros[k] = Zero
    BY ZerosResult
  <2> HIDE DEF zeros
  <2>2. /\ after \in Seq(Value) /\ Len(after) = length
        /\ \A k \in 1..length : after[k] = IF k <= old THEN expected[v][k] ELSE zeros[k]
    BY <1>3, <2>1, OverValues
  <2> HIDE DEF after
  <2>3. ASSUME NEW k \in (1..length) \ places PROVE seq[k] = after[k]
    <3>1. k \in 1..old /\ k \in (1..old) \ spoiled[v]
      BY <1>2, <2>3
    <3>2. Contents(v)[k] = expected[v][k]
      BY <1>3, <3>1 DEF Agree
    <3>3. QED BY <1>4, <1>7, <2>2, <3>1, <3>2
  <2> HIDE DEF places
  <2>4. QED BY <1>7, <2>2, <2>3 DEF Agree
<1>9. Recorded(v, seq)
  <2> HIDE DEF after, places
  <2>1. QED BY <1>1, <1>5, <1>8, ExpectRecorded DEF Built
<1>10. CASE length > Room(v)
  BY <1>1, <1>4, <1>6, <1>9, <1>10, MoveToBlockResult DEF Resize, seq
<1>11. CASE ~(length > Room(v))
  <2> DEFINE vector == [vectors[v] EXCEPT !.size = length]
  <2>1. /\ vectors' = [vectors EXCEPT ![v] = vector] /\ blocks' = blocks /\ vector \in Vector
        /\ vector.block = vectors[v].block /\ vector.size = length /\ vector.inline = vectors[v].inline
    BY <1>2, <1>11 DEF Resize, Vector
  <2> HIDE DEF vector
  <2>2. DataOf(vector, blocks') = Data(v)
    BY <1>2, <2>1 DEF DataOf
  <2>3. Sound(vector, blocks')
    BY <1>2, <1>4, <1>6, <1>11, <2>1, <2>2 DEF Sound
  <2>4. seq = SubSeq(DataOf(vector, blocks'), 1, vector.size)
    BY <1>6, <1>11, <2>1, <2>2 DEF seq
  <2>5. QED BY <1>1, <1>9, <2>1, <2>3, <2>4, StayResult
<1>12. QED BY <1>10, <1>11

LEMMA AppendedInPlace ==
  ASSUME NEW seq \in Seq(Content), NEW cells \in Seq(Content), Len(seq) < Len(cells),
         \A k \in 1..Len(seq) : cells[k] = seq[k], NEW element \in Content
  PROVE  LET new == [cells EXCEPT ![Len(seq) + 1] = element]
         IN  /\ new \in Seq(Content) /\ Len(new) = Len(cells)
             /\ SubSeq(new, 1, Len(seq) + 1) = Append(seq, element)
<1> DEFINE length == Len(seq) + 1
           new == [cells EXCEPT ![length] = element]
<1>1. Len(seq) \in Nat /\ Len(cells) \in Nat /\ length \in 1..Len(cells)
  OBVIOUS
<1>2. /\ new \in Seq(Content) /\ Len(new) = Len(cells)
      /\ \A k \in 1..Len(cells) : new[k] = IF k = length THEN element ELSE cells[k]
  <2>1. cells \in [1..Len(cells) -> Content]
    OBVIOUS
  <2>2. new \in [1..Len(cells) -> Content]
    BY <2>1
  <2>3. QED BY <1>1, <2>1, <2>2
<1> HIDE DEF new
<1>3. /\ SubSeq(new, 1, length) \in Seq(Content) /\ Len(SubSeq(new, 1, length)) = length
      /\ \A k \in 1..length : SubSeq(new, 1, length)[k] = new[k]
  BY <1>1, <1>2, FirstElements
<1>4. /\ Append(seq, element) \in Seq(Content) /\ Len(Append(seq, element)) = length
      /\ \A k \in 1..length : Append(seq, element)[k] = IF k = length THEN element ELSE seq[k]
  BY <1>1
<1>5. \A k \in 1..length : SubSeq(new, 1, length)[k] = Append(seq, element)[k]
  BY <1>1, <1>2, <1>3, <1>4
<1>6. SubSeq(new, 1, length) = Append(seq, element)
  BY <1>3, <1>4, <1>5, SameElements
<1>7. QED BY <1>2, <1>6 DEF new

LEMMA PushRecorded ==
  ASSUME VectorInv, NEW v \in Built, NEW element \in Content, NEW value \in Value, NEW places,
         Expect(v, Append(expected[v], value), places), spoiled[v] \subseteq places,
         vectors[v].size + 1 \in places \/ element = value
  PROVE  Recorded(v, Append(Contents(v), element))
<1> DEFINE old == vectors[v].size
<1>1. v \in Vectors /\ old \in Nat
  BY BuiltFacts
<1>2. /\ Contents(v) \in Seq(Content) /\ Len(Contents(v)) = old
      /\ expected[v] \in Seq(Value) /\ Len(expected[v]) = old
      /\ Agree(Contents(v), expected[v], spoiled[v])
  BY ContentsResult
<1>3. /\ Append(expected[v], value) \in Seq(Value) /\ Len(Append(expected[v], value)) = old + 1
      /\ \A k \in 1..(old + 1) :
           Append(expected[v], value)[k] = IF k = old + 1 THEN value ELSE expected[v][k]
  BY <1>2
<1>4. /\ Len(Append(Contents(v), element)) = old + 1
      /\ \A k \in 1..(old + 1) :
           Append(Contents(v), element)[k] = IF k = old + 1 THEN element ELSE Contents(v)[k]
  BY <1>2
<1>5. ASSUME NEW k \in (1..(old + 1)) \ places
      PROVE  Append(Contents(v), element)[k] = Append(expected[v], value)[k]
  <2>1. CASE k = old + 1
    BY <1>3, <1>4, <1>5, <2>1
  <2>2. CASE k # old + 1
    <3>1. k \in (1..old) \ spoiled[v]
      BY <1>1, <1>5, <2>2
    <3>2. Contents(v)[k] = expected[v][k]
      BY <1>2, <3>1 DEF Agree
    <3>3. QED BY <1>3, <1>4, <1>5, <2>2, <3>2
  <2>3. QED BY <2>1, <2>2
<1>6. Agree(Append(Contents(v), element), Append(expected[v], value), places)
  BY <1>3, <1>4, <1>5 DEF Agree
<1>7. QED BY <1>1, <1>3, <1>6, ExpectRecorded

LEMMA PushResult ==
  ASSUME VectorInv, NEW v \in Built, NEW element \in Content, Push(v, element),
         Recorded(v, Append(Contents(v), element))
  PROVE  VectorInv'
<1> DEFINE old == vectors[v].size
           grown == IF 2 * Room(v) < N THEN N ELSE 2 * Room(v)
           pushed == Append(Contents(v), element)
<1>1. v \in Vectors
  BY BuiltFacts
<1>2. /\ Room(v) \in Nat /\ N <= Room(v) /\ old \in 0..Room(v) /\ N \in Nat \ {0}
      /\ vectors[v] \in Vector /\ Sound(vectors[v], blocks)
      /\ vectors[v].inline \in Seq(Content) /\ Len(vectors[v].inline) = N
  BY <1>1, BuiltFacts, CapacityAssumption
<1>3. /\ Contents(v) \in Seq(Content) /\ Len(Contents(v)) = old
      /\ \A k \in 1..old : Contents(v)[k] = Data(v)[k]
  BY <1>1, ContentsResult
<1>4. Recorded(v, pushed)
  OBVIOUS
<1>5. CASE ~Grows(v)
  <2>10. old < N /\ ~OnHeap(v)
    BY <1>2, <1>5 DEF Grows
  <2> DEFINE inline == vectors[v].inline
             filled == [inline EXCEPT ![old + 1] = element]
             vector == [vectors[v] EXCEPT !.size = old + 1, !.inline[old + 1] = element]
  <2>1. Data(v) = inline
    BY <2>10 DEF Data
  <2>2. /\ filled \in Seq(Content) /\ Len(filled) = N
        /\ SubSeq(filled, 1, old + 1) = pushed
    <3> HIDE DEF inline
    <3>1. inline \in Seq(Content) /\ Len(inline) = N
      BY <1>2 DEF inline
    <3>2. /\ Len(Contents(v)) < Len(inline)
          /\ \A k \in 1..Len(Contents(v)) : inline[k] = Contents(v)[k]
      BY <1>2, <1>3, <2>1, <2>10, <3>1
    <3>3. QED BY <1>3, <3>1, <3>2, AppendedInPlace
  <2>3. vectors' = [vectors EXCEPT ![v] = vector] /\ blocks' = blocks
    <3>1. /\ vectors' = [vectors EXCEPT ![v].size = old + 1, ![v].inline[old + 1] = element]
          /\ blocks' = blocks
      BY <1>5 DEF Push
    <3>2. v \in DOMAIN vectors
      BY <1>1 DEF VectorInv
    <3>3. QED BY <3>1, <3>2
  <2> HIDE DEF filled
  <2>4. /\ vector \in Vector /\ vector.block = vectors[v].block
        /\ vector.size = old + 1 /\ vector.inline = filled
    <3>1. vectors[v] = [size |-> old, block |-> vectors[v].block, inline |-> inline]
      BY <1>2 DEF Vector
    <3>2. vector = [vectors[v] EXCEPT !.size = old + 1, !.inline = filled]
      BY <3>1 DEF filled
    <3>3. old + 1 \in Nat
      BY <1>2
    <3>4. QED BY <1>2, <2>2, <3>1, <3>2, <3>3 DEF Vector
  <2> HIDE DEF vector
  <2>5. DataOf(vector, blocks') = filled
    BY <2>4, <2>10 DEF DataOf, OnHeap
  <2>6. Sound(vector, blocks')
    BY <1>2, <2>2, <2>4, <2>5, <2>10 DEF Sound
  <2>7. pushed = SubSeq(DataOf(vector, blocks'), 1, vector.size)
    BY <2>2, <2>4, <2>5
  <2> HIDE DEF pushed
  <2>8. QED BY <1>1, <1>4, <2>3, <2>4, <2>6, <2>7, StayResult
<1>6. CASE Grows(v)
  <2> DEFINE cells == GrownCells(v, grown)
             filled == [cells EXCEPT ![old + 1] = element]
  <2>1. grown \in Nat /\ Room(v) <= grown /\ old < grown
    BY <1>2
  <2>2. MoveToBlock(v, old + 1, filled)
    BY <1>6 DEF Push
  <2> HIDE DEF grown
  <2>3. /\ cells \in Seq(Content) /\ Len(cells) = grown
        /\ \A k \in 1..grown : k <= old => cells[k] = Contents(v)[k]
        /\ N <= grown /\ old <= grown
    BY <1>1, <2>1, GrownResult
  <2> HIDE DEF cells
  <2>4. /\ filled \in Seq(Content) /\ Len(filled) = grown
        /\ SubSeq(filled, 1, old + 1) = pushed
    <3>1. \A k \in 1..old : cells[k] = Contents(v)[k]
      BY <1>2, <2>1, <2>3
    <3>2. QED BY <1>1, <1>3, <2>1, <2>3, <3>1, AppendedInPlace, SMTT(30)
  <2>5. old + 1 \in Nat /\ old + 1 <= Len(filled) /\ N <= Len(filled)
    BY <1>2, <2>1, <2>3, <2>4
  <2> HIDE DEF filled, pushed
  <2>6. QED BY <1>1, <1>4, <2>2, <2>4, <2>5, MoveToBlockResult
<1>7. QED BY <1>5, <1>6

LEMMA PushBackResult ==
  ASSUME VectorInv, NEW v \in Vectors, NEW element \in Elements, PushBack(v, element)
  PROVE  VectorInv'
<1>1. /\ v \in Built /\ Push(v, element)
      /\ Expect(v, Append(expected[v], element), spoiled[v])
  BY DEF PushBack
<1>2. element \in Content /\ element \in Value
  BY DEF Content, Value
<1>3. Recorded(v, Append(Contents(v), element))
  BY <1>1, <1>2, PushRecorded
<1>4. QED BY <1>1, <1>2, <1>3, PushResult

\* What is read of an own element is that element, if it is not lost.
LEMMA OwnElement ==
  ASSUME VectorInv, NEW v \in Built, NEW k \in 1..vectors[v].size, NEW element \in ReadOwn(v, k)
  PROVE  element \in Content /\ (~LosesOwn(v, k) => element = Contents(v)[k])
<1>1. /\ vectors[v].size \in 0..Len(Data(v)) /\ Data(v) \in Seq(Content) /\ Unset \in Content
      /\ vectors[v].inline \in Seq(Content) /\ PointerCells \in Nat
  BY BuiltFacts, CapacityAssumption DEF Content
<1>2. k \in 1..Len(Data(v)) /\ Data(v)[k] \in Content /\ Contents(v)[k] = Data(v)[k]
  BY <1>1, ContentsResult
<1>3. CASE ~Grows(v) \/ OnHeap(v)
  BY <1>1, <1>2, <1>3 DEF ReadOwn, LosesOwn
<1>4. CASE Grows(v) /\ ~OnHeap(v)
  <2>1. Data(v) = vectors[v].inline /\ element = Overlaid(vectors[v].inline)[k]
    BY <1>4 DEF Data, ReadOwn
  <2>2. /\ Overlaid(vectors[v].inline) \in Seq(Content)
        /\ Len(Overlaid(vectors[v].inline)) = Len(vectors[v].inline)
        /\ k > PointerCells => element = Data(v)[k]
    BY <1>1, <1>2, <2>1, OverlaidResult
  <2>3. element \in Content
    BY <1>2, <2>1, <2>2
  <2>4. QED BY <1>1, <1>2, <1>4, <2>2, <2>3 DEF LosesOwn
<1>5. QED BY <1>3, <1>4

LEMMA PushBackOwnResult ==
  ASSUME VectorInv, NEW v \in Vectors, NEW k, PushBackOwn(v, k)
  PROVE  VectorInv'
<1> DEFINE places == IF k \in spoiled[v] \/ LosesOwn(v, k)
                     THEN spoiled[v] \cup {vectors[v].size + 1} ELSE spoiled[v]
<1>1. /\ v \in Built /\ k \in 1..vectors[v].size
      /\ Expect(v, Append(expected[v], expected[v][k]), places)
  BY DEF PushBackOwn
<1>2. PICK element \in ReadOwn(v, k) : Push(v, element)
  BY DEF PushBackOwn
<1>3. element \in Content /\ (~LosesOwn(v, k) => element = Contents(v)[k])
  BY <1>1, OwnElement
<1>4. expected[v][k] \in Value /\ (k \notin spoiled[v] => Contents(v)[k] = expected[v][k])
  BY <1>1, ContentsResult DEF Agree
<1>5. spoiled[v] \subseteq places /\ (vectors[v].size + 1 \in places \/ element = expected[v][k])
  BY <1>3, <1>4
<1> HIDE DEF places
<1>6. Recorded(v, Append(Contents(v), element))
  BY <1>1, <1>3, <1>4, <1>5, PushRecorded
<1>7. QED BY <1>1, <1>2, <1>3, <1>6, PushResult

LEMMA SetInPlace ==
  ASSUME NEW cells \in Seq(Content), NEW length \in 0..Len(cells), NEW k \in 1..length,
         NEW element \in Content
  PROVE  LET new == [cells EXCEPT ![k] = element]
         IN  /\ new \in Seq(Content) /\ Len(new) = Len(cells)
             /\ [SubSeq(cells, 1, length) EXCEPT ![k] = element] = SubSeq(new, 1, length)
<1> DEFINE new == [cells EXCEPT ![k] = element]
           seq == SubSeq(cells, 1, length)
           set == [seq EXCEPT ![k] = element]
<1>1. /\ seq \in Seq(Content) /\ Len(seq) = length
      /\ \A j \in 1..length : seq[j] = cells[j]
  BY FirstElements
<1>2. new \in [1..Len(cells) -> Content]
  OBVIOUS
<1>3. /\ new \in Seq(Content) /\ Len(new) = Len(cells)
      /\ \A j \in 1..Len(cells) : new[j] = IF j = k THEN element ELSE cells[j]
  BY <1>2
<1> HIDE DEF seq
<1>4. set \in [1..length -> Content] /\ length \in Nat
  BY <1>1
<1>5. /\ set \in Seq(Content) /\ Len(set) = length
      /\ \A j \in 1..length : set[j] = IF j = k THEN element ELSE seq[j]
  BY <1>1, <1>4
<1> HIDE DEF new, set
<1>6. /\ SubSeq(new, 1, length) \in Seq(Content) /\ Len(SubSeq(new, 1, length)) = length
      /\ \A j \in 1..length : SubSeq(new, 1, length)[j] = new[j]
  BY <1>3, FirstElements
<1>7. \A j \in 1..length : set[j] = SubSeq(new, 1, length)[j]
  BY <1>1, <1>3, <1>5, <1>6
<1>8. set = SubSeq(new, 1, length)
  BY <1>5, <1>6, <1>7, SameElements
<1>9. QED BY <1>3, <1>8 DEF new, set, seq

LEMMA SetRecorded ==
  ASSUME VectorInv, NEW v \in Built, NEW k \in 1..vectors[v].size, NEW element \in Elements,
         Expect(v, [expected[v] EXCEPT ![k] = element], spoiled[v] \ {k})
  PROVE  Recorded(v, [Contents(v) EXCEPT ![k] = element])
<1> DEFINE old == vectors[v].size
           after == [expected[v] EXCEPT ![k] = element]
           set == [Contents(v) EXCEPT ![k] = element]
<1>1. v \in Vectors /\ old \in Nat /\ element \in Value
  <2>1. v \in Vectors /\ old \in Nat
    BY BuiltFacts DEF Vector
  <2>2. element \in Value
    BY DEF Value, Content
  <2>3. QED BY <2>1, <2>2
<1>2. /\ Contents(v) \in Seq(Content) /\ Len(Contents(v)) = old
      /\ expected[v] \in Seq(Value) /\ Len(expected[v]) = old
      /\ Agree(Contents(v), expected[v], spoiled[v])
  BY ContentsResult
<1>3. after \in Seq(Value) /\ Len(after) = old
  BY <1>1, <1>2
<1>4. set \in Seq(Content) /\ Len(set) = old
  <2>1. element \in Content
    BY DEF Content
  <2>2. QED BY <1>2, <2>1
<1>5. ASSUME NEW j \in (1..old) \ (spoiled[v] \ {k}) PROVE set[j] = after[j]
  <2>1. CASE j = k
    BY <1>2, <2>1
  <2>2. CASE j # k
    <3>1. Contents(v)[j] = expected[v][j]
      BY <1>2, <1>5, <2>2 DEF Agree
    <3>2. QED BY <1>2, <2>2, <3>1
  <2>3. QED BY <2>1, <2>2
<1>6. Agree(set, after, spoiled[v] \ {k})
  BY <1>3, <1>4, <1>5 DEF Agree
<1>7. QED BY <1>1, <1>3, <1>6, ExpectRecorded

LEMMA SetElementResult ==
  ASSUME VectorInv, NEW v \in Vectors, NEW k, NEW element \in Elements, SetElement(v, k, element)
  PROVE  VectorInv'
<1> DEFINE block == vectors[v].block
           cells == [Data(v) EXCEPT ![k] = element]
           set == [Contents(v) EXCEPT ![k] = element]
           vector == [vectors[v] EXCEPT !.inline = IF OnHeap(v) THEN @ ELSE cells]
<1>1. /\ v \in Built /\ k \in 1..vectors[v].size
      /\ Expect(v, [expected[v] EXCEPT ![k] = element], spoiled[v] \ {k})
  BY DEF SetElement
<1>2. /\ vectors[v] \in Vector /\ Sound(vectors[v], blocks) /\ Data(v) \in Seq(Content)
      /\ vectors[v].size \in 0..Len(Data(v)) /\ Data(v) = DataOf(vectors[v], blocks)
      /\ OnHeap(v) => block \in DOMAIN blocks
      /\ element \in Content
  BY <1>1, BuiltFacts DEF Content
<1>3. Recorded(v, set)
  BY <1>1, SetRecorded
<1>4. /\ cells \in Seq(Content) /\ Len(cells) = Len(Data(v))
      /\ set = SubSeq(cells, 1, vectors[v].size)
  BY <1>1, <1>2, SetInPlace DEF Contents
<1>5. /\ vectors' = [vectors EXCEPT ![v] = vector]
      /\ DOMAIN blocks' = DOMAIN blocks
      /\ \A b \in DOMAIN blocks : b # block => blocks'[b] = blocks[b]
      /\ OnHeap(v) => blocks'[block] = cells
  <2>1. v \in DOMAIN vectors
    BY DEF VectorInv
  <2>2. CASE OnHeap(v)
    <3>1. blocks' = [blocks EXCEPT ![block][k] = element] /\ vectors' = vectors
      BY <2>2 DEF SetElement
    <3>2. vector = vectors[v]
      BY <1>2, <2>2 DEF Vector
    <3> HIDE DEF vector
    <3>3. vectors' = [vectors EXCEPT ![v] = vector]
      BY <2>1, <3>1, <3>2 DEF VectorInv
    <3>4. blocks'[block] = cells
      BY <1>2, <2>2, <3>1 DEF Data
    <3>5. QED BY <3>1, <3>3, <3>4
  <2>3. CASE ~OnHeap(v)
    <3>1. vectors' = [vectors EXCEPT ![v].inline[k] = element] /\ blocks' = blocks
      BY <2>3 DEF SetElement
    <3>2. Data(v) = vectors[v].inline
      BY <2>3 DEF Data
    <3>3. QED BY <2>1, <2>3, <3>1, <3>2
  <2>4. QED BY <2>2, <2>3
<1> HIDE DEF cells, set
<1>6. /\ vector \in Vector /\ vector.block = block /\ vector.size = vectors[v].size
      /\ Len(vector.inline) = N /\ DataOf(vector, blocks') = cells
  <2>1. CASE OnHeap(v)
    <3>1. vector = vectors[v]
      BY <1>2, <2>1 DEF Vector
    <3> HIDE DEF vector
    <3>2. QED BY <1>2, <1>5, <2>1, <3>1 DEF DataOf, OnHeap, Sound
  <2>2. CASE ~OnHeap(v)
    <3>1. vector = [vectors[v] EXCEPT !.inline = cells] /\ Data(v) = vectors[v].inline
      BY <2>2 DEF Data
    <3> HIDE DEF vector
    <3>2. /\ vector \in Vector /\ vector.block = block /\ vector.size = vectors[v].size
          /\ vector.inline = cells
      BY <1>2, <1>4, <3>1 DEF Vector
    <3>3. QED BY <1>2, <1>4, <2>2, <3>1, <3>2 DEF DataOf, OnHeap, Sound
  <2>3. QED BY <2>1, <2>2
<1> HIDE DEF vector
<1>7. Sound(vector, blocks')
  BY <1>2, <1>4, <1>6 DEF Sound
<1>8. set = SubSeq(DataOf(vector, blocks'), 1, vector.size)
  BY <1>4, <1>6
<1>9. QED BY <1>1, <1>3, <1>5, <1>6, <1>7, <1>8, StayResult

\* A vector inside the object is moved by copying its elements.
LEMMA MoveInsideObject ==
  ASSUME VectorInv, NEW v \in Vectors, NEW other \in Built, ~OnHeap(other), Move(v, other)
  PROVE  VectorInv'
<1> DEFINE own == IF v \in Built THEN vectors[v].inline ELSE Cells(N)
           seq == SubSeq(vectors[other].inline, 1, vectors[other].size)
           inline == Over(seq, own)
           vector == [vectors[other] EXCEPT !.inline = inline]
<1>1. /\ v # other /\ other \in Vectors
      /\ vectors' = [vectors EXCEPT ![v] = vector, ![other] = vectors[other]]
      /\ blocks' = IF v \in Built THEN Without(blocks, vectors[v].block) ELSE blocks
      /\ expected' = [expected EXCEPT ![v] = expected[other], ![other] = @]
      /\ spoiled' = [spoiled EXCEPT ![v] = spoiled[other], ![other] = @]
  BY BuiltFacts DEF Move, GivenAway
<1>2. vectors' = [vectors EXCEPT ![v] = vector]
  BY <1>1
<1>3. own \in Seq(Content) /\ Len(own) = N
  BY BuiltFacts, CellsResult, CapacityAssumption
<1>4. /\ seq = Contents(other) /\ Contents(other) \in Seq(Content)
      /\ Len(Contents(other)) = vectors[other].size
      /\ Agree(Contents(other), expected[other], spoiled[other])
  BY ContentsResult DEF Contents, Data
<1>5. /\ vectors[other] \in Vector /\ vectors[other].block = NoBlock /\ N \in Nat
      /\ vectors[other].size \in 0..N
  BY BuiltFacts, CapacityAssumption DEF OnHeap, Room, Data
<1> HIDE DEF seq, own
<1>6. /\ inline \in Seq(Content) /\ Len(inline) = N
      /\ \A k \in 1..N : k <= vectors[other].size => inline[k] = seq[k]
  BY <1>3, <1>4, OverResult
<1> HIDE DEF inline
<1>7. /\ vector \in Vector /\ vector # NotBuilt /\ Own(vector) = {}
      /\ vector.size = vectors[other].size /\ vector.block = NoBlock /\ vector.inline = inline
  BY <1>5, <1>6, NotBuiltAssumption DEF Vector, Own
<1> HIDE DEF vector
<1>8. DataOf(vector, blocks') = inline
  BY <1>7 DEF DataOf
<1>9. Sound(vector, blocks')
  BY <1>5, <1>6, <1>7, <1>8 DEF Sound
<1>10. seq = SubSeq(inline, 1, vectors[other].size)
  <2> DEFINE length == vectors[other].size
  <2>1. length \in 0..Len(inline) /\ \A k \in 1..length : k \in 1..N /\ k <= length
    BY <1>5, <1>6
  <2>2. /\ SubSeq(inline, 1, length) \in Seq(Content) /\ Len(SubSeq(inline, 1, length)) = length
        /\ \A k \in 1..length : SubSeq(inline, 1, length)[k] = inline[k]
    BY <1>6, <2>1, FirstElements
  <2>3. QED BY <1>4, <1>6, <2>1, <2>2, SameElements
<1>11. seq = SubSeq(DataOf(vector, blocks'), 1, vector.size)
  BY <1>7, <1>8, <1>10
<1>12. Recorded(v, seq)
  <2>1. expected \in [Vectors -> Seq(Value)] /\ DOMAIN spoiled = Vectors
    BY DEF VectorInv
  <2>2. /\ expected' = [expected EXCEPT ![v] = expected[other]]
        /\ spoiled' = [spoiled EXCEPT ![v] = spoiled[other]]
    BY <1>1, <2>1
  <2>3. QED BY <1>1, <1>4, <2>1, <2>2 DEF Recorded
<1>13. /\ DOMAIN blocks' = (DOMAIN blocks \ Own(vectors[v])) \cup Own(vector)
       /\ Own(vector) \cap (DOMAIN blocks \ Own(vectors[v])) = {}
       /\ \A b \in DOMAIN blocks \ Own(vectors[v]) : blocks'[b] = blocks[b]
  <2>1. NoBlock \notin DOMAIN blocks
    BY DEF VectorInv, BlocksOwnedOnce
  <2>2. CASE v \in Built
    BY <1>1, <1>7, <2>1, <2>2, BuiltFacts DEF Without
  <2>3. CASE v \notin Built
    BY <1>1, <1>7, <2>3 DEF Own, Built
  <2>4. QED BY <2>2, <2>3
<1>14. QED BY <1>2, <1>9, <1>11, <1>12, <1>13, OneVector

\* A block is moved by handing it over: two vectors change at once.
LEMMA MoveOfBlock ==
  ASSUME VectorInv, NEW v \in Vectors, NEW other \in Built, OnHeap(other), Move(v, other)
  PROVE  VectorInv'
<1> DEFINE own == IF v \in Built THEN vectors[v].inline ELSE Cells(N)
           inline == Overlaid(own)
           block == vectors[other].block
           vector == [vectors[other] EXCEPT !.inline = inline]
           left == [vectors[other] EXCEPT !.size = 0, !.block = NoBlock]
<1>1. /\ v # other /\ other \in Vectors
      /\ vectors' = [vectors EXCEPT ![v] = vector, ![other] = left]
      /\ blocks' = IF v \in Built THEN Without(blocks, vectors[v].block) ELSE blocks
      /\ expected' = [expected EXCEPT ![v] = expected[other], ![other] = <<>>]
      /\ spoiled' = [spoiled EXCEPT ![v] = spoiled[other], ![other] = {}]
  BY BuiltFacts DEF Move, GivenAway
<1>2. own \in Seq(Content) /\ Len(own) = N
  BY BuiltFacts, CellsResult, CapacityAssumption
<1> HIDE DEF own
<1>3. inline \in Seq(Content) /\ Len(inline) = N
  BY <1>2, OverlaidResult
<1> HIDE DEF inline
<1>4. /\ vectors[other] \in Vector /\ block \in DOMAIN blocks /\ block # NoBlock
      /\ Sound(vectors[other], blocks) /\ N \in Nat
  BY BuiltFacts, CapacityAssumption DEF OnHeap
<1>5. /\ vector \in Vector /\ vector # NotBuilt
      /\ vector.size = vectors[other].size /\ vector.block = block /\ vector.inline = inline
      /\ left \in Vector /\ left # NotBuilt
      /\ left.size = 0 /\ left.block = NoBlock /\ left.inline = vectors[other].inline
  <2>1. /\ vector \in Vector /\ vector.size = vectors[other].size
        /\ vector.block = block /\ vector.inline = inline
    BY <1>3, <1>4 DEF Vector
  <2>2. /\ left \in Vector
        /\ left.size = 0 /\ left.block = NoBlock /\ left.inline = vectors[other].inline
    BY <1>4 DEF Vector
  <2> HIDE DEF vector, left
  <2>3. QED BY <2>1, <2>2, NotBuiltAssumption
<1> HIDE DEF vector, left
<1>6. /\ vectors' \in [Vectors -> Vector \cup {NotBuilt}]
      /\ vectors'[v] = vector /\ vectors'[other] = left
      /\ \A w \in Vectors \ {v, other} : vectors'[w] = vectors[w]
  BY <1>1, <1>5 DEF VectorInv
<1>H. /\ expected' \in [Vectors -> Seq(Value)] /\ DOMAIN spoiled' = Vectors
      /\ expected'[v] = expected[other] /\ expected'[other] = <<>>
      /\ spoiled'[v] = spoiled[other]
      /\ \A w \in Vectors \ {v, other} : expected'[w] = expected[w] /\ spoiled'[w] = spoiled[w]
  <2>1. expected \in [Vectors -> Seq(Value)] /\ DOMAIN spoiled = Vectors
    BY DEF VectorInv
  <2>2. <<>> \in Seq(Value)
    OBVIOUS
  <2>3. QED BY <1>1, <2>1, <2>2
<1>7. v \in Built' /\ other \in Built' /\ \A w \in Vectors \ {v, other} : w \in Built' <=> w \in Built
  BY <1>1, <1>5, <1>6 DEF Built
<1>8. /\ DOMAIN blocks' = DOMAIN blocks \ Own(vectors[v])
      /\ \A b \in DOMAIN blocks' : blocks'[b] = blocks[b]
  <2>1. NoBlock \notin DOMAIN blocks
    BY DEF VectorInv, BlocksOwnedOnce
  <2>2. CASE v \in Built
    BY <1>1, <2>1, <2>2, BuiltFacts DEF Without
  <2>3. CASE v \notin Built
    BY <1>1, <2>3 DEF Own, Built
  <2>4. QED BY <2>2, <2>3
<1>9. \A w \in Built : w # v /\ OnHeap(w) => vectors[w].block \in DOMAIN blocks'
  <2>1. SUFFICES ASSUME NEW w \in Built, w # v, OnHeap(w), vectors[w].block \in Own(vectors[v])
                 PROVE  FALSE
    BY <1>8, BuiltFacts
  <2>2. v \in Built /\ vectors[w].block = vectors[v].block
    BY <2>1 DEF Own, Built
  <2>3. QED BY <2>1, <2>2 DEF VectorInv, BlocksOwnedOnce
<1>10. block \in DOMAIN blocks' /\ blocks'[block] = blocks[block]
  BY <1>1, <1>8, <1>9
<1>11. DataOf(vector, blocks') = DataOf(vectors[other], blocks) /\ DataOf(left, blocks') = left.inline
  BY <1>4, <1>5, <1>10 DEF DataOf
<1>12. ASSUME NEW w \in Built', w \notin {v, other}
       PROVE  /\ w \in Built /\ vectors'[w] = vectors[w]
              /\ DataOf(vectors'[w], blocks') = DataOf(vectors[w], blocks)
  BY <1>6, <1>7, <1>8, <1>9, <1>12 DEF DataOf, OnHeap, Built
<1>13. \A w \in Built' : Sound(vectors'[w], blocks')
  <2>1. Sound(vector, blocks') /\ Sound(left, blocks')
    BY <1>3, <1>4, <1>5, <1>11 DEF Sound, Vector
  <2>2. \A w \in Built' : w \notin {v, other} => Sound(vectors'[w], blocks')
    BY <1>12 DEF Sound, VectorInv
  <2>3. QED BY <1>6, <2>1, <2>2
<1>14. BlocksOwnedOnce'
  <2>1. DOMAIN blocks = {vectors[w].block : w \in Built} \ {NoBlock}
    BY DEF VectorInv, BlocksOwnedOnce
  <2>2. ASSUME NEW b \in DOMAIN blocks'
        PROVE  b # NoBlock /\ \E w \in Built' : b = vectors'[w].block
    <3>1. PICK w \in Built : b = vectors[w].block /\ b # NoBlock
      BY <1>8, <2>1, <2>2
    <3>2. w # v
      BY <1>8, <3>1 DEF Own, Built
    <3>3. CASE w = other
      BY <1>5, <1>6, <1>7, <3>1, <3>3
    <3>4. CASE w # other
      BY <1>6, <1>7, <3>1, <3>2, <3>4 DEF Built
    <3>5. QED BY <3>3, <3>4
  <2>3. ASSUME NEW w \in Built', vectors'[w].block # NoBlock PROVE vectors'[w].block \in DOMAIN blocks'
    <3>1. CASE w = v
      BY <1>5, <1>6, <1>10, <3>1
    <3>2. CASE w # v
      BY <1>5, <1>6, <1>9, <1>12, <2>3, <3>2 DEF OnHeap
    <3>3. QED BY <3>1, <3>2
  <2>4. ASSUME NEW w \in Built', NEW u \in Built', vectors'[w].block # NoBlock,
               vectors'[w].block = vectors'[u].block
        PROVE  w = u
    <3> DEFINE From(x) == IF x = v THEN other ELSE x
    <3>1. ASSUME NEW x \in Built', vectors'[x].block # NoBlock
          PROVE  x # other /\ From(x) \in Built /\ vectors[From(x)].block = vectors'[x].block
      BY <1>5, <1>6, <1>12, <3>1
    <3>2. From(w) = From(u)
      <4>1. From(w) \in Built /\ From(u) \in Built
        BY <2>4, <3>1
      <4>2. OnHeap(From(w)) /\ vectors[From(w)].block = vectors[From(u)].block
        BY <2>4, <3>1 DEF OnHeap
      <4> HIDE DEF From
      <4>3. QED BY <4>1, <4>2 DEF VectorInv, BlocksOwnedOnce
    <3>3. w # other /\ u # other
      BY <2>4, <3>1
    <3>4. QED BY <3>2, <3>3
  <2>5. DOMAIN blocks' = {vectors'[w].block : w \in Built'} \ {NoBlock}
    BY <2>2, <2>3
  <2>6. QED BY <2>4, <2>5 DEF BlocksOwnedOnce, OnHeap
<1>15. ElementsAsExpected'
  <2>1. ASSUME NEW x \in Built
        PROVE  /\ vectors[x].size = Len(expected[x])
               /\ \A k \in 1..vectors[x].size \ spoiled[x] :
                    DataOf(vectors[x], blocks)[k] = expected[x][k]
    BY DEF VectorInv, ElementsAsExpected, Data, DataOf, OnHeap
  <2>2. ASSUME NEW w \in Built'
        PROVE  /\ vectors'[w].size = Len(expected'[w])
               /\ \A k \in 1..vectors'[w].size \ spoiled'[w] :
                    DataOf(vectors'[w], blocks')[k] = expected'[w][k]
    <3>1. CASE w = v
      BY <1>5, <1>6, <1>11, <1>H, <2>1, <3>1
    <3>2. CASE w = other
      BY <1>5, <1>6, <1>H, <3>2
    <3>3. CASE w \notin {v, other}
      <4>1. w \in Vectors \ {v, other}
        BY <3>3 DEF Built
      <4>2. /\ w \in Built /\ vectors'[w] = vectors[w]
            /\ DataOf(vectors'[w], blocks') = DataOf(vectors[w], blocks)
        BY <1>12, <3>3
      <4>3. expected'[w] = expected[w] /\ spoiled'[w] = spoiled[w]
        BY <1>H, <4>1
      <4>4. QED BY <2>1, <4>2, <4>3
    <3>4. QED BY <3>1, <3>2, <3>3
  <2>3. QED BY <2>2 DEF ElementsAsExpected, Data, DataOf, OnHeap
<1>16. QED BY <1>6, <1>13, <1>14, <1>15, <1>H DEF VectorInv

LEMMA NextVectorInv == VectorInv /\ [VectorNext]_vectorVars => VectorInv'
<1>1. SUFFICES ASSUME VectorInv, [VectorNext]_vectorVars PROVE VectorInv'
  OBVIOUS
<1>2. ASSUME NEW v \in Vectors, NEW seq \in Lists, Construct(v, seq) PROVE VectorInv'
  BY <1>1, <1>2, ConstructResult, ListsAssumption
<1>3. ASSUME NEW v \in Vectors, NEW other \in Vectors, Move(v, other) PROVE VectorInv'
  <2>1. other \in Built
    BY <1>3 DEF Move
  <2>2. QED BY <1>1, <1>3, <2>1, MoveInsideObject, MoveOfBlock
<1>4. ASSUME NEW v \in Vectors, NEW n \in Sizes, ConstructSized(v, n) PROVE VectorInv'
  <2>1. n \in Nat
    BY CapacityAssumption
  <2>2. QED BY <1>1, <1>4, <2>1, ConstructSizedResult
<1>5. ASSUME NEW v \in Vectors, NEW n \in Sizes, Reserve(v, n) \/ Resize(v, n) PROVE VectorInv'
  <2>1. n \in Nat
    BY CapacityAssumption
  <2>2. QED BY <1>1, <1>5, <2>1, ReserveResult, ResizeResult
<1>6. CASE UNCHANGED vectorVars
  BY <1>1, <1>6 DEF vectorVars, VectorInv, Sound, DataOf, Built, BlocksOwnedOnce,
                    ElementsAsExpected, OnHeap, Data
<1>7. QED
  BY <1>1, <1>2, <1>3, <1>4, <1>5, <1>6, CopyAssignResult, CopyConstructResult, DestroyResult,
     ClearResult, PushBackResult, PushBackOwnResult, SetElementResult DEF VectorNext

\* Whatever is called on however many vectors, they are as long as a std::vector
\* would be and have its elements, but for the places that the sized constructor,
\* resize, push_back of an own element or a copy of a vector that has shrunk on the
\* heap did not set (small_vector.h:46, 96, 218, 247), and copies of those.
THEOREM VectorsKeepElements == VectorSpec => []ElementsAsExpected
<1>1. VectorInv => ElementsAsExpected
  BY DEF VectorInv
<1>2. QED BY <1>1, InitVectorInv, NextVectorInv, PTL DEF VectorSpec

\* Whatever is called, every block is deleted by the one vector that has it.
THEOREM BlocksHaveOneOwner == VectorSpec => []BlocksOwnedOnce
<1>1. VectorInv => BlocksOwnedOnce
  BY DEF VectorInv
<1>2. QED BY <1>1, InitVectorInv, NextVectorInv, PTL DEF VectorSpec
=============================================================================
