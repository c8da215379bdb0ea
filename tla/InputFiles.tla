------------------------------ MODULE InputFiles ------------------------------
(***************************************************************************)
(* What the lists of announcements and of ROV ASes are read as (main.cpp), *)
(* and which prefixes are taken (IPPrefix, announcement.cpp).  A line is   *)
(*                                                                         *)
(*   [kind |-> "data", asn |-> ..., prefix |-> ..., flag |-> ...]          *)
(*                                                                         *)
(* if it has enough fields of which the first is a number, and otherwise   *)
(* of kind "text": headers, comments, blank lines and whatever else is     *)
(* skipped.  A file that cannot be opened has no lines.                    *)
(***************************************************************************)
EXTENDS Integers, SequencesExt

CONSTANT ASNSpace  \* one more than the largest uint32_t

IsData(line) == line.kind = "data"

\* Every word but these means that the announcement is valid.
IsTrue(flag) == flag \in {"true", "1", "yes", "y"}

\* stoul reads 64 bits, of which 32 are kept.
ParseAnnouncementsCsv(file) ==
  LET read[k \in 0..Len(file)] ==
        IF k = 0 THEN <<>>
        ELSE IF IsData(file[k])
        THEN Append(read[k - 1], [asn |-> file[k].asn % ASNSpace,
                                  prefix |-> file[k].prefix,
                                  rov_invalid |-> IsTrue(file[k].flag)])
        ELSE read[k - 1]
  IN  read[Len(file)]

ParseRovAsnsCsv(file) ==
  LET data == SelectSeq(file, IsData) IN [k \in DOMAIN data |-> data[k].asn % ASNSpace]

\* A prefix is [address |-> "IPv4", "IPv6" or "neither", bits |-> its length]:
\* eight bits of the length are compared with what the kind of address allows.
Parses(prefix) ==
  LET prefix_length == prefix.bits % 256
  IN  /\ prefix.address = "IPv4" => prefix_length <= 32
      /\ prefix.address = "IPv6" => prefix_length <= 128
=============================================================================
