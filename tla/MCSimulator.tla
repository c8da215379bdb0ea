----------------------------- MODULE MCSimulator -----------------------------
(***************************************************************************)
(* Simulator with three ASes.                                              *)
(***************************************************************************)
EXTENDS Simulator

\* Every customer and peer link, loops included; a comment, a line that is cut
\* off, another relationship, and an AS number that does not fit 32 bits.
MainLines ==
  {<<a, b, rel>> : a \in ASN, b \in ASN, rel \in {-1, 0}}
    \cup {<<>>, <<1, 2>>, <<1, 3, 1>>, <<ASNSpace + 1, 2, -1>>}

\* 1 below 2, a peering above and a peering with itself, a second provider.
LibraryLines == {<<2, 1, -1>>, <<2, 3, 0>>, <<3, 1, -1>>, <<1, 1, 0>>, <<1, 3, 0>>}

MCLines == [main |-> MainLines, library |-> LibraryLines]

MCMaxLines == [main |-> 3, library |-> 3]

Line(asn, prefix, flag) == [kind |-> "data", asn |-> asn, prefix |-> prefix, flag |-> flag]

Text == [kind |-> "text"]

Prefix24 == [address |-> "IPv4", bits |-> 24]

\* AS 0 is not in the graph, nor is ASNSpace, which becomes 0.
MCRovFiles ==
  {<<Text, Line(2, Prefix24, "")>>, <<Line(1, Prefix24, ""), Line(ASNSpace, Prefix24, "")>>}

\* A header only; one announcement; a hijack between others; one AS twice, the
\* first time invalid; a prefix that is too long, and one that only seems legal.
MCRecordFiles ==
  {<<Text>>,
   <<Text, Line(1, Prefix24, "false")>>,
   <<Line(3, Prefix24, "no"), Line(ASNSpace + 1, Prefix24, "true"), Line(0, Prefix24, "0")>>,
   <<Line(2, Prefix24, "1"), Line(2, Prefix24, "false"), Text>>,
   <<Line(1, [address |-> "IPv4", bits |-> 40], "false")>>,
   <<Line(1, [address |-> "IPv4", bits |-> 256 + 24], "false")>>}
=============================================================================
