---------------------------- MODULE MCOutputBuffer ----------------------------
(***************************************************************************)
(* Outputs for OutputBuffer.                                               *)
(***************************************************************************)
EXTENDS OutputBuffer, SequencesExt

\* The length of the row of an AS whose path has k ASes: numbers of so many
\* digits and a prefix of so many characters.
RowLength(k, digits, prefixLen) ==
  (digits + 1) + (prefixLen + 1) + 2 + (k * digits + 2 * (k - 1)) + 3
    + (IF k = 1 THEN 1 ELSE 0)

\* Up to five rows: short and long paths of short numbers, the longest path of
\* numbers with six digits, and as much as there is room for.
ShortNumbers == {RowLength(1, 1, 9), RowLength(6, 5, 14), RowLength(16, 6, 18), 200}

MCOutputs == BoundedSeq(ShortNumbers, 5)

\* Seventeen ASes above each other, all with numbers of ten digits, as private
\* ones have; in this order of the hash map.
ChainOrder == <<1, 2, 3, 4, 5, 6, 9, 15, 16, 7, 8, 10, 11, 12, 13, 14, 16>>

ChainOutputs == {[k \in 1..17 |-> RowLength(ChainOrder[k], 10, 18)]}
=============================================================================
