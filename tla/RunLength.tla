------------------------------ MODULE RunLength ------------------------------
(***************************************************************************)
(* The records both programs of Project2 write: a count in four bytes,     *)
(* low byte first, and a character; and what a reader makes of them.       *)
(***************************************************************************)
EXTENDS Integers, Sequences, SequencesExt

\* the largest int
IntMax == 2147483647

\* (n >> (j * 8)) & 0xFF for j = 0..3
Bytes(n) ==
  <<n % 256, (n \div 256) % 256, (n \div 65536) % 256, (n \div 16777216) % 256>>

Record(n, c) == [bytes |-> Bytes(n), char |-> c]

\* What a reader takes the four bytes of a record for.
Count(r) == r.bytes[1] + 256 * r.bytes[2] + 65536 * r.bytes[3] + 16777216 * r.bytes[4]

Run(r) == [i \in 1..Count(r) |-> r.char]

\* The characters that a sequence of records stands for.
Expand(recs) == FlattenSeq([j \in 1..Len(recs) |-> Run(recs[j])])

\* No run is cut in two: neighbouring records hold different characters.
Maximal(recs) == \A i \in 1..(Len(recs) - 1) : recs[i].char # recs[i + 1].char

\* The part of s before the first c.
UpTo(s, c) ==
  LET ends == {i \in 1..Len(s) : s[i] = c}
  IN  IF ends = {} THEN s ELSE SubSeq(s, 1, (CHOOSE i \in ends : \A j \in ends : i <= j) - 1)
==============================================================================
