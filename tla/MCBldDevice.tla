---------------------------- MODULE MCBldDevice ----------------------------
(***************************************************************************)
(* Small instances of BldDevice for TLC: slots of two cells, two byte      *)
(* values, CRC32 without collisions (one content has the CRC 0).           *)
(***************************************************************************)
EXTENDS BldRefinement

CONSTANTS x, y

MCBytes == {x, y}
MCCrc32(c) == IF c = <<y, y>> THEN ZeroCrc ELSE c
MCCrcs == Contents \cup {ZeroCrc}

\* Two images of different length, a copy of which one is broken, one whose CRC
\* does not match any upload, and frames that are refused at different points.
GoodHeaders ==
  {[version |-> 1, size |-> 1, crc |-> <<x>>],
   [version |-> 1, size |-> 2, crc |-> <<y, x>>]}
OddHeaders ==
  {[version |-> 0, size |-> 1, crc |-> <<x>>],
   [version |-> 1, size |-> 2, crc |-> ZeroCrc],
   [version |-> 1, size |-> 3, crc |-> <<x>>],
   [version |-> 1, size |-> 0, crc |-> <<x>>]}
MCHeaders == GoodHeaders \cup OddHeaders
\* For the runs with many faults: the two images and one refused at END.
MCFewHeaders == GoodHeaders \cup {[version |-> 0, size |-> 1, crc |-> <<x>>]}
MCFewPayloads == {<<x>>, <<y, x>>}
MCPayloads == {<<x>>, <<y>>, <<y, x>>, <<>>}
MCBroken == {<<y, x>>}
=============================================================================
