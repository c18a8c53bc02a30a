---------------------------- MODULE MCHostUpdate ----------------------------
(***************************************************************************)
(* Small instance of HostUpdate for TLC: two builds of different length,   *)
(* whose images for slot A start with x and for slot B with y.  The longer *)
(* one needs two DATA frames and crashes in slot B.                        *)
(***************************************************************************)
EXTENDS HostUpdate

CONSTANTS x, y

MCBytes == {x, y}
MCCrc32(c) == IF c = <<y, y>> THEN ZeroCrc ELSE c
MCCrcs == Contents \cup {ZeroCrc}
MCBroken == {<<y, x>>}

MCBuilds ==
  {[version |-> 1, image |-> [s \in Slots |-> IF s = "A" THEN <<x>> ELSE <<y>>]],
   [version |-> 2, image |-> [s \in Slots |-> IF s = "A" THEN <<x, y>> ELSE <<y, x>>]]}

\* What the tool may send of them
MCImages == {b.image[s] : b \in MCBuilds, s \in Slots}
MCHeaders ==
  {[version |-> b.version, size |-> Len(b.image[s]), crc |-> MCCrc32(b.image[s])] :
     b \in MCBuilds, s \in Slots}
MCPayloads == UNION {{SubSeq(c, i, j) : i, j \in 1..Len(c)} : c \in MCImages} \ {<<>>}
=============================================================================
