--------------------------- MODULE MCFlashStorage ---------------------------
(***************************************************************************)
(* FlashStorage for TLC: pages of four bytes, doublewords of two, banks of *)
(* three pages behind an unused stretch of addresses.  In the layout of    *)
(* bld_config.h region A ends where bank 2 begins and B begins there; in   *)
(* the other one, as a configured layout may, A lies across the boundary.  *)
(***************************************************************************)
EXTENDS FlashStorage

CONSTANTS x, y

MCRegions == {"A", "B"}
MCRegionSize == [r \in MCRegions |-> IF r = "A" THEN 8 ELSE 4]
MCLayouts == {[r \in MCRegions |-> IF r = "A" THEN 20 ELSE 28],
              [r \in MCRegions |-> IF r = "A" THEN 24 ELSE 36]}
MCBytes == {x, y}
\* Lengths up to the last one before the addresses wrap.
MCOffsets == {0, 1, 2, 4}
MCLengths == {0, 1, 5, 8, 63}
MCPayloads == {<<x>>, <<y, x, y>>}
=============================================================================
