--------------------------- MODULE BldRefinement ---------------------------
(***************************************************************************)
(* The bootloader of BldDevice implements the promise of ABUpdate.  Images *)
(* are known by their CRC32.  A metadata operation takes effect when the   *)
(* page is erased; if the program operation after it does not finish, the  *)
(* record is forgotten.                                                    *)
(***************************************************************************)
EXTENDS BldDevice

Record == LoadOrDefault(Stored)

ImageIn(s) == IF s = None THEN ZeroCrc ELSE Record.slots[s].crc

\* The attempt that a write in progress spends still counts until the jump.
BudgetLeft ==
  IF Record.pending = None THEN 0
  ELSE Record.slots[Record.pending].attempts
         + (IF pc = "metaWrite" /\ job.call = "spendAttempt" THEN 1 ELSE 0)

\* The image that really is in the slot the processor executes from.
RunningImage ==
  IF running = None THEN ZeroCrc
  ELSE Crc32(Content(flash, running, committed.slots[running].size))

AB == INSTANCE ABUpdate WITH
        Images <- Crcs \ {ZeroCrc}, NoImage <- ZeroCrc, Budget <- MaxAttempts,
        accepted <- ImageIn(Record.confirmed), trial <- ImageIn(Record.pending),
        budget <- BudgetLeft, running <- RunningImage

\* The device, with power cuts and failing program operations, implements
\* ABUpdate: only a running image is accepted, the accepted image runs only when
\* no trial is left, a trial is started at most MaxAttempts times.
ImplementsABUpdate == AB!Spec
=============================================================================
