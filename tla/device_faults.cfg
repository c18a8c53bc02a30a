CONSTANTS
  x = x
  y = y
  Bytes <- MCBytes
  Crcs <- MCCrcs
  ZeroCrc = ZeroCrc
  Unreadable = Unreadable
  Erased = Erased
  Torn = Torn
  NoJob = NoJob
  MaxAttempts = 2
  SlotSize = 2
  PageSize = 1
  DwSize = 1
  Crc32 <- MCCrc32
  Headers <- MCFewHeaders
  Payloads <- MCFewPayloads
  Broken <- MCBroken
  Faults = {"power_loss", "erase_fail", "program_fail", "bit_rot"}
SPECIFICATION Spec
INVARIANTS
  TypeOK
  RecordAgrees
  TrialsBounded
  RoomErased
  RunsRecordedImage
PROPERTY UploadSparesConfirmed
