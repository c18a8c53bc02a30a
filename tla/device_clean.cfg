CONSTANTS
  x = x
  y = y
  Bytes <- MCBytes
  Crcs <- MCCrcs
  ZeroCrc = ZeroCrc
  Unreadable = Unreadable
  Erased = Erased
  Torn = Torn
  NoJob = NoJob
  MaxAttempts = 2
  SlotSize = 2
  PageSize = 2
  DwSize = 2
  Crc32 <- MCCrc32
  Headers <- MCHeaders
  Payloads <- MCPayloads
  Broken <- MCBroken
  Faults = {}
SPECIFICATION Spec
INVARIANTS
  BootErrOnlyWithoutImage
  RoomErased
PROPERTIES
  AcceptanceKept
