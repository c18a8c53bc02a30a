CONSTANTS
  x = x
  y = y
  Bytes <- MCBytes
  Crcs <- MCCrcs
  ZeroCrc = ZeroCrc
  Unreadable = Unreadable
  Erased = Erased
  Torn = Torn
  NoJob = NoJob
  MaxAttempts = 2
  SlotSize = 2
  PageSize = 1
  DwSize = 1
  Crc32 <- MCCrc32
  Headers <- MCFewHeaders
  Payloads <- MCFewPayloads
  Broken <- MCBroken
  Faults = {"power_loss", "program_fail"}
SPECIFICATION FairSpec
INVARIANTS
  ConfirmedIntact
  ConfirmedProved
PROPERTIES
  ImplementsABUpdate
  RollbackHappens
