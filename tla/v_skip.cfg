CONSTANTS
  x = x
  y = y
  Bytes <- MCBytes
  Crcs <- MCCrcs
  ZeroCrc = ZeroCrc
  Unreadable = Unreadable
  Erased = Erased
  Torn = Torn
  NoJob = NoJob
  MaxAttempts = 2
  SlotSize = 2
  PageSize = 1
  DwSize = 1
  Crc32 <- MCCrc32
  Headers <- MCHeaders
  Payloads <- MCPayloads
  Broken <- MCBroken
  Faults = {}
  Builds <- MCBuilds
  ChunkSize = 1
  Troubles = {"lost", "garbled", "truncated", "early_timeout", "late_reply", "reset"}
  MaxTroubles = 2
  MaxLine = 2
  NoBuild = NoBuild
SPECIFICATION HostSpec
INVARIANTS
  SkipIsTrue
