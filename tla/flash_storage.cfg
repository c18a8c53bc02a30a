CONSTANTS
  x = x
  y = y
  Regions <- MCRegions
  RegionSize <- MCRegionSize
  Layouts <- MCLayouts
  AddressSpace = 64
  FlashBase = 16
  BankSize = 12
  PageSize = 4
  DwSize = 2
  Bytes <- MCBytes
  Erased = Erased
  Torn = Torn
  Foreign = Foreign
  NoCall = NoCall
  Offsets <- MCOffsets
  Lengths <- MCLengths
  Payloads <- MCPayloads
SPECIFICATION Spec
INVARIANTS
  LockedBetweenCalls
  ForeignKept
PROPERTY ImplementsRegionStore
