SPECIFICATION StorageSpec
CONSTANTS
  Archive <- SmallArchive
  BootDirs <- TmpOnly
  Spaces <- TwoSpaces
  Virtual <- VirtualPaths
  Programs <- OnlyOpen
  Offsets = {0, 1, 2}
  Bytes = {2}
  DataBlks <- DataBlocks
  Inodes <- FourInodes
  NDirect = 1
  PerBlock = 2
  JournalRoom = 5
  MaxFollow = 2
  v0 = v0
  v1 = v1
  NoValue = NoValue
  Blocks <- TwoBlocks
  Values <- TwoValues
  JournalSlots = 2
  FailingWrites <- AfterMarker
  Crashes <- CrashAny
  CachedInodes = {0, 1, 2}
  CacheSize = 4
  MaxWrites = 2
  MaxFills = 6
PROPERTIES
  CommittedJournalKept
