SPECIFICATION Spec
CONSTANTS
  NProcs = 3
  NFrames = 13
  NPages = 2
  Values <- Bit
  Programs <- MCPrograms
  Shared = Shared
  Gone = Gone
  Poison = Poison
CHECK_DEADLOCK FALSE
INVARIANTS
  FramesAndSwapAccounted MappingsSound
PROPERTIES
  MemoryIsPrivate
