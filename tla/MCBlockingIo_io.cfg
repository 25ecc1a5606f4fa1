SPECIFICATION Spec
CONSTANTS
  A = A  B = B  C = C
  Procs = {A, B, C}
  Nobody = Nobody
  Programs <- AllPrograms
  MaxCalls <- Calls
  Watchable <- Objects
  Trigger <- OnReadable
  FgGroups <- Groups
  RawModes <- BothModes
  MaxChars = 3
CHECK_DEADLOCK FALSE
INVARIANTS
  NoWaiterStranded NoChannelWaiterStranded  SleeperIsStopped
