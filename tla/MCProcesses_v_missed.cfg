SPECIFICATION ProcessSpec
CONSTANTS
  a = a
  b = b
  k = k
  h1 = h1
  h2 = h2
  None = None
  BootStack = BootStack
  Harts <- OneHart
  Tasks <- JustB
  Prios <- OneLevel
  PrioOf <- AllNormal
  NormalPrio = 16
  SpawnOrder <- OrderB
  KillableTasks <- NoProcs
  Renicing <- NoProcs
  Sleeping <- JustB
  MaxSignals = 0
  i = i
  p = p
  c = c
  InitProc = i
  Nobody = Nobody
  AnyChild = AnyChild
  OwnGroup = OwnGroup
  Procs <- IPC
  Unborn <- NoProcs
  FirstParent <- Chain
  WaitCalls <- Blocks
  GroupOf <- TwoGroups
  SessionOf <- TwoSessions
  Mortal <- PC
  Killable <- NoProcs
  MaxPid = 3
  Spawned = {3}
  MaxKills = 0
  LockHarts = {0}
  MaxHarts = 4
INVARIANTS
  NoMissedExit
