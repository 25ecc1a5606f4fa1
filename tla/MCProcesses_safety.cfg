SPECIFICATION ProcessSpec
CONSTANTS
  a = a
  b = b
  k = k
  h1 = h1
  h2 = h2
  None = None
  BootStack = BootStack
  Harts <- TwoHarts
  Tasks <- AB
  Prios <- TwoLevels
  PrioOf <- AServer
  NormalPrio = 16
  SpawnOrder <- OrderAB
  KillableTasks <- JustB
  Renicing <- JustB
  Sleeping <- AB
  MaxSignals = 1
  i = i
  p = p
  c = c
  InitProc = i
  Nobody = Nobody
  AnyChild = AnyChild
  OwnGroup = OwnGroup
  Procs <- IPC
  Unborn <- JustC
  FirstParent <- Chain
  WaitCalls <- AllWaits
  GroupOf <- TwoGroups
  SessionOf <- TwoSessions
  Mortal <- PC
  Killable <- NoProcs
  MaxPid = 5
  Spawned = {3}
  MaxKills = 1
  LockHarts = {0, 1, 2}
  MaxHarts = 4
INVARIANTS
  NotForgotten FamilyIntact PmTreeSound OnlyRecursionPanics
PROPERTIES
  ReportsAreRight
