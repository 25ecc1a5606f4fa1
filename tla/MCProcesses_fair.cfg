SPECIFICATION FairProcessSpec
CONSTANTS
  a = a
  b = b
  k = k
  h1 = h1
  h2 = h2
  None = None
  BootStack = BootStack
  Harts <- TwoHarts
  Tasks <- ABK
  Prios <- OneLevel
  PrioOf <- AllNormal
  NormalPrio = 16
  SpawnOrder <- OrderABK
  KillableTasks <- NoProcs
  Renicing <- NoProcs
  Sleeping <- AB
  MaxSignals = 0
  i = i
  p = p
  c = c
  InitProc = i
  Nobody = Nobody
  AnyChild = AnyChild
  OwnGroup = OwnGroup
  Procs <- IPC
  Unborn <- JustC
  FirstParent <- Chain
  WaitCalls <- Blocks
  GroupOf <- TwoGroups
  SessionOf <- TwoSessions
  Mortal <- PC
  Killable <- JustC
  MaxPid = 4
  Spawned = {3}
  MaxKills = 1
  LockHarts = {0, 1, 2}
  MaxHarts = 4
INVARIANTS
  NoPhantomEntry
PROPERTIES
  EveryoneRuns ZombiesReaped
